--------------------------- MODULE ContractProofs ---------------------------
(***************************************************************************)
(* Proofs about the diff of two contracts, the verdict on it, the impact   *)
(* of it on a consumer, and what both say of the consumers' documents, for *)
(* any two contracts and any consumer; and about the compiler's changelog, *)
(* for any changes to any contract.                                        *)
(***************************************************************************)
EXTENDS ContractCompiler, WellFoundedInduction, TLAPS
-----------------------------------------------------------------------------
(* What the findings are, and what a quiet verdict asks.                   *)

\* The findings the verdict takes lightly are additions, of a field, a status or an
\* operation.
Graded(f) ==
  \/ f.class = "breaking"
  \/ f.class = "additive" /\ f.risky
  \/ f.class = "additive" /\ f.rule \in {"field-added", "status-code-added", "operation-added"}

\* Findings have one of the classes that the verdict tells apart: those of a shape,
LEMMA ShapeIsGraded ==
  ASSUME NEW from, NEW to, NEW path, NEW f \in ShapeFindings(from, to, path)
  PROVE  Graded(f)
BY DEF ShapeFindings, Graded, If, Breaking, Additive, Risky, Finding

\* of a field,
LEMMA FieldIsGraded ==
  ASSUME NEW from, NEW to, NEW name, NEW path, NEW f \in FieldFindings(from, to, name, path)
  PROVE  Graded(f)
BY DEF FieldFindings, Graded, If, Breaking, Additive, Finding

\* One level after the other, the innermost first.
LEMMA Level3IsGraded ==
  ASSUME NEW from, NEW to, NEW path, NEW f \in DiffLevel3(from, to, path)
  PROVE  Graded(f)
<1>1. NotObject \notin {from, to}
  BY DEF DiffLevel3, DiffLevel
<1>2. \/ f \in ShapeFindings(from, to, path)
      \/ \E n \in DOMAIN from.properties \cup DOMAIN to.properties :
           f \in FieldFindings(from, to, n, In(path, n))
  BY <1>1 DEF DiffLevel3, DiffLevel, NoLevel
<1> QED
  BY <1>2, ShapeIsGraded, FieldIsGraded

\* of each level of a schema,
LEMMA Level2IsGraded ==
  ASSUME NEW from, NEW to, NEW path, NEW f \in DiffLevel2(from, to, path)
  PROVE  Graded(f)
<1>1. NotObject \notin {from, to}
  BY DEF DiffLevel2, DiffLevel
<1>2. \/ f \in ShapeFindings(from, to, path)
      \/ \E n \in DOMAIN from.properties \cup DOMAIN to.properties :
           f \in FieldFindings(from, to, n, In(path, n))
      \/ \E n \in DOMAIN from.properties \cap DOMAIN to.properties :
           f \in DiffLevel3(from.properties[n], to.properties[n], In(path, n))
  BY <1>1 DEF DiffLevel2, DiffLevel
<1> QED
  BY <1>2, ShapeIsGraded, FieldIsGraded, Level3IsGraded

\* one level up,
LEMMA Level1IsGraded ==
  ASSUME NEW from, NEW to, NEW path, NEW f \in DiffLevel1(from, to, path)
  PROVE  Graded(f)
<1>1. NotObject \notin {from, to}
  BY DEF DiffLevel1, DiffLevel
<1>2. \/ f \in ShapeFindings(from, to, path)
      \/ \E n \in DOMAIN from.properties \cup DOMAIN to.properties :
           f \in FieldFindings(from, to, n, In(path, n))
      \/ \E n \in DOMAIN from.properties \cap DOMAIN to.properties :
           f \in DiffLevel2(from.properties[n], to.properties[n], In(path, n))
  BY <1>1 DEF DiffLevel1, DiffLevel
<1> QED
  BY <1>2, ShapeIsGraded, FieldIsGraded, Level2IsGraded

\* at the top,
LEMMA SchemaIsGraded ==
  ASSUME NEW from, NEW to, NEW path, NEW f \in DiffSchema(from, to, path)
  PROVE  Graded(f)
<1>1. NotObject \notin {from, to}
  BY DEF DiffSchema, DiffLevel
<1>2. \/ f \in ShapeFindings(from, to, path)
      \/ \E n \in DOMAIN from.properties \cup DOMAIN to.properties :
           f \in FieldFindings(from, to, n, In(path, n))
      \/ \E n \in DOMAIN from.properties \cap DOMAIN to.properties :
           f \in DiffLevel1(from.properties[n], to.properties[n], In(path, n))
  BY <1>1 DEF DiffSchema, DiffLevel
<1> QED
  BY <1>2, ShapeIsGraded, FieldIsGraded, Level1IsGraded

\* of a response,
LEMMA ResponseIsGraded ==
  ASSUME NEW op, NEW from, NEW to, NEW status \in DOMAIN from \cup DOMAIN to,
         NEW f \in DiffResponse(op, from, to, status)
  PROVE  Graded(f)
<1>1. CASE status \notin DOMAIN to
  <2>1. DiffResponse(op, from, to, status) = {Breaking("status-code-removed", Path(op, status))}
    BY <1>1 DEF DiffResponse
  <2>2. f = Breaking("status-code-removed", Path(op, status))
    BY <2>1
  <2> QED
    BY <2>2 DEF Graded, Breaking, Finding
<1>2. CASE status \in DOMAIN to /\ status \notin DOMAIN from
  <2>1. DiffResponse(op, from, to, status) = {Additive("status-code-added", Path(op, status))}
    BY <1>2 DEF DiffResponse
  <2>2. f = Additive("status-code-added", Path(op, status))
    BY <2>1
  <2> QED
    BY <2>2 DEF Graded, Additive, Finding
<1>3. CASE status \in DOMAIN to /\ status \in DOMAIN from
  <2> f \in DiffSchema(from[status], to[status], Path(op, status))
    BY <1>3 DEF DiffResponse
  <2> QED
    BY SchemaIsGraded
<1> QED
  BY <1>1, <1>2, <1>3

\* of an operation.
LEMMA OperationIsGraded ==
  ASSUME NEW op, NEW from, NEW to, NEW f \in DiffOperation(op, from, to)
  PROVE  Graded(f)
<1> DEFINE Security == Breaking("security-requirements-changed", Path(op, ""))
           Responses(status) == DiffResponse(op, from.responses, to.responses, status)
           Request == DiffSchema(from.request, to.request, Path(op, "request"))
<1>1. \/ f = Breaking("security-requirements-changed", Path(op, ""))
      \/ \E status \in DOMAIN from.responses \cup DOMAIN to.responses :
           f \in DiffResponse(op, from.responses, to.responses, status)
      \/ f \in DiffSchema(from.request, to.request, Path(op, "request"))
  <2>1. f \in If(from.security # to.security, Security)
               \cup (UNION {Responses(status) : status \in DOMAIN from.responses \cup DOMAIN to.responses})
               \cup (IF NoSchema \in {from.request, to.request} THEN {} ELSE Request)
    BY DEF DiffOperation
  <2>2. (f \in If(from.security # to.security, Security)) => f = Security
    BY DEF If
  <2> HIDE DEF Security, Responses, Request
  <2>3. \/ f = Security \/ f \in Request
        \/ \E status \in DOMAIN from.responses \cup DOMAIN to.responses : f \in Responses(status)
    BY <2>1, <2>2
  <2> QED
    BY <2>3 DEF Security, Responses, Request
<1>2. CASE f = Breaking("security-requirements-changed", Path(op, ""))
  BY <1>2 DEF Graded, Breaking, Finding
<1> QED
  BY <1>1, <1>2, ResponseIsGraded, SchemaIsGraded

\* Every finding of the diff is breaking, risky, or an addition nobody reads yet.
LEMMA FindingIsGraded ==
  ASSUME NEW from, NEW to, NEW f \in DiffContracts(from, to)
  PROVE  Graded(f)
<1> DEFINE Of(op) ==
      CASE op \notin DOMAIN to -> {Breaking("operation-removed", Path(op, ""))}
        [] op \notin DOMAIN from -> {Additive("operation-added", Path(op, ""))}
        [] OTHER -> DiffOperation(op, from[op], to[op])
<1>1. PICK op \in DOMAIN from \cup DOMAIN to : f \in Of(op)
  BY DEF DiffContracts
<1>2. CASE op \notin DOMAIN to
  <2>1. Of(op) = {Breaking("operation-removed", Path(op, ""))}
    BY <1>2
  <2>2. f = Breaking("operation-removed", Path(op, ""))
    BY <1>1, <2>1
  <2> QED
    BY <2>2 DEF Graded, Breaking, Finding
<1>3. CASE op \in DOMAIN to /\ op \notin DOMAIN from
  <2>1. Of(op) = {Additive("operation-added", Path(op, ""))}
    BY <1>3
  <2>2. f = Additive("operation-added", Path(op, ""))
    BY <1>1, <2>1
  <2> QED
    BY <2>2 DEF Graded, Additive, Finding
<1>4. CASE op \in DOMAIN to /\ op \in DOMAIN from
  <2>1. Of(op) = DiffOperation(op, from[op], to[op])
    BY <1>4
  <2>2. f \in DiffOperation(op, from[op], to[op])
    BY <1>1, <2>1
  <2> QED
    BY <2>2, OperationIsGraded
<1> QED
  BY <1>2, <1>3, <1>4

\* The verdict and the impacts are computed apart, and agree: when the verdict on a
\* change is "no-op" or "additive", it asks nothing of any consumer.
THEOREM QuietVerdictAsksNothing ==
  ASSUME NEW from, NEW to, NEW terms,
         Verdict(DiffContracts(from, to)) \in {"no-op", "additive"}
  PROVE  /\ AssessConsumer(DiffContracts(from, to), terms) = {}
         /\ AnalyzeConsumer(DiffContracts(from, to), terms).impact \in {"none", "unknown"}
<1> DEFINE D == DiffContracts(from, to)
<1>1. \A f \in D : f.class # "breaking" /\ ~f.risky
  <2>1. CASE D = {}
    BY <2>1
  <2>2. CASE D # {} /\ \E f \in D : f.class = "breaking"
    <3> HIDE DEF D
    <3>1. Verdict(D) = "breaking"
      BY <2>2 DEF Verdict
    <3> QED
      BY <3>1 DEF D
  <2>3. CASE D # {} /\ (\A f \in D : f.class # "breaking") /\ ~(\A f \in D : ~f.risky)
    <3> HIDE DEF D
    <3>1. Verdict(D) = "ambiguous"
      BY <2>3 DEF Verdict
    <3> QED
      BY <3>1 DEF D
  <2> QED
    BY <2>1, <2>2, <2>3
<1>2. \A f \in D : f.rule \in {"field-added", "status-code-added", "operation-added"}
  BY <1>1, FindingIsGraded DEF Graded
<1> HIDE DEF D
<1>3. AssessConsumer(D, terms) = {}
  <2>1. \A f \in D : /\ f.rule # "enum-value-added" /\ f.rule # "status-code-removed"
                     /\ SemanticRule(f.rule) = "none"
    BY <1>2 DEF SemanticRule
  <2> QED
    BY <2>1 DEF AssessConsumer
<1>4. ImpactLevel(D, terms, AssessConsumer(D, terms)) \in {"none", "unknown"}
  <2>1. CASE terms.fields = {}
    BY <2>1 DEF ImpactLevel
  <2>2. CASE terms.fields # {}
    BY <1>3, <2>2 DEF ImpactLevel
  <2> QED
    BY <2>1, <2>2
<1>5. AnalyzeConsumer(D, terms).impact = ImpactLevel(D, terms, AssessConsumer(D, terms))
  BY DEF AnalyzeConsumer
<1> QED
  BY <1>3, <1>4, <1>5 DEF D
-----------------------------------------------------------------------------
(* What a quiet verdict, and an impact of "none", promise.                  *)

Quiet(findings) == \A f \in findings : f.class # "breaking" /\ ~f.risky

\* Schemas between which nothing of a shape is found have the same shape.
LEMMA QuietShape ==
  ASSUME NEW from, NEW to, NEW path, Quiet(ShapeFindings(from, to, path))
  PROVE  /\ from.type = to.type /\ from.format = to.format /\ from.nullable = to.nullable
         /\ Enums(from) = Enums(to)
<1>2. \A f \in ShapeFindings(from, to, path) : f.class # "breaking" /\ ~f.risky
  BY DEF Quiet
<1>3. /\ Breaking("type-changed", path).class = "breaking"
      /\ Breaking("format-changed", path).class = "breaking"
      /\ Breaking("nullability-changed", path).class = "breaking"
      /\ Risky(Additive("nullability-changed", path)).risky
      /\ Breaking("enum-value-removed", path).class = "breaking"
      /\ Risky(Additive("enum-value-added", path)).risky
  BY DEF Breaking, Risky, Additive, Finding
<1>4. /\ from.type # to.type => Breaking("type-changed", path) \in ShapeFindings(from, to, path)
      /\ from.format # to.format => Breaking("format-changed", path) \in ShapeFindings(from, to, path)
      /\ from.nullable # to.nullable =>
           \/ Breaking("nullability-changed", path) \in ShapeFindings(from, to, path)
           \/ Risky(Additive("nullability-changed", path)) \in ShapeFindings(from, to, path)
      /\ ~(Enums(from) \subseteq Enums(to)) =>
           Breaking("enum-value-removed", path) \in ShapeFindings(from, to, path)
      /\ ~(Enums(to) \subseteq Enums(from)) =>
           Risky(Additive("enum-value-added", path)) \in ShapeFindings(from, to, path)
  BY DEF ShapeFindings, If
<1>5. /\ from.type = to.type /\ from.format = to.format /\ from.nullable = to.nullable
      /\ Enums(from) \subseteq Enums(to) /\ Enums(to) \subseteq Enums(from)
  BY <1>2, <1>3, <1>4
<1> QED
  BY <1>5

\* A field without a disturbing finding is not removed, and not required where it was not.
LEMMA QuietField ==
  ASSUME NEW from, NEW to, NEW n, NEW path, Quiet(FieldFindings(from, to, n, path))
  PROVE  /\ n \in DOMAIN from.properties => n \in DOMAIN to.properties
         /\ n \in DOMAIN to.properties /\ n \in to.required => n \in from.required
<1>1. /\ Breaking("field-removed", path).class = "breaking"
      /\ Breaking("required-field-added", path).class = "breaking"
  BY DEF Breaking, Finding
<1>2. /\ n \in DOMAIN from.properties /\ n \notin DOMAIN to.properties =>
           Breaking("field-removed", path) \in FieldFindings(from, to, n, path)
      /\ n \in DOMAIN to.properties /\ n \in to.required /\ n \notin from.required =>
           Breaking("required-field-added", path) \in FieldFindings(from, to, n, path)
  BY DEF FieldFindings, If
<1> QED
  BY <1>1, <1>2 DEF Quiet

\* A value the writer may send is one the reader knows, unless a finding says so.
LEMMA ValueIsRead ==
  ASSUME NEW reader, NEW writer, NEW value,
         reader.nullable = writer.nullable, Enums(reader) = Enums(writer),
         reader.enum = {} => writer.enum # NoEnum,
         value \in (IF writer.enum = NoEnum THEN {Everything} ELSE writer.enum)
                   \cup (IF writer.nullable = "yes" THEN {Null} ELSE {})
  PROVE  \/ value = Null /\ reader.nullable = "yes"
         \/ IF reader.enum = NoEnum THEN value # Null ELSE value \in reader.enum
BY DEF Enums, Everything, Null

\* A document on the level of a schema, whatever is nested in it.
LEMMA LevelIsRead ==
  ASSUME NEW reader, NEW writer, NEW full \in BOOLEAN, NEW path, NEW d,
         Quiet(IF full THEN ShapeFindings(reader, writer, path) ELSE ShapeFindings(writer, reader, path)),
         \A n \in DOMAIN reader.properties \cup DOMAIN writer.properties :
           Quiet(IF full THEN FieldFindings(reader, writer, n, In(path, n))
                 ELSE FieldFindings(writer, reader, n, In(path, n))),
         reader.required \subseteq DOMAIN reader.properties,
         reader.enum = {} => writer.enum # NoEnum,
         d.type = writer.type, d.format = writer.format,
         d.value \in (IF writer.enum = NoEnum THEN {Everything} ELSE writer.enum)
                     \cup (IF writer.nullable = "yes" THEN {Null} ELSE {}),
         IF full THEN DOMAIN d.fields = DOMAIN writer.properties ELSE writer.required \subseteq DOMAIN d.fields
  PROVE  /\ d.type = reader.type /\ d.format = reader.format
         /\ \/ d.value = Null /\ reader.nullable = "yes"
            \/ IF reader.enum = NoEnum THEN d.value # Null ELSE d.value \in reader.enum
         /\ reader.required \subseteq DOMAIN d.fields
<1>1. /\ reader.type = writer.type /\ reader.format = writer.format
      /\ reader.nullable = writer.nullable /\ Enums(reader) = Enums(writer)
  BY QuietShape
<1>2. /\ d.type = reader.type /\ d.format = reader.format
      /\ \/ d.value = Null /\ reader.nullable = "yes"
         \/ IF reader.enum = NoEnum THEN d.value # Null ELSE d.value \in reader.enum
  BY <1>1, ValueIsRead
<1>3. reader.required \subseteq DOMAIN d.fields
  <2> SUFFICES ASSUME NEW n \in reader.required PROVE n \in DOMAIN d.fields
    OBVIOUS
  <2>1. CASE full
    BY <2>1, QuietField
  <2>2. CASE ~full
    BY <2>2, QuietField
  <2> QED
    BY <2>1, <2>2
<1> QED
  BY <1>2, <1>3

\* One level after the other, the innermost first.
LEMMA Level3Serves ==
  ASSUME NEW reader, NEW writer, NEW full \in BOOLEAN, NEW path, Comparable3(reader, writer),
         Quiet(IF full THEN DiffLevel3(reader, writer, path) ELSE DiffLevel3(writer, reader, path)),
         NEW d \in Documents3(writer, full)
  PROVE  Reads3(reader, d)
<1>1. /\ NotObject \notin {reader, writer} /\ reader.required \subseteq DOMAIN reader.properties
      /\ reader.enum = {} => writer.enum # NoEnum
  BY DEF Comparable3, ComparableLevel
<1>2. /\ Quiet(IF full THEN ShapeFindings(reader, writer, path) ELSE ShapeFindings(writer, reader, path))
      /\ \A n \in DOMAIN reader.properties \cup DOMAIN writer.properties :
           Quiet(IF full THEN FieldFindings(reader, writer, n, In(path, n))
                 ELSE FieldFindings(writer, reader, n, In(path, n)))
  BY <1>1 DEF DiffLevel3, DiffLevel, Quiet
<1>3. /\ d.type = writer.type /\ d.format = writer.format
      /\ d.value \in (IF writer.enum = NoEnum THEN {Everything} ELSE writer.enum)
                     \cup (IF writer.nullable = "yes" THEN {Null} ELSE {})
      /\ IF full THEN DOMAIN d.fields = DOMAIN writer.properties ELSE writer.required \subseteq DOMAIN d.fields
  BY DEF Documents3, DocumentsLevel
<1>4. /\ d.type = reader.type /\ d.format = reader.format
      /\ \/ d.value = Null /\ reader.nullable = "yes"
         \/ IF reader.enum = NoEnum THEN d.value # Null ELSE d.value \in reader.enum
      /\ reader.required \subseteq DOMAIN d.fields
  BY <1>1, <1>2, <1>3, LevelIsRead
<1> QED
  BY <1>4 DEF Reads3, ReadsLevel, ReadsBelow

\* The same where schemas are nested once,
LEMMA Level2Serves ==
  ASSUME NEW reader, NEW writer, NEW full \in BOOLEAN, NEW path, Comparable2(reader, writer),
         Quiet(IF full THEN DiffLevel2(reader, writer, path) ELSE DiffLevel2(writer, reader, path)),
         NEW d \in Documents2(writer, full)
  PROVE  Reads2(reader, d)
<1>1. /\ NotObject \notin {reader, writer} /\ reader.required \subseteq DOMAIN reader.properties
      /\ reader.enum = {} => writer.enum # NoEnum
      /\ \A n \in DOMAIN reader.properties \cap DOMAIN writer.properties :
           Comparable3(reader.properties[n], writer.properties[n])
  BY DEF Comparable2, ComparableLevel
<1>2. /\ Quiet(IF full THEN ShapeFindings(reader, writer, path) ELSE ShapeFindings(writer, reader, path))
      /\ \A n \in DOMAIN reader.properties \cup DOMAIN writer.properties :
           Quiet(IF full THEN FieldFindings(reader, writer, n, In(path, n))
                 ELSE FieldFindings(writer, reader, n, In(path, n)))
      /\ \A n \in DOMAIN reader.properties \cap DOMAIN writer.properties :
           Quiet(IF full THEN DiffLevel3(reader.properties[n], writer.properties[n], In(path, n))
                 ELSE DiffLevel3(writer.properties[n], reader.properties[n], In(path, n)))
  BY <1>1 DEF DiffLevel2, DiffLevel, Quiet
<1>3. /\ d.type = writer.type /\ d.format = writer.format
      /\ d.value \in (IF writer.enum = NoEnum THEN {Everything} ELSE writer.enum)
                     \cup (IF writer.nullable = "yes" THEN {Null} ELSE {})
      /\ IF full THEN DOMAIN d.fields = DOMAIN writer.properties ELSE writer.required \subseteq DOMAIN d.fields
      /\ \A n \in DOMAIN d.fields :
           n \in DOMAIN writer.properties /\ d.fields[n] \in Documents3(writer.properties[n], full)
  BY DEF Documents2, DocumentsLevel
<1>4. /\ d.type = reader.type /\ d.format = reader.format
      /\ \/ d.value = Null /\ reader.nullable = "yes"
         \/ IF reader.enum = NoEnum THEN d.value # Null ELSE d.value \in reader.enum
      /\ reader.required \subseteq DOMAIN d.fields
  BY <1>1, <1>2, <1>3, LevelIsRead
<1>5. \A n \in DOMAIN d.fields \cap DOMAIN reader.properties : Reads3(reader.properties[n], d.fields[n])
  BY <1>1, <1>2, <1>3, Level3Serves
<1> QED
  BY <1>4, <1>5 DEF Reads2, ReadsLevel
\* twice,
LEMMA Level1Serves ==
  ASSUME NEW reader, NEW writer, NEW full \in BOOLEAN, NEW path, Comparable1(reader, writer),
         Quiet(IF full THEN DiffLevel1(reader, writer, path) ELSE DiffLevel1(writer, reader, path)),
         NEW d \in Documents1(writer, full)
  PROVE  Reads1(reader, d)
<1>1. /\ NotObject \notin {reader, writer} /\ reader.required \subseteq DOMAIN reader.properties
      /\ reader.enum = {} => writer.enum # NoEnum
      /\ \A n \in DOMAIN reader.properties \cap DOMAIN writer.properties :
           Comparable2(reader.properties[n], writer.properties[n])
  BY DEF Comparable1, ComparableLevel
<1>2. /\ Quiet(IF full THEN ShapeFindings(reader, writer, path) ELSE ShapeFindings(writer, reader, path))
      /\ \A n \in DOMAIN reader.properties \cup DOMAIN writer.properties :
           Quiet(IF full THEN FieldFindings(reader, writer, n, In(path, n))
                 ELSE FieldFindings(writer, reader, n, In(path, n)))
      /\ \A n \in DOMAIN reader.properties \cap DOMAIN writer.properties :
           Quiet(IF full THEN DiffLevel2(reader.properties[n], writer.properties[n], In(path, n))
                 ELSE DiffLevel2(writer.properties[n], reader.properties[n], In(path, n)))
  BY <1>1 DEF DiffLevel1, DiffLevel, Quiet
<1>3. /\ d.type = writer.type /\ d.format = writer.format
      /\ d.value \in (IF writer.enum = NoEnum THEN {Everything} ELSE writer.enum)
                     \cup (IF writer.nullable = "yes" THEN {Null} ELSE {})
      /\ IF full THEN DOMAIN d.fields = DOMAIN writer.properties ELSE writer.required \subseteq DOMAIN d.fields
      /\ \A n \in DOMAIN d.fields :
           n \in DOMAIN writer.properties /\ d.fields[n] \in Documents2(writer.properties[n], full)
  BY DEF Documents1, DocumentsLevel
<1>4. /\ d.type = reader.type /\ d.format = reader.format
      /\ \/ d.value = Null /\ reader.nullable = "yes"
         \/ IF reader.enum = NoEnum THEN d.value # Null ELSE d.value \in reader.enum
      /\ reader.required \subseteq DOMAIN d.fields
  BY <1>1, <1>2, <1>3, LevelIsRead
<1>5. \A n \in DOMAIN d.fields \cap DOMAIN reader.properties : Reads2(reader.properties[n], d.fields[n])
  BY <1>1, <1>2, <1>3, Level2Serves
<1> QED
  BY <1>4, <1>5 DEF Reads1, ReadsLevel

\* and of a schema as a whole.
LEMMA SchemaServes ==
  ASSUME NEW reader, NEW writer, NEW full \in BOOLEAN, NEW path, Comparable(reader, writer),
         Quiet(IF full THEN DiffSchema(reader, writer, path) ELSE DiffSchema(writer, reader, path)),
         NEW d \in Documents(writer, full)
  PROVE  Reads(reader, d)
<1>1. /\ NotObject \notin {reader, writer} /\ reader.required \subseteq DOMAIN reader.properties
      /\ reader.enum = {} => writer.enum # NoEnum
      /\ \A n \in DOMAIN reader.properties \cap DOMAIN writer.properties :
           Comparable1(reader.properties[n], writer.properties[n])
  BY DEF Comparable, ComparableLevel
<1>2. /\ Quiet(IF full THEN ShapeFindings(reader, writer, path) ELSE ShapeFindings(writer, reader, path))
      /\ \A n \in DOMAIN reader.properties \cup DOMAIN writer.properties :
           Quiet(IF full THEN FieldFindings(reader, writer, n, In(path, n))
                 ELSE FieldFindings(writer, reader, n, In(path, n)))
      /\ \A n \in DOMAIN reader.properties \cap DOMAIN writer.properties :
           Quiet(IF full THEN DiffLevel1(reader.properties[n], writer.properties[n], In(path, n))
                 ELSE DiffLevel1(writer.properties[n], reader.properties[n], In(path, n)))
  BY <1>1 DEF DiffSchema, DiffLevel, Quiet
<1>3. /\ d.type = writer.type /\ d.format = writer.format
      /\ d.value \in (IF writer.enum = NoEnum THEN {Everything} ELSE writer.enum)
                     \cup (IF writer.nullable = "yes" THEN {Null} ELSE {})
      /\ IF full THEN DOMAIN d.fields = DOMAIN writer.properties ELSE writer.required \subseteq DOMAIN d.fields
      /\ \A n \in DOMAIN d.fields :
           n \in DOMAIN writer.properties /\ d.fields[n] \in Documents1(writer.properties[n], full)
  BY DEF Documents, DocumentsLevel
<1>4. /\ d.type = reader.type /\ d.format = reader.format
      /\ \/ d.value = Null /\ reader.nullable = "yes"
         \/ IF reader.enum = NoEnum THEN d.value # Null ELSE d.value \in reader.enum
      /\ reader.required \subseteq DOMAIN d.fields
  BY <1>1, <1>2, <1>3, LevelIsRead
<1>5. \A n \in DOMAIN d.fields \cap DOMAIN reader.properties : Reads1(reader.properties[n], d.fields[n])
  BY <1>1, <1>2, <1>3, Level1Serves
<1> QED
  BY <1>4, <1>5 DEF Reads, ReadsLevel

\* A quiet verdict is one without disturbing findings.
LEMMA QuietVerdict ==
  ASSUME NEW findings, Verdict(findings) \in {"no-op", "additive"}
  PROVE  Quiet(findings)
<1>1. CASE findings = {}
  BY <1>1 DEF Quiet
<1>2. CASE findings # {} /\ \E f \in findings : f.class = "breaking"
  BY <1>2 DEF Verdict
<1>3. CASE findings # {} /\ (\A f \in findings : f.class # "breaking") /\ ~(\A f \in findings : ~f.risky)
  BY <1>3 DEF Verdict
<1> QED
  BY <1>1, <1>2, <1>3 DEF Quiet

\* Nothing disturbing between two contracts, nothing between their operations; and what is
\* removed is disturbing.
LEMMA QuietContracts ==
  ASSUME NEW from, NEW to, Quiet(DiffContracts(from, to)), NEW op \in DOMAIN from
  PROVE  op \in DOMAIN to /\ Quiet(DiffOperation(op, from[op], to[op]))
<1> DEFINE Of(o) ==
      CASE o \notin DOMAIN to -> {Breaking("operation-removed", Path(o, ""))}
        [] o \notin DOMAIN from -> {Additive("operation-added", Path(o, ""))}
        [] OTHER -> DiffOperation(o, from[o], to[o])
<1>1. Of(op) \subseteq DiffContracts(from, to)
  BY DEF DiffContracts
<1>2. op \in DOMAIN to
  <2> SUFFICES ASSUME op \notin DOMAIN to PROVE FALSE
    OBVIOUS
  <2>1. Breaking("operation-removed", Path(op, "")) \in DiffContracts(from, to)
    BY <1>1
  <2> QED
    BY <2>1 DEF Quiet, Breaking, Finding
<1>3. DiffOperation(op, from[op], to[op]) \subseteq DiffContracts(from, to)
  BY <1>1, <1>2
<1> QED
  BY <1>2, <1>3 DEF Quiet

\* Nothing disturbing about an operation, nothing about its responses and its request.
LEMMA QuietOperations ==
  ASSUME NEW op, NEW from, NEW to, Quiet(DiffOperation(op, from, to))
  PROVE  /\ \A status \in DOMAIN from.responses :
              /\ status \in DOMAIN to.responses
              /\ Quiet(DiffSchema(from.responses[status], to.responses[status], Path(op, status)))
         /\ NoSchema \notin {from.request, to.request} =>
              Quiet(DiffSchema(from.request, to.request, Path(op, "request")))
<1> DEFINE Security == If(from.security # to.security, Breaking("security-requirements-changed", Path(op, "")))
           Responses(status) == DiffResponse(op, from.responses, to.responses, status)
           Request == DiffSchema(from.request, to.request, Path(op, "request"))
<1>1. DiffOperation(op, from, to) =
        Security \cup (UNION {Responses(status) : status \in DOMAIN from.responses \cup DOMAIN to.responses})
          \cup (IF NoSchema \in {from.request, to.request} THEN {} ELSE Request)
  BY DEF DiffOperation
<1>2. ASSUME NEW status \in DOMAIN from.responses
      PROVE  /\ status \in DOMAIN to.responses
             /\ Quiet(DiffSchema(from.responses[status], to.responses[status], Path(op, status)))
  <2>1. Responses(status) \subseteq DiffOperation(op, from, to)
    <3> HIDE DEF Security, Responses, Request
    <3> QED
      BY <1>1
  <2>2. status \in DOMAIN to.responses
    <3> SUFFICES ASSUME status \notin DOMAIN to.responses PROVE FALSE
      OBVIOUS
    <3>1. Breaking("status-code-removed", Path(op, status)) \in DiffOperation(op, from, to)
      BY <2>1 DEF DiffResponse
    <3> QED
      BY <3>1 DEF Quiet, Breaking, Finding
  <2>3. Responses(status) = DiffSchema(from.responses[status], to.responses[status], Path(op, status))
    BY <2>2 DEF DiffResponse
  <2> QED
    BY <2>1, <2>2, <2>3 DEF Quiet
<1>3. ASSUME NoSchema \notin {from.request, to.request} PROVE Quiet(Request)
  <2>1. Request \subseteq DiffOperation(op, from, to)
    <3> HIDE DEF Security, Responses, Request
    <3> QED
      BY <1>1, <1>3
  <2> QED
    BY <2>1 DEF Quiet
<1> QED
  BY <1>2, <1>3

\* A change of which the verdict is "no-op" or "additive" leaves the consumers served: what
\* they read is there and is read, what they send is accepted, on all levels that are
\* compared and for all contracts that can be.
THEOREM QuietChangesServe ==
  ASSUME NEW from, NEW to, ComparableContracts(from, to),
         Verdict(DiffContracts(from, to)) \in {"no-op", "additive"}
  PROVE  Serves(from, to)
<1>1. ASSUME NEW op \in DOMAIN from PROVE op \in DOMAIN to /\ Quiet(DiffOperation(op, from[op], to[op]))
  BY QuietVerdict, QuietContracts
<1>2. ASSUME NEW op \in DOMAIN from, NEW status \in DOMAIN from[op].responses
      PROVE  /\ status \in DOMAIN to[op].responses
             /\ LET old == from[op].responses[status]
                    new == to[op].responses[status]
                IN  NotObject \notin {old, new} => \A d \in Documents(new, TRUE) : Reads(old, d)
  <2> DEFINE old == from[op].responses[status]
             new == to[op].responses[status]
  <2>1. status \in DOMAIN to[op].responses /\ Quiet(DiffSchema(old, new, Path(op, status)))
    BY <1>1, QuietOperations
  <2>2. NotObject \notin {old, new} => Comparable(old, new)
    BY <1>1, <2>1 DEF ComparableContracts
  <2>3. ASSUME NotObject \notin {old, new}, NEW d \in Documents(new, TRUE) PROVE Reads(old, d)
    BY <2>1, <2>2, <2>3, SchemaServes
  <2> QED
    BY <2>1, <2>3
<1>3. ASSUME NEW op \in DOMAIN from, NoSchema \notin {from[op].request, to[op].request},
             NEW d \in Documents(from[op].request, FALSE)
      PROVE  Reads(to[op].request, d)
  <2>1. Quiet(DiffSchema(from[op].request, to[op].request, Path(op, "request")))
    BY <1>1, <1>3, QuietOperations
  <2>2. Comparable(to[op].request, from[op].request)
    BY <1>1, <1>3 DEF ComparableContracts
  <2> QED
    BY <1>3, <2>1, <2>2, SchemaServes
<1> QED
  BY <1>1, <1>2, <1>3 DEF Serves

\* In particular the contracts that were published or compiled from one another.
THEOREM QuietSuccessionsServe == SuccessionsComparable => QuietVerdictsAreSafe
  BY QuietChangesServe DEF SuccessionsComparable, QuietVerdictsAreSafe

\* Shapes between which nothing is found that concerns a consumer.
LEMMA UnconcernedShape ==
  ASSUME NEW from, NEW to, NEW path,
         \A f \in ShapeFindings(from, to, path) :
           f.rule # "enum-value-added" /\ SemanticRule(f.rule) = "none"
  PROVE  /\ from.type = to.type /\ from.format = to.format /\ from.nullable = to.nullable
         /\ Enums(to) \subseteq Enums(from)
<1>1. /\ SemanticRule(Breaking("type-changed", path).rule) # "none"
      /\ SemanticRule(Breaking("format-changed", path).rule) # "none"
      /\ SemanticRule(Breaking("nullability-changed", path).rule) # "none"
      /\ SemanticRule(Risky(Additive("nullability-changed", path)).rule) # "none"
      /\ Risky(Additive("enum-value-added", path)).rule = "enum-value-added"
  BY DEF Breaking, Risky, Additive, Finding, SemanticRule
<1>2. /\ from.type # to.type => Breaking("type-changed", path) \in ShapeFindings(from, to, path)
      /\ from.format # to.format => Breaking("format-changed", path) \in ShapeFindings(from, to, path)
      /\ from.nullable # to.nullable =>
           \/ Breaking("nullability-changed", path) \in ShapeFindings(from, to, path)
           \/ Risky(Additive("nullability-changed", path)) \in ShapeFindings(from, to, path)
      /\ ~(Enums(to) \subseteq Enums(from)) =>
           Risky(Additive("enum-value-added", path)) \in ShapeFindings(from, to, path)
  BY DEF ShapeFindings, If
<1> QED
  BY <1>1, <1>2

\* A finding about a field a consumer uses, by a name without a dot, concerns the consumer.
LEMMA UsedFieldConcerns ==
  ASSUME NEW findings, NEW terms, NEW op, NEW status, NEW n \in terms.fields,
         LastPart(n) = n, <<terms.op, op>> \in Covers,
         AnalyzeConsumer(findings, terms).impact = "none",
         NEW f \in findings, f.path = In(Path(op, status), n)
  PROVE  f.rule # "enum-value-added" /\ SemanticRule(f.rule) = "none"
<1>1. f.path.op = op /\ FieldOf(f.path) = n
  <2>1. f.path.names = <<n>> /\ f.path.op = op /\ <<n>> # <<>> /\ Len(<<n>>) = 1
    BY DEF In, Path
  <2>2. FieldOf(f.path) = LastPart(f.path.names[Len(f.path.names)])
    BY <2>1 DEF FieldOf
  <2>3. f.path.names[Len(f.path.names)] = n
    BY <2>1
  <2> QED
    BY <2>1, <2>2, <2>3
<1>2. Covered(findings, terms)
  BY <1>1 DEF Covered
<1>3. ImpactLevel(findings, terms, AssessConsumer(findings, terms)) = "none"
  BY DEF AnalyzeConsumer
<1>4. AssessConsumer(findings, terms) = {}
  BY <1>2, <1>3 DEF ImpactLevel
<1>5. f \in {g \in findings : FieldOf(g.path) \in terms.fields}
  BY <1>1
<1> QED
  BY <1>4, <1>5 DEF AssessConsumer

\* What the diff of two schemas says of one of their fields.
LEMMA FieldIsDiffed ==
  ASSUME NEW from, NEW to, NEW path, NotObject \notin {from, to}, NEW n \in DOMAIN from.properties
  PROVE  /\ n \notin DOMAIN to.properties =>
              Breaking("field-removed", In(path, n)) \in DiffSchema(from, to, path)
         /\ n \in DOMAIN to.properties /\ NotObject \notin {from.properties[n], to.properties[n]} =>
              ShapeFindings(from.properties[n], to.properties[n], In(path, n)) \subseteq DiffSchema(from, to, path)
<1>1. /\ FieldFindings(from, to, n, In(path, n)) \subseteq DiffSchema(from, to, path)
      /\ n \in DOMAIN to.properties =>
           DiffLevel1(from.properties[n], to.properties[n], In(path, n)) \subseteq DiffSchema(from, to, path)
  BY DEF DiffSchema, DiffLevel
<1>2. n \notin DOMAIN to.properties =>
        Breaking("field-removed", In(path, n)) \in FieldFindings(from, to, n, In(path, n))
  BY DEF FieldFindings, If
<1>3. NotObject \notin {from.properties[n], to.properties[n]} =>
        ShapeFindings(from.properties[n], to.properties[n], In(path, n))
          \subseteq DiffLevel1(from.properties[n], to.properties[n], In(path, n))
  BY DEF DiffLevel1, DiffLevel
<1> QED
  BY <1>1, <1>2, <1>3

\* A schema of a response that both contracts have is compared by the diff.
LEMMA ResponseIsDiffed ==
  ASSUME NEW from, NEW to, NEW op \in DOMAIN from \cap DOMAIN to,
         NEW status \in DOMAIN from[op].responses \cap DOMAIN to[op].responses
  PROVE  DiffSchema(from[op].responses[status], to[op].responses[status], Path(op, status))
           \subseteq DiffContracts(from, to)
<1> DEFINE Of(o) ==
      CASE o \notin DOMAIN to -> {Breaking("operation-removed", Path(o, ""))}
        [] o \notin DOMAIN from -> {Additive("operation-added", Path(o, ""))}
        [] OTHER -> DiffOperation(o, from[o], to[o])
    Security == If(from[op].security # to[op].security, Breaking("security-requirements-changed", Path(op, "")))
    Responses(s) == DiffResponse(op, from[op].responses, to[op].responses, s)
    Request == DiffSchema(from[op].request, to[op].request, Path(op, "request"))
<1>1. Of(op) \subseteq DiffContracts(from, to)
  BY DEF DiffContracts
<1>2. DiffOperation(op, from[op], to[op]) =
        Security \cup (UNION {Responses(s) : s \in DOMAIN from[op].responses \cup DOMAIN to[op].responses})
          \cup (IF NoSchema \in {from[op].request, to[op].request} THEN {} ELSE Request)
  BY DEF DiffOperation
<1>3. Responses(status) \subseteq DiffOperation(op, from[op], to[op])
  <2> HIDE DEF Security, Responses, Request
  <2> QED
    BY <1>2
<1>4. Responses(status) = DiffSchema(from[op].responses[status], to[op].responses[status], Path(op, status))
  BY DEF DiffResponse
<1> QED
  BY <1>1, <1>3, <1>4

\* Of a change that a consumer is not told of, it reads as before the fields it uses whose
\* names have no dot; fieldOfPath matches the others by a part of their name.
THEOREM NoImpactStaysReadable ==
  ASSUME NEW from, NEW to, NEW terms, ComparableContracts(from, to), EnumsStay(from, to),
         AnalyzeConsumer(DiffContracts(from, to), terms).impact = "none"
  PROVE  StaysReadable(from, to, terms)
<1> SUFFICES ASSUME NEW op \in DOMAIN from \cap DOMAIN to, <<terms.op, op>> \in Covers,
                    NEW status \in DOMAIN from[op].responses \cap DOMAIN to[op].responses,
                    NotObject \notin {from[op].responses[status], to[op].responses[status]},
                    NEW n \in terms.fields \cap DOMAIN from[op].responses[status].properties,
                    LastPart(n) = n, DOMAIN from[op].responses[status].properties[n].properties = {}
             PROVE  /\ n \in DOMAIN to[op].responses[status].properties
                    /\ \A d \in Documents(to[op].responses[status].properties[n], TRUE) :
                         Reads(from[op].responses[status].properties[n], d)
  BY DEF StaysReadable
<1> DEFINE old == from[op].responses[status]
           new == to[op].responses[status]
           at == In(Path(op, status), n)
<1>1. ASSUME NEW f \in DiffSchema(old, new, Path(op, status)), f.path = at
      PROVE  f.rule # "enum-value-added" /\ SemanticRule(f.rule) = "none"
  <2> DEFINE D == DiffContracts(from, to)
  <2>1. f \in D /\ AnalyzeConsumer(D, terms).impact = "none"
    BY ResponseIsDiffed
  <2> HIDE DEF D
  <2> QED
    BY <1>1, <2>1, UsedFieldConcerns
<1>2. n \in DOMAIN new.properties
  <2> SUFFICES ASSUME n \notin DOMAIN new.properties PROVE FALSE
    OBVIOUS
  <2>1. Breaking("field-removed", at) \in DiffSchema(old, new, Path(op, status))
    BY FieldIsDiffed
  <2>2. /\ Breaking("field-removed", at).path = at
        /\ SemanticRule(Breaking("field-removed", at).rule) # "none"
    BY DEF Breaking, Finding, SemanticRule
  <2> QED
    BY <1>1, <2>1, <2>2
<1> DEFINE reader == old.properties[n]
           writer == new.properties[n]
<1>3. /\ NotObject \notin {reader, writer} /\ reader.required \subseteq DOMAIN reader.properties
      /\ reader.enum = {} => writer.enum # NoEnum
  <2>1. Comparable(old, new)
    BY DEF ComparableContracts
  <2>2. Comparable1(reader, writer)
    BY <1>2, <2>1 DEF Comparable, ComparableLevel
  <2> QED
    BY <2>2 DEF Comparable1, ComparableLevel
<1>4. writer.enum = NoEnum => reader.enum = NoEnum
  BY <1>2 DEF EnumsStay
<1>5. \A f \in ShapeFindings(reader, writer, at) : f.rule # "enum-value-added" /\ SemanticRule(f.rule) = "none"
  <2>1. ShapeFindings(reader, writer, at) \subseteq DiffSchema(old, new, Path(op, status))
    BY <1>2, <1>3, FieldIsDiffed
  <2>2. \A f \in ShapeFindings(reader, writer, at) : f.path = at
    BY DEF ShapeFindings, If, Breaking, Additive, Risky, Finding
  <2> QED
    BY <1>1, <2>1, <2>2
<1>6. /\ reader.type = writer.type /\ reader.format = writer.format
      /\ reader.nullable = writer.nullable /\ Enums(writer) \subseteq Enums(reader)
  BY <1>5, UnconcernedShape
<1> SUFFICES ASSUME NEW d \in Documents(writer, TRUE) PROVE Reads(reader, d)
  BY <1>2
<1>7. /\ d.type = writer.type /\ d.format = writer.format
      /\ d.value \in (IF writer.enum = NoEnum THEN {Everything} ELSE writer.enum)
                     \cup (IF writer.nullable = "yes" THEN {Null} ELSE {})
  BY DEF Documents, DocumentsLevel
<1>8. \/ d.value = Null /\ reader.nullable = "yes"
      \/ IF reader.enum = NoEnum THEN d.value # Null ELSE d.value \in reader.enum
  BY <1>4, <1>6, <1>7 DEF Enums, Everything, Null
<1> QED
  BY <1>3, <1>6, <1>7, <1>8 DEF Reads, ReadsLevel

\* In particular between the contracts that were published or compiled from one another.
THEOREM NoImpactMeansReadable == SuccessionsComparable => NoneMeansReadable
  BY NoImpactStaysReadable DEF SuccessionsComparable, NoneMeansReadable
-----------------------------------------------------------------------------
(* Induction, and what is not in the changelog: it has not changed.        *)

\* Less than is well-founded.
LEMMA LessIsWellFounded == IsWellFoundedOn({p \in Nat \X Nat : p[1] < p[2]}, Nat)
BY NatLessThanWellFounded DEF OpToRel

\* Induction, for a set: without a least number outside it, it has them all.
LEMMA SetInduction ==
  ASSUME NEW S, 0 \in S, \A n \in Nat : n \in S => n + 1 \in S
  PROVE  Nat \subseteq S
<1> SUFFICES ASSUME Nat \ S # {} PROVE FALSE
  OBVIOUS
<1> DEFINE T == Nat \ S
           R == {p \in Nat \X Nat : p[1] < p[2]}
<1>1. IsWellFoundedOn(R, Nat)
  BY LessIsWellFounded
<1>2. T \subseteq Nat /\ T # {}
  OBVIOUS
<1>3. \E x \in T : \A y \in T : ~(<<y, x>> \in R)
  <2> HIDE DEF T, R
  <2> QED BY <1>1, <1>2, WFMin
<1>4. \A x, y \in Nat : <<y, x>> \in R <=> y < x
  OBVIOUS
<1>5. PICK x \in T : \A y \in T : ~(y < x)
  BY <1>2, <1>3, <1>4
<1>6. x # 0 /\ x - 1 \in Nat /\ x - 1 \in S
  BY <1>5
<1> QED
  BY <1>5, <1>6

\* Nothing is found between a schema and itself, on any level.
LEMMA NothingDiffers == \A schema, path : DiffSchema(schema, schema, path) = {}
<1>1. \A s, path : ShapeFindings(s, s, path) = {}
  BY DEF ShapeFindings, If
<1>2. \A s, path : \A n \in DOMAIN s.properties : FieldFindings(s, s, n, path) = {}
  BY DEF FieldFindings, If
<1>3. \A s, path : DiffLevel3(s, s, path) = {}
  BY <1>1, <1>2 DEF DiffLevel3, DiffLevel, NoLevel
<1>4. \A s, path : DiffLevel2(s, s, path) = {}
  BY <1>1, <1>2, <1>3 DEF DiffLevel2, DiffLevel
<1>5. \A s, path : DiffLevel1(s, s, path) = {}
  BY <1>1, <1>2, <1>4 DEF DiffLevel1, DiffLevel
<1> QED
  BY <1>1, <1>2, <1>5 DEF DiffSchema, DiffLevel

\* A path in a part of an operation.
Within(path, op, part) == \E names : path = [op |-> op, part |-> part, names |-> names]

\* A name leads to a path in the same part.
LEMMA InStaysWithin ==
  ASSUME NEW path, NEW op, NEW part, Within(path, op, part), NEW name
  PROVE  Within(In(path, name), op, part)
<1>1. PICK names : path = [op |-> op, part |-> part, names |-> names]
  BY DEF Within
<1>2. In(path, name) = [op |-> op, part |-> part, names |-> Append(names, name)]
  BY <1>1 DEF In
<1> QED
  BY <1>2 DEF Within

\* Findings of a shape or a field are at the path they are looked for.
LEMMA ShapeIsWithin ==
  ASSUME NEW from, NEW to, NEW path, NEW f \in ShapeFindings(from, to, path)
  PROVE  f.path = path
BY DEF ShapeFindings, If, Breaking, Additive, Risky, Finding

LEMMA FieldIsWithin ==
  ASSUME NEW from, NEW to, NEW name, NEW path, NEW f \in FieldFindings(from, to, name, path)
  PROVE  f.path = path
BY DEF FieldFindings, If, Breaking, Additive, Finding

\* Findings of a schema stay in its part, one level after the other.
LEMMA Level3IsWithin ==
  ASSUME NEW op, NEW part, NEW from, NEW to, NEW path, Within(path, op, part),
         NEW f \in DiffLevel3(from, to, path)
  PROVE  Within(f.path, op, part)
<1>1. NotObject \notin {from, to}
  BY DEF DiffLevel3, DiffLevel
<1>2. \/ f \in ShapeFindings(from, to, path)
      \/ \E n \in DOMAIN from.properties \cup DOMAIN to.properties :
           f \in FieldFindings(from, to, n, In(path, n))
  BY <1>1 DEF DiffLevel3, DiffLevel, NoLevel
<1> QED
  BY <1>2, ShapeIsWithin, FieldIsWithin, InStaysWithin

LEMMA Level2IsWithin ==
  ASSUME NEW op, NEW part, NEW from, NEW to, NEW path, Within(path, op, part),
         NEW f \in DiffLevel2(from, to, path)
  PROVE  Within(f.path, op, part)
<1>1. NotObject \notin {from, to}
  BY DEF DiffLevel2, DiffLevel
<1>2. \/ f \in ShapeFindings(from, to, path)
      \/ \E n \in DOMAIN from.properties \cup DOMAIN to.properties :
           f \in FieldFindings(from, to, n, In(path, n))
      \/ \E n \in DOMAIN from.properties \cap DOMAIN to.properties :
           f \in DiffLevel3(from.properties[n], to.properties[n], In(path, n))
  BY <1>1 DEF DiffLevel2, DiffLevel
<1> QED
  BY <1>2, ShapeIsWithin, FieldIsWithin, InStaysWithin, Level3IsWithin

LEMMA Level1IsWithin ==
  ASSUME NEW op, NEW part, NEW from, NEW to, NEW path, Within(path, op, part),
         NEW f \in DiffLevel1(from, to, path)
  PROVE  Within(f.path, op, part)
<1>1. NotObject \notin {from, to}
  BY DEF DiffLevel1, DiffLevel
<1>2. \/ f \in ShapeFindings(from, to, path)
      \/ \E n \in DOMAIN from.properties \cup DOMAIN to.properties :
           f \in FieldFindings(from, to, n, In(path, n))
      \/ \E n \in DOMAIN from.properties \cap DOMAIN to.properties :
           f \in DiffLevel2(from.properties[n], to.properties[n], In(path, n))
  BY <1>1 DEF DiffLevel1, DiffLevel
<1> QED
  BY <1>2, ShapeIsWithin, FieldIsWithin, InStaysWithin, Level2IsWithin

LEMMA SchemaIsWithin ==
  ASSUME NEW op, NEW part, NEW from, NEW to, NEW path, Within(path, op, part),
         NEW f \in DiffSchema(from, to, path)
  PROVE  Within(f.path, op, part)
<1>1. NotObject \notin {from, to}
  BY DEF DiffSchema, DiffLevel
<1>2. \/ f \in ShapeFindings(from, to, path)
      \/ \E n \in DOMAIN from.properties \cup DOMAIN to.properties :
           f \in FieldFindings(from, to, n, In(path, n))
      \/ \E n \in DOMAIN from.properties \cap DOMAIN to.properties :
           f \in DiffLevel1(from.properties[n], to.properties[n], In(path, n))
  BY <1>1 DEF DiffSchema, DiffLevel
<1> QED
  BY <1>2, ShapeIsWithin, FieldIsWithin, InStaysWithin, Level1IsWithin

\* What a finding of the diff of a part says about the part: it is there, and different.
LEMMA PartDiffers ==
  ASSUME NEW op, NEW part, NEW from, NEW to, NEW f \in DiffSchema(from, to, Path(op, part))
  PROVE  f.path.op = op /\ f.path.part = part /\ from # to
<1>1. Within(Path(op, part), op, part)
  BY DEF Within, Path
<1>2. Within(f.path, op, part)
  BY <1>1, SchemaIsWithin
<1> QED
  BY <1>2, NothingDiffers DEF Within
-----------------------------------------------------------------------------
\* A change leaves the other parts of its operation alone,
LEMMA OtherPartsStay ==
  ASSUME NEW operation, NEW c, {"security", "request", "responses"} \subseteq DOMAIN operation
  PROVE  LET new == ChangedOperation(operation, c)
         IN  /\ {"security", "request", "responses"} \subseteq DOMAIN new
             /\ new.security = operation.security
             /\ c.part # "request" => new.request = operation.request
             /\ \A status : status # c.part =>
                  /\ status \in DOMAIN new.responses <=> status \in DOMAIN operation.responses
                  /\ status \in DOMAIN operation.responses =>
                       new.responses[status] = operation.responses[status]
<1> DEFINE new == ChangedOperation(operation, c)
           old == operation.responses
           Good(n) == /\ {"security", "request", "responses"} \subseteq DOMAIN n
                      /\ n.security = operation.security
                      /\ c.part # "request" => n.request = operation.request
                      /\ \A status : status # c.part =>
                           /\ status \in DOMAIN n.responses <=> status \in DOMAIN old
                           /\ status \in DOMAIN old => n.responses[status] = old[status]
<1>1. CASE c.kind = "add-response-status"
  <2> DEFINE r == WithResponse(old, c.part, c.schema)
  <2>1. new = [operation EXCEPT !.responses = r]
    BY <1>1 DEF ChangedOperation
  <2>2. \A status : status # c.part =>
          /\ status \in DOMAIN r <=> status \in DOMAIN old
          /\ status \in DOMAIN old => r[status] = old[status]
    BY DEF WithResponse
  <2> HIDE DEF r
  <2> QED
    BY <2>1, <2>2
<1>2. CASE c.kind = "remove-response-status"
  <2> DEFINE r == WithoutResponse(old, c.part)
  <2>1. new = [operation EXCEPT !.responses = r]
    BY <1>2 DEF ChangedOperation
  <2>2. \A status : status # c.part =>
          /\ status \in DOMAIN r <=> status \in DOMAIN old
          /\ status \in DOMAIN old => r[status] = old[status]
    BY DEF WithoutResponse
  <2> HIDE DEF r
  <2> QED
    BY <2>1, <2>2
<1>3. CASE c.kind \notin {"add-response-status", "remove-response-status"} /\ c.part = "request"
  <2>1. new = [operation EXCEPT !.request = ChangedSchema(@, c)]
    BY <1>3 DEF ChangedOperation
  <2> QED
    BY <1>3, <2>1
<1>4. CASE c.kind \notin {"add-response-status", "remove-response-status"} /\ c.part # "request"
  <2> DEFINE r == [old EXCEPT ![c.part] = ChangedSchema(@, c)]
  <2>1. new = [operation EXCEPT !.responses = r]
    BY <1>4 DEF ChangedOperation
  <2>2. \A status : status # c.part =>
          /\ status \in DOMAIN r <=> status \in DOMAIN old
          /\ status \in DOMAIN old => r[status] = old[status]
    OBVIOUS
  <2> HIDE DEF r
  <2> QED
    BY <2>1, <2>2
<1> QED
  BY <1>1, <1>2, <1>3, <1>4

\* and has an entry for its part unless it leaves that alone too.
LEMMA ChangeIsLogged ==
  ASSUME NEW operation, NEW c
  PROVE  \/ ChangedOperation(operation, c) = operation
         \/ \E e \in ChangelogEntry(operation, c) : e.op = c.op /\ e.part = c.part
<1> SUFFICES ASSUME ChangedOperation(operation, c) # operation
             PROVE  \E e \in ChangelogEntry(operation, c) : e.op = c.op /\ e.part = c.part
  OBVIOUS
<1> DEFINE logged == CASE c.kind \in {"add-enum-value", "remove-enum-value", "mark-required"} ->
                            ChangedOperation(operation, c) # operation
                       [] OTHER -> TRUE
           kind == CASE c.kind \in {"add-enum-value", "add-optional-field", "add-response-status"} -> "added"
                     [] c.kind = "mark-required" -> "changed"
                     [] OTHER -> "removed"
           entry == [kind |-> kind, op |-> c.op, part |-> c.part, decision |-> c.decision]
<1>1. logged
  OBVIOUS
<1>2. ChangelogEntry(operation, c) = If(logged, entry)
  BY DEF ChangelogEntry
<1> HIDE DEF logged, kind
<1>3. ChangelogEntry(operation, c) = {entry}
  BY <1>1, <1>2 DEF If
<1> QED
  BY <1>3

\* so the operation it changes is logged when it was logged before,
LEMMA OperationStaysLogged ==
  ASSUME NEW old, NEW operation, NEW c, NEW changelog,
         {"security", "request", "responses"} \subseteq DOMAIN operation,
         OperationLogged(old, operation, changelog, c.op)
  PROVE  OperationLogged(old, ChangedOperation(operation, c),
                         changelog \cup ChangelogEntry(operation, c), c.op)
<1> DEFINE new == ChangedOperation(operation, c)
           log == changelog \cup ChangelogEntry(operation, c)
<1> SUFFICES OperationLogged(old, new, log, c.op)
  OBVIOUS
<1> HIDE DEF new, log
<1>1. \A part : Logged(changelog, c.op, part) => Logged(log, c.op, part)
  BY DEF Logged, log
<1>2. CASE new = operation
  BY <1>1, <1>2 DEF OperationLogged
<1>3. CASE Logged(log, c.op, c.part)
  <2>1. /\ new.security = operation.security
        /\ c.part # "request" => new.request = operation.request
        /\ \A status : status # c.part =>
             /\ status \in DOMAIN new.responses <=> status \in DOMAIN operation.responses
             /\ status \in DOMAIN operation.responses =>
                  new.responses[status] = operation.responses[status]
    BY OtherPartsStay DEF new
  <2>2. old.security = new.security
    BY <2>1 DEF OperationLogged
  <2>3. Logged(log, c.op, "request") \/ old.request = new.request
    BY <1>1, <1>3, <2>1 DEF OperationLogged
  <2>4. ASSUME NEW status \in DOMAIN old.responses \cup DOMAIN new.responses
        PROVE  \/ Logged(log, c.op, status)
               \/ /\ status \in DOMAIN old.responses \cap DOMAIN new.responses
                  /\ old.responses[status] = new.responses[status]
    <3>1. CASE status = c.part
      BY <1>3, <3>1
    <3>2. CASE status # c.part
      BY <1>1, <2>1, <3>2 DEF OperationLogged
    <3> QED
      BY <3>1, <3>2
  <2> QED
    BY <2>2, <2>3, <2>4 DEF OperationLogged
<1>4. new = operation \/ Logged(log, c.op, c.part)
  BY ChangeIsLogged DEF Logged, new, log
<1> QED
  BY <1>2, <1>3, <1>4

\* A compilation that went well so far has logged what it changed.
WellLogged(base, step) ==
  /\ "ok" \in DOMAIN step
  /\ step.ok => /\ OperationsWhole(step.contract)
                /\ LoggedOnly(base, step.contract, step.changelog)

LEMMA ApplyIsLogged ==
  ASSUME NEW base, NEW step, NEW c, WellLogged(base, step)
  PROVE  WellLogged(base, Apply(step, c))
<1>1. CASE ~step.ok \/ ~Resolves(step.contract, c)
  <2>1. Apply(step, c) = [step EXCEPT !.ok = FALSE]
    BY <1>1 DEF Apply
  <2> QED
    BY <2>1 DEF WellLogged
<1>2. CASE step.ok /\ Resolves(step.contract, c)
  <2> DEFINE operation == step.contract[c.op]
             new == ChangedOperation(operation, c)
             log == step.changelog \cup ChangelogEntry(operation, c)
             made == [step.contract EXCEPT ![c.op] = new]
  <2>1. Apply(step, c) = [ok |-> TRUE, contract |-> made, changelog |-> log]
    BY <1>2 DEF Apply
  <2>2. /\ c.op \in DOMAIN step.contract
        /\ OperationsWhole(step.contract)
        /\ LoggedOnly(base, step.contract, step.changelog)
    BY <1>2 DEF Resolves, WellLogged
  <2>3. {"security", "request", "responses"} \subseteq DOMAIN operation
    BY <2>2 DEF OperationsWhole
  <2>4. {"security", "request", "responses"} \subseteq DOMAIN new
    BY <2>3, OtherPartsStay
  <2>5. OperationLogged(base[c.op], operation, step.changelog, c.op)
    BY <2>2 DEF LoggedOnly
  <2>6. OperationLogged(base[c.op], new, log, c.op)
    BY <2>3, <2>5, OperationStaysLogged
  <2>7. \A op, part : Logged(step.changelog, op, part) => Logged(log, op, part)
    BY DEF Logged
  <2> HIDE DEF log, new, operation
  <2>8. OperationsWhole(made)
    BY <2>2, <2>4 DEF OperationsWhole
  <2>9. ASSUME NEW op \in DOMAIN base
        PROVE  OperationLogged(base[op], made[op], log, op)
    <3>1. CASE op = c.op
      BY <2>2, <2>6, <3>1
    <3>2. CASE op # c.op
      <4>1. made[op] = step.contract[op]
        BY <2>2, <3>2 DEF LoggedOnly
      <4>2. OperationLogged(base[op], step.contract[op], step.changelog, op)
        BY <2>2 DEF LoggedOnly
      <4> QED
        BY <2>7, <4>1, <4>2 DEF OperationLogged
    <3> QED
      BY <3>1, <3>2
  <2>10. LoggedOnly(base, made, log)
    BY <2>2, <2>9 DEF LoggedOnly
  <2> QED
    BY <2>1, <2>8, <2>10 DEF WellLogged
<1> QED
  BY <1>1, <1>2

Unchanged(contract) == [ok |-> TRUE, contract |-> contract, changelog |-> {}]

\* f holds what the first k changes make of a contract, one after the other.
Steps(contract, changes, f, k) ==
  f = [n \in 0 .. k |-> IF n = 0 THEN Unchanged(contract) ELSE Apply(f[n - 1], changes[n])]

\* Such steps exist for any number of changes,
LEMMA StepsExist ==
  ASSUME NEW contract, NEW changes
  PROVE  \A k \in Nat : \E f : Steps(contract, changes, f, k)
<1> DEFINE S == {k \in Nat : \E f : Steps(contract, changes, f, k)}
<1>1. 0 \in S
  <2> DEFINE f == [n \in 0 .. 0 |-> Unchanged(contract)]
  <2>1. f = [n \in 0 .. 0 |-> IF n = 0 THEN Unchanged(contract) ELSE Apply(f[n - 1], changes[n])]
    OBVIOUS
  <2> QED
    BY <2>1 DEF Steps
<1>2. ASSUME NEW k \in Nat, k \in S PROVE k + 1 \in S
  <2>1. PICK f : Steps(contract, changes, f, k)
    BY <1>2
  <2> DEFINE Next1(h, n) == IF n = 0 THEN Unchanged(contract) ELSE Apply(h[n - 1], changes[n])
             g == [n \in 0 .. k + 1 |-> IF n <= k THEN f[n] ELSE Apply(f[k], changes[n])]
  <2>2. \A n \in 0 .. k : f[n] = Next1(f, n)
    <3>1. f = [n \in 0 .. k |-> Next1(f, n)]
      BY <2>1 DEF Steps
    <3> HIDE DEF Next1
    <3> QED
      BY <3>1
  <2>3. (\A n \in 0 .. k : g[n] = f[n]) /\ g[k + 1] = Apply(f[k], changes[k + 1])
    OBVIOUS
  <2>4. \A n \in 0 .. k + 1 : n # 0 => n - 1 \in 0 .. k /\ g[n - 1] = f[n - 1]
    BY <2>3
  <2>5. g = [n \in 0 .. k + 1 |-> g[n]]
    OBVIOUS
  <2> HIDE DEF g
  <2>6. ASSUME NEW n \in 0 .. k + 1 PROVE g[n] = Next1(g, n)
    <3>1. CASE n = k + 1
      BY <2>3, <2>4, <3>1
    <3>2. CASE n # k + 1
      BY <2>2, <2>3, <2>4, <3>2
    <3> QED
      BY <3>1, <3>2
  <2>7. g = [n \in 0 .. k + 1 |-> Next1(g, n)]
    <3> HIDE DEF Next1
    <3> QED
      BY <2>5, <2>6
  <2> QED
    BY <2>7 DEF Steps
<1>3. Nat \subseteq S
  <2> HIDE DEF S
  <2> QED
    BY <1>1, <1>2, SetInduction
<1> QED
  BY <1>3

\* and what they arrive at has logged what it changed.
LEMMA ApplyAllIsLogged ==
  ASSUME NEW contract, OperationsWhole(contract), NEW changes, changes \in Seq(Range(changes))
  PROVE  WellLogged(contract, ApplyAll(contract, changes))
<1> DEFINE k == Len(changes)
           h == CHOOSE f : Steps(contract, changes, f, k)
           Next1(n) == IF n = 0 THEN Unchanged(contract) ELSE Apply(h[n - 1], changes[n])
           S == {n \in Nat : n <= k => WellLogged(contract, h[n])}
<1>1. k \in Nat
  OBVIOUS
<1>2. Steps(contract, changes, h, k)
  BY <1>1, StepsExist
<1>3. ApplyAll(contract, changes) = h[k]
  BY DEF ApplyAll, Steps, Unchanged
<1> HIDE DEF h, k
<1>4. h = [n \in 0 .. k |-> Next1(n)]
  BY <1>2 DEF Steps
<1>5. \A n \in 0 .. k : h[n] = Next1(n)
  <2> HIDE DEF Next1
  <2> QED
    BY <1>4
<1>6. 0 \in S
  <2>1. h[0] = Unchanged(contract)
    BY <1>1, <1>5
  <2>2. WellLogged(contract, Unchanged(contract))
    BY DEF WellLogged, Unchanged, LoggedOnly, OperationLogged
  <2> QED
    BY <2>1, <2>2
<1>7. ASSUME NEW n \in Nat, n \in S PROVE n + 1 \in S
  <2>1. CASE n + 1 <= k
    <3>1. h[n + 1] = Apply(h[n], changes[n + 1])
      BY <1>1, <1>5, <2>1
    <3>2. WellLogged(contract, h[n])
      BY <1>1, <1>7, <2>1
    <3> QED
      BY <3>1, <3>2, ApplyIsLogged
  <2>2. CASE ~(n + 1 <= k)
    BY <2>2
  <2> QED
    BY <2>1, <2>2
<1>8. Nat \subseteq S
  <2> HIDE DEF S
  <2> QED
    BY <1>6, <1>7, SetInduction
<1> QED
  BY <1>1, <1>3, <1>8
-----------------------------------------------------------------------------
\* Wherever no more has changed than is logged, the diff finds nothing else.
LEMMA DiffIsLogged ==
  ASSUME NEW base, NEW contract, NEW changelog, LoggedOnly(base, contract, changelog),
         NEW f \in DiffContracts(base, contract)
  PROVE  Logged(changelog, f.path.op, f.path.part)
<1>1. PICK op \in DOMAIN base : f \in DiffOperation(op, base[op], contract[op])
  BY DEF DiffContracts, LoggedOnly
<1> DEFINE old == base[op]
           new == contract[op]
<1>2. OperationLogged(old, new, changelog, op)
  BY <1>1 DEF LoggedOnly
<1> HIDE DEF old, new
<1>3. \/ \E status \in DOMAIN old.responses \cup DOMAIN new.responses :
           f \in DiffResponse(op, old.responses, new.responses, status)
      \/ f \in DiffSchema(old.request, new.request, Path(op, "request"))
  BY <1>1, <1>2 DEF DiffOperation, If, OperationLogged, old, new
<1>4. CASE f \in DiffSchema(old.request, new.request, Path(op, "request"))
  BY <1>2, <1>4, PartDiffers DEF OperationLogged
<1>5. ASSUME NEW status \in DOMAIN old.responses \cup DOMAIN new.responses,
             f \in DiffResponse(op, old.responses, new.responses, status)
      PROVE  Logged(changelog, f.path.op, f.path.part)
  <2>1. f.path.op = op /\ f.path.part = status
    <3>1. CASE status \notin DOMAIN new.responses
      BY <1>5, <3>1 DEF DiffResponse, Breaking, Finding, Path
    <3>2. CASE status \in DOMAIN new.responses /\ status \notin DOMAIN old.responses
      BY <1>5, <3>2 DEF DiffResponse, Additive, Finding, Path
    <3>3. CASE status \in DOMAIN old.responses \cap DOMAIN new.responses
      <4>1. f \in DiffSchema(old.responses[status], new.responses[status], Path(op, status))
        BY <1>5, <3>3 DEF DiffResponse
      <4> QED
        BY <4>1, PartDiffers
    <3> QED
      BY <1>5, <3>1, <3>2, <3>3
  <2>2. CASE Logged(changelog, op, status)
    BY <2>1, <2>2
  <2>3. CASE /\ status \in DOMAIN old.responses \cap DOMAIN new.responses
             /\ old.responses[status] = new.responses[status]
    <3>1. f \in DiffSchema(old.responses[status], new.responses[status], Path(op, status))
      BY <1>5, <2>3 DEF DiffResponse
    <3> QED
      BY <2>3, <3>1, PartDiffers
  <2> QED
    BY <1>2, <2>2, <2>3 DEF OperationLogged
<1> QED
  BY <1>3, <1>4, <1>5

\* The compiler starts
LEMMA CompilerStarts == CompilerInit => CompilerIInv
BY CompilerAssumption DEF CompilerInit, CompilerIInv, Range

\* and goes on with whole contracts, and with an artifact that has logged its changes;
\* what it knows of the consumers' impacts does not matter.
LEMMA CompilerGoesOn ==
  ASSUME CompilerIInv, NEW analyses, CompilerNext(analyses) \/ UNCHANGED compilerVars
  PROVE  CompilerIInv'
<1>0. /\ published \in Seq(Range(published)) /\ published # <<>>
      /\ artifact = <<>> \/ artifact = <<artifact[1]>>
      /\ \A i \in DOMAIN published : OperationsWhole(published[i])
      /\ \A i \in DOMAIN artifact :
           /\ OperationsWhole(artifact[i].contract)
           /\ LoggedOnly(artifact[i].base, artifact[i].contract, artifact[i].changelog)
  BY DEF CompilerIInv
<1>1. ASSUME NEW contract, OperationsWhole(contract), published' = Append(published, contract)
      PROVE  /\ published' \in Seq(Range(published')) /\ published' # <<>>
             /\ \A i \in DOMAIN published' : OperationsWhole(published'[i])
  <2>1. /\ published' \in Seq(Range(published) \cup {contract})
        /\ Len(published') = Len(published) + 1
        /\ \A i \in 1 .. Len(published) : published'[i] = published[i]
        /\ published'[Len(published) + 1] = contract
    BY <1>0, <1>1
  <2>2. DOMAIN published' = 1 .. Len(published) + 1 /\ DOMAIN published = 1 .. Len(published)
    BY <1>0, <2>1
  <2>3. published' \in Seq(Range(published'))
    BY <2>1, <2>2 DEF Range
  <2>4. \A i \in DOMAIN published' : OperationsWhole(published'[i])
    BY <1>0, <1>1, <2>1, <2>2
  <2> QED
    BY <1>0, <2>1, <2>3, <2>4
<1>2. ASSUME NEW input \in Inputs, Compile(input, analyses) PROVE CompilerIInv'
  <2> DEFINE step == ApplyAll(Contract, input.changes)
             made == [base      |-> Contract,
                      contract  |-> step.contract,
                      changelog |-> step.changelog,
                      guides    |-> [k \in DOMAIN analyses |-> MigrationGuide(analyses[k])],
                      drafts    |-> ProviderDrafts(input.changes) \cup
                                      UNION {ConsumerDrafts(analyses[k]) : k \in DOMAIN analyses}]
  <2>1. step.ok /\ artifact' = <<made>> /\ published' = published
    BY <1>2 DEF Compile
  <2>2. OperationsWhole(Contract)
    BY <1>0 DEF Contract
  <2>3. input.changes \in Seq(Range(input.changes))
    BY CompilerAssumption
  <2>4. WellLogged(Contract, step)
    BY <2>2, <2>3, ApplyAllIsLogged
  <2>5. /\ OperationsWhole(made.contract)
        /\ LoggedOnly(made.base, made.contract, made.changelog)
    <3> HIDE DEF step
    <3> QED
      BY <2>1, <2>4 DEF WellLogged
  <2> HIDE DEF made
  <2> QED
    BY <1>0, <2>1, <2>5 DEF CompilerIInv
<1>3. CASE PublishArtifact
  <2>1. artifact # <<>> /\ published' = Append(published, artifact[1].contract) /\ artifact' = <<>>
    BY <1>3 DEF PublishArtifact
  <2>2. OperationsWhole(artifact[1].contract)
    BY <1>0, <2>1
  <2> QED
    BY <1>1, <2>1, <2>2 DEF CompilerIInv
<1>4. ASSUME NEW contract \in Imports, PublishImported(contract) PROVE CompilerIInv'
  <2>1. published' = Append(published, contract) /\ artifact' = artifact
    BY <1>4 DEF PublishImported
  <2>2. OperationsWhole(contract)
    BY CompilerAssumption
  <2> QED
    BY <1>0, <1>1, <2>1, <2>2 DEF CompilerIInv
<1>5. CASE UNCHANGED compilerVars
  BY <1>5 DEF compilerVars, CompilerIInv
<1> QED
  BY <1>2, <1>3, <1>4, <1>5 DEF CompilerNext

\* so nothing the diff finds in the artifact is missing from its changelog.
LEMMA CompilerLogsChanges == CompilerIInv => NoSilentChange
BY DiffIsLogged DEF CompilerIInv, NoSilentChange, Logged
-----------------------------------------------------------------------------
(* What is published or compiled stays comparable, given inputs that fit.   *)

\* A schema that stops being an object is not mistaken for one.
NotObjectIsNone == ~({"enum", "required", "properties"} \subseteq DOMAIN NotObject)

\* What a change to a schema needs in order to resolve.
SchemaResolves(schema, c) ==
  CASE c.kind \in {"add-enum-value", "remove-enum-value"} -> EnumResolves(schema, c.field)
    [] c.kind \in {"remove-field", "mark-required"} -> c.field \in DOMAIN schema.properties
    [] OTHER -> c.kind = "add-optional-field"

\* The five kinds, and what they leave of a schema.
LEMMA ChangedParts ==
  ASSUME NEW schema, NEW c, {"enum", "required", "properties"} \subseteq DOMAIN schema,
         NoField \notin DOMAIN schema.properties, SchemaResolves(schema, c)
  PROVE  LET new == ChangedSchema(schema, c)
             old == EnumAt(schema, c.field)
             values == IF c.kind = "add-enum-value" THEN old \cup {c.value} ELSE old \ {c.value}
         IN  /\ {"enum", "required", "properties"} \subseteq DOMAIN new
             /\ \/ /\ c.kind \in {"add-enum-value", "remove-enum-value"} /\ c.field = NoField
                   /\ schema.enum # NoEnum /\ new.enum = values
                   /\ new.required = schema.required /\ new.properties = schema.properties
                \/ /\ c.kind \in {"add-enum-value", "remove-enum-value"} /\ c.field # NoField
                   /\ c.field \in DOMAIN schema.properties
                   /\ schema.properties[c.field].enum # NoEnum
                   /\ new.enum = schema.enum /\ new.required = schema.required
                   /\ new.properties = [schema.properties EXCEPT ![c.field].enum = values]
                \/ /\ c.kind = "add-optional-field"
                   /\ new.enum = schema.enum /\ new.required = schema.required
                   /\ new.properties = [n \in DOMAIN schema.properties \cup {c.field} |->
                                          IF n = c.field THEN c.schema ELSE schema.properties[n]]
                \/ /\ c.kind = "remove-field"
                   /\ new.enum = schema.enum /\ new.required = schema.required \ {c.field}
                   /\ new.properties = [n \in DOMAIN schema.properties \ {c.field} |->
                                          schema.properties[n]]
                \/ /\ c.kind = "mark-required" /\ c.field \in DOMAIN schema.properties
                   /\ new.enum = schema.enum /\ new.required = schema.required \cup {c.field}
                   /\ new.properties = schema.properties
<1>1. CASE c.kind = "add-enum-value"
  BY <1>1 DEF SchemaResolves, EnumResolves, ChangedSchema, WithEnum, EnumAt
<1>2. CASE c.kind = "remove-enum-value"
  BY <1>2 DEF SchemaResolves, EnumResolves, ChangedSchema, WithEnum, EnumAt
<1>3. CASE c.kind = "add-optional-field"
  BY <1>3 DEF ChangedSchema
<1>4. CASE c.kind = "remove-field"
  BY <1>4 DEF ChangedSchema, WithoutField
<1>5. CASE c.kind = "mark-required"
  BY <1>5 DEF SchemaResolves, ChangedSchema
<1> QED
  BY <1>1, <1>2, <1>3, <1>4, <1>5 DEF SchemaResolves

\* A field whose enum changes is a schema as before.
LEMMA FieldStaysWhole ==
  ASSUME NotObjectIsNone, NEW field, Whole1(field), NEW values
  PROVE  Whole1([field EXCEPT !.enum = values])
<1>1. {"enum", "required", "properties"} \subseteq DOMAIN [field EXCEPT !.enum = values]
  BY DEF Whole1, WholeLevel
<1> QED
  BY <1>1 DEF NotObjectIsNone, Whole1, WholeLevel

\* Whatever a change does to a schema, it stays one.
LEMMA ChangedIsWhole ==
  ASSUME NotObjectIsNone, NEW schema, Whole(schema), NEW c, SchemaResolves(schema, c),
         c.kind = "add-optional-field" => c.field # NoField /\ Whole1(c.schema)
  PROVE  Whole(ChangedSchema(schema, c))
<1> DEFINE new == ChangedSchema(schema, c)
<1>1. /\ {"enum", "required", "properties"} \subseteq DOMAIN schema
      /\ NoField \notin DOMAIN schema.properties
      /\ schema.required \subseteq DOMAIN schema.properties
      /\ \A n \in DOMAIN schema.properties : Whole1(schema.properties[n])
  BY DEF Whole, WholeLevel
<1> DEFINE old == EnumAt(schema, c.field)
           values == IF c.kind = "add-enum-value" THEN old \cup {c.value} ELSE old \ {c.value}
<1>2. /\ {"enum", "required", "properties"} \subseteq DOMAIN new
      /\ \/ new.required = schema.required /\ new.properties = schema.properties
         \/ /\ c.field \in DOMAIN schema.properties /\ new.required = schema.required
            /\ new.properties = [schema.properties EXCEPT ![c.field].enum = values]
         \/ /\ c.kind = "add-optional-field" /\ new.required = schema.required
            /\ new.properties = [n \in DOMAIN schema.properties \cup {c.field} |->
                                   IF n = c.field THEN c.schema ELSE schema.properties[n]]
         \/ /\ new.required = schema.required \ {c.field}
            /\ new.properties = [n \in DOMAIN schema.properties \ {c.field} |-> schema.properties[n]]
         \/ /\ c.field \in DOMAIN schema.properties
            /\ new.required = schema.required \cup {c.field} /\ new.properties = schema.properties
  BY <1>1, ChangedParts
<1>3. \A n \in DOMAIN schema.properties : Whole1([schema.properties[n] EXCEPT !.enum = values])
  BY <1>1, FieldStaysWhole
<1> HIDE DEF new, values
<1>4. new # NotObject
  BY <1>2 DEF NotObjectIsNone
<1>5. /\ new.required \subseteq DOMAIN new.properties /\ NoField \notin DOMAIN new.properties
      /\ \A n \in DOMAIN new.properties : Whole1(new.properties[n])
  BY <1>1, <1>2, <1>3
<1>6. Whole(new)
  BY <1>2, <1>4, <1>5 DEF Whole, WholeLevel
<1> QED
  BY <1>6 DEF new

\* A change that removes none of the values that are kept leaves one in each enum.
LEMMA ChangedKeeps ==
  ASSUME NEW lasting, NEW schema, Whole(schema), Keeps(schema, lasting), NEW c, SchemaResolves(schema, c),
         c.kind = "add-optional-field" => Keeps1(c.schema, lasting),
         c.kind = "remove-enum-value" => c.value \notin lasting
  PROVE  Keeps(ChangedSchema(schema, c), lasting)
<1> DEFINE new == ChangedSchema(schema, c)
           old == EnumAt(schema, c.field)
           values == IF c.kind = "add-enum-value" THEN old \cup {c.value} ELSE old \ {c.value}
<1>1. /\ {"enum", "required", "properties"} \subseteq DOMAIN schema
      /\ NoField \notin DOMAIN schema.properties
      /\ \A n \in DOMAIN schema.properties : "enum" \in DOMAIN schema.properties[n]
  BY DEF Whole, Whole1, WholeLevel
<1>2. /\ schema.enum # NoEnum => schema.enum \cap lasting # {}
      /\ \A n \in DOMAIN schema.properties : Keeps1(schema.properties[n], lasting)
  BY DEF Keeps, KeepsLevel
<1>3. \/ /\ c.kind \in {"add-enum-value", "remove-enum-value"} /\ c.field = NoField
         /\ schema.enum # NoEnum /\ new.enum = values /\ new.properties = schema.properties
      \/ /\ c.kind \in {"add-enum-value", "remove-enum-value"} /\ c.field # NoField
         /\ c.field \in DOMAIN schema.properties /\ schema.properties[c.field].enum # NoEnum
         /\ new.enum = schema.enum
         /\ new.properties = [schema.properties EXCEPT ![c.field].enum = values]
      \/ /\ c.kind = "add-optional-field" /\ new.enum = schema.enum
         /\ new.properties = [n \in DOMAIN schema.properties \cup {c.field} |->
                                IF n = c.field THEN c.schema ELSE schema.properties[n]]
      \/ /\ new.enum = schema.enum
         /\ new.properties = [n \in DOMAIN schema.properties \ {c.field} |-> schema.properties[n]]
      \/ new.enum = schema.enum /\ new.properties = schema.properties
  BY <1>1, ChangedParts
<1>4. c.kind \in {"add-enum-value", "remove-enum-value"} /\ old \cap lasting # {} => values \cap lasting # {}
  OBVIOUS
<1>5. ASSUME NEW n \in DOMAIN schema.properties, values \cap lasting # {}
      PROVE  Keeps1([schema.properties[n] EXCEPT !.enum = values], lasting)
  <2> DEFINE field == schema.properties[n]
             made == [field EXCEPT !.enum = values]
  <2>1. Keeps1(field, lasting) /\ "enum" \in DOMAIN field
    BY <1>1, <1>2
  <2> HIDE DEF field, values
  <2>2. made.enum = values /\ made.properties = field.properties
    BY <2>1
  <2> QED
    BY <1>5, <2>1, <2>2 DEF Keeps1, KeepsLevel, field
<1>6. /\ c.field = NoField => old = schema.enum
      /\ c.field # NoField => old = schema.properties[c.field].enum
  BY DEF EnumAt
<1>7. c.field \in DOMAIN schema.properties /\ schema.properties[c.field].enum # NoEnum =>
        schema.properties[c.field].enum \cap lasting # {}
  BY <1>2 DEF Keeps1, KeepsLevel
<1> HIDE DEF new, values, old
<1>8. /\ new.enum # NoEnum => new.enum \cap lasting # {}
      /\ \A n \in DOMAIN new.properties : Keeps1(new.properties[n], lasting)
  BY <1>2, <1>3, <1>4, <1>5, <1>6, <1>7
<1>9. Keeps(new, lasting)
  BY <1>8 DEF Keeps, KeepsLevel
<1> QED
  BY <1>9 DEF new

\* A field that has an enum keeps one.
LEMMA ChangedIsCoded ==
  ASSUME NEW coded, NEW values, \A enum \in SUBSET values : enum # NoEnum,
         NEW schema, Whole(schema), NEW op, NEW status, Coded(schema, op, status, coded, values),
         NEW c, SchemaResolves(schema, c),
         c.kind = "add-optional-field" =>
           FieldCoded(c.schema, <<op, status, c.field>>, coded, values),
         c.kind = "add-enum-value" => c.value \in values
  PROVE  Coded(ChangedSchema(schema, c), op, status, coded, values)
<1> DEFINE new == ChangedSchema(schema, c)
           old == EnumAt(schema, c.field)
           enum == IF c.kind = "add-enum-value" THEN old \cup {c.value} ELSE old \ {c.value}
           Fine(n, field) == FieldCoded(field, <<op, status, n>>, coded, values)
<1>1. /\ {"enum", "required", "properties"} \subseteq DOMAIN schema
      /\ NoField \notin DOMAIN schema.properties
      /\ \A n \in DOMAIN schema.properties : "enum" \in DOMAIN schema.properties[n]
  BY DEF Whole, Whole1, WholeLevel
<1>2. \A n \in DOMAIN schema.properties : Fine(n, schema.properties[n])
  BY DEF Coded
<1>3. \/ new.properties = schema.properties
      \/ /\ c.kind \in {"add-enum-value", "remove-enum-value"} /\ c.field # NoField
         /\ c.field \in DOMAIN schema.properties /\ schema.properties[c.field].enum # NoEnum
         /\ new.properties = [schema.properties EXCEPT ![c.field].enum = enum]
      \/ /\ c.kind = "add-optional-field"
         /\ new.properties = [n \in DOMAIN schema.properties \cup {c.field} |->
                                IF n = c.field THEN c.schema ELSE schema.properties[n]]
      \/ new.properties = [n \in DOMAIN schema.properties \ {c.field} |-> schema.properties[n]]
  BY <1>1, ChangedParts
<1>4. ASSUME c.field # NoField, c.field \in DOMAIN schema.properties,
             schema.properties[c.field].enum # NoEnum
      PROVE  Fine(c.field, [schema.properties[c.field] EXCEPT !.enum = enum])
  <2> DEFINE field == schema.properties[c.field]
  <2>1. <<op, status, c.field>> \in coded /\ field.enum \subseteq values
    BY <1>2, <1>4 DEF FieldCoded
  <2>2. enum \subseteq values
    BY <1>4, <2>1 DEF EnumAt
  <2> HIDE DEF enum
  <2>3. enum # NoEnum /\ [field EXCEPT !.enum = enum].enum = enum
    BY <1>1, <1>4, <2>2
  <2> QED
    BY <2>1, <2>2, <2>3 DEF FieldCoded
<1>5. c.kind = "add-optional-field" => Fine(c.field, c.schema)
  OBVIOUS
<1> HIDE DEF new, enum, old, Fine
<1>6. \A n \in DOMAIN new.properties : Fine(n, new.properties[n])
  BY <1>2, <1>3, <1>4, <1>5
<1> QED
  BY <1>6 DEF Coded, new, Fine

\* A change that fits, to an operation that fits, leaves one that fits.
LEMMA ChangedOperationFits ==
  ASSUME NotObjectIsNone, NEW coded, NEW values, \A enum \in SUBSET values : enum # NoEnum, NEW lasting,
         NEW contract, NEW c, Resolves(contract, c),
         OperationFits(contract[c.op], c.op, coded, values, lasting), ChangeFits(c, coded, values, lasting)
  PROVE  OperationFits(ChangedOperation(contract[c.op], c), c.op, coded, values, lasting)
<1> DEFINE operation == contract[c.op]
           new == ChangedOperation(operation, c)
           Fine(schema, status) ==
             schema # NotObject => Whole(schema) /\ Coded(schema, c.op, status, coded, values)
<1>1. /\ {"security", "request", "responses"} \subseteq DOMAIN operation
      /\ operation.request # NoSchema => Whole(operation.request) /\ Keeps(operation.request, lasting)
      /\ \A status \in DOMAIN operation.responses : Fine(operation.responses[status], status)
  BY DEF OperationFits
<1>2. CASE c.kind = "add-response-status"
  <2>1. Fine(c.schema, c.part)
    BY <1>2 DEF ChangeFits
  <2>2. /\ {"security", "request", "responses"} \subseteq DOMAIN new
        /\ new.request = operation.request
        /\ new.responses = [s \in DOMAIN operation.responses \cup {c.part} |->
                              IF s = c.part THEN c.schema ELSE operation.responses[s]]
    BY <1>1, <1>2 DEF ChangedOperation, WithResponse
  <2> HIDE DEF new, Fine, operation
  <2>3. \A status \in DOMAIN new.responses : Fine(new.responses[status], status)
    BY <1>1, <2>1, <2>2
  <2> QED
    BY <1>1, <2>2, <2>3 DEF OperationFits, new, Fine, operation
<1>3. CASE c.kind = "remove-response-status"
  <2>1. /\ {"security", "request", "responses"} \subseteq DOMAIN new
        /\ new.request = operation.request
        /\ new.responses = [s \in DOMAIN operation.responses \ {c.part} |-> operation.responses[s]]
    BY <1>1, <1>3 DEF ChangedOperation, WithoutResponse
  <2> HIDE DEF new, Fine, operation
  <2>2. \A status \in DOMAIN new.responses : Fine(new.responses[status], status)
    BY <1>1, <2>1
  <2> QED
    BY <1>1, <2>1, <2>2 DEF OperationFits, new, Fine, operation
<1>4. CASE c.kind \notin {"add-response-status", "remove-response-status"}
  <2> DEFINE schema == SchemaOf(operation, c.part)
             made == ChangedSchema(schema, c)
  <2>1. HasSchema(operation, c.part) /\ SchemaResolves(schema, c)
    BY <1>4 DEF Resolves, SchemaResolves
  <2>2. CASE c.part = "request"
    <3>1. schema = operation.request /\ schema # NoSchema
      BY <2>1, <2>2 DEF HasSchema, SchemaOf
    <3>2. Whole(schema) /\ Keeps(schema, lasting)
      BY <1>1, <3>1
    <3>3. /\ c.kind = "add-optional-field" => c.field # NoField /\ Whole1(c.schema) /\ Keeps1(c.schema, lasting)
          /\ c.kind = "remove-enum-value" => c.value \notin lasting
      BY <2>2 DEF ChangeFits
    <3> HIDE DEF schema
    <3>4. Whole(made)
      BY <2>1, <3>2, <3>3, ChangedIsWhole
    <3>5. Keeps(made, lasting)
      BY <2>1, <3>2, <3>3, ChangedKeeps
    <3>6. new = [operation EXCEPT !.request = made]
      BY <1>4, <2>2, <3>1 DEF ChangedOperation
    <3> HIDE DEF made
    <3>7. /\ {"security", "request", "responses"} \subseteq DOMAIN new
          /\ new.request = made /\ new.responses = operation.responses
      BY <1>1, <3>6
    <3> QED
      BY <1>1, <3>4, <3>5, <3>7 DEF OperationFits
  <2>3. CASE c.part # "request"
    <3>1. schema = operation.responses[c.part] /\ c.part \in DOMAIN operation.responses
          /\ schema # NotObject
      BY <2>1, <2>3 DEF HasSchema, SchemaOf
    <3>2. Whole(schema) /\ Coded(schema, c.op, c.part, coded, values)
      BY <1>1, <3>1
    <3>3. /\ c.kind = "add-optional-field" =>
               /\ c.field # NoField /\ Whole1(c.schema)
               /\ FieldCoded(c.schema, <<c.op, c.part, c.field>>, coded, values)
          /\ c.kind = "add-enum-value" => c.value \in values
      BY <2>3 DEF ChangeFits
    <3> HIDE DEF schema
    <3>4. Whole(made)
      BY <2>1, <3>2, <3>3, ChangedIsWhole
    <3>5. Coded(made, c.op, c.part, coded, values)
      BY <2>1, <3>2, <3>3, ChangedIsCoded
    <3>6. new = [operation EXCEPT !.responses[c.part] = made]
      BY <1>4, <2>3, <3>1 DEF ChangedOperation
    <3> HIDE DEF made
    <3>7. /\ {"security", "request", "responses"} \subseteq DOMAIN new
          /\ new.request = operation.request
          /\ new.responses = [operation.responses EXCEPT ![c.part] = made]
      BY <1>1, <3>6
    <3>8. Fine(made, c.part)
      BY <3>4, <3>5
    <3> HIDE DEF new, Fine, operation
    <3>9. \A status \in DOMAIN new.responses : Fine(new.responses[status], status)
      BY <1>1, <3>7, <3>8
    <3> QED
      BY <1>1, <3>7, <3>9 DEF OperationFits, new, Fine, operation
  <2> QED
    BY <2>2, <2>3
<1> QED
  BY <1>2, <1>3, <1>4

\* A compilation that went well so far made a contract that fits.
FitsSoFar(step, coded, values, lasting) ==
  "ok" \in DOMAIN step /\ (step.ok => ContractFits(step.contract, coded, values, lasting))

LEMMA ApplyFits ==
  ASSUME NotObjectIsNone, NEW coded, NEW values, \A enum \in SUBSET values : enum # NoEnum, NEW lasting,
         NEW step, FitsSoFar(step, coded, values, lasting), NEW c, ChangeFits(c, coded, values, lasting)
  PROVE  FitsSoFar(Apply(step, c), coded, values, lasting)
<1>1. CASE ~step.ok \/ ~Resolves(step.contract, c)
  <2>1. Apply(step, c) = [step EXCEPT !.ok = FALSE]
    BY <1>1 DEF Apply
  <2> QED
    BY <2>1 DEF FitsSoFar
<1>2. CASE step.ok /\ Resolves(step.contract, c)
  <2> DEFINE new == ChangedOperation(step.contract[c.op], c)
             log == step.changelog \cup ChangelogEntry(step.contract[c.op], c)
             made == [step.contract EXCEPT ![c.op] = new]
  <2>1. Apply(step, c) = [ok |-> TRUE, contract |-> made, changelog |-> log]
    BY <1>2 DEF Apply
  <2>2. c.op \in DOMAIN step.contract /\ ContractFits(step.contract, coded, values, lasting)
    BY <1>2 DEF Resolves, FitsSoFar
  <2>3. OperationFits(new, c.op, coded, values, lasting)
    BY <1>2, <2>2, ChangedOperationFits DEF ContractFits
  <2> HIDE DEF new, log
  <2>4. ContractFits(made, coded, values, lasting)
    BY <2>2, <2>3 DEF ContractFits
  <2> HIDE DEF made
  <2> QED
    BY <2>1, <2>4 DEF FitsSoFar
<1> QED
  BY <1>1, <1>2

\* A series of changes that fit does, too.
LEMMA ApplyAllFits ==
  ASSUME NotObjectIsNone, NEW coded, NEW values, \A enum \in SUBSET values : enum # NoEnum, NEW lasting,
         NEW contract, ContractFits(contract, coded, values, lasting),
         NEW changes, changes \in Seq(Range(changes)),
         \A c \in Range(changes) : ChangeFits(c, coded, values, lasting)
  PROVE  FitsSoFar(ApplyAll(contract, changes), coded, values, lasting)
<1> DEFINE k == Len(changes)
           h == CHOOSE f : Steps(contract, changes, f, k)
           Next1(n) == IF n = 0 THEN Unchanged(contract) ELSE Apply(h[n - 1], changes[n])
           S == {n \in Nat : n <= k => FitsSoFar(h[n], coded, values, lasting)}
<1>1. k \in Nat
  OBVIOUS
<1>2. Steps(contract, changes, h, k)
  BY <1>1, StepsExist
<1>3. ApplyAll(contract, changes) = h[k]
  BY DEF ApplyAll, Steps, Unchanged
<1>4. \A n \in 1 .. k : ChangeFits(changes[n], coded, values, lasting)
  BY DEF Range
<1> HIDE DEF h, k
<1>5. h = [n \in 0 .. k |-> Next1(n)]
  BY <1>2 DEF Steps
<1>6. \A n \in 0 .. k : h[n] = Next1(n)
  <2> HIDE DEF Next1
  <2> QED
    BY <1>5
<1>7. 0 \in S
  <2>1. h[0] = Unchanged(contract)
    BY <1>1, <1>6
  <2>2. FitsSoFar(Unchanged(contract), coded, values, lasting)
    BY DEF FitsSoFar, Unchanged
  <2> QED
    BY <2>1, <2>2
<1>8. ASSUME NEW n \in Nat, n \in S PROVE n + 1 \in S
  <2>1. CASE n + 1 <= k
    <3>1. h[n + 1] = Apply(h[n], changes[n + 1])
      BY <1>1, <1>6, <2>1
    <3>2. FitsSoFar(h[n], coded, values, lasting)
      BY <1>1, <1>8, <2>1
    <3>3. ChangeFits(changes[n + 1], coded, values, lasting)
      BY <1>1, <1>4, <2>1
    <3> QED
      BY <3>1, <3>2, <3>3, ApplyFits
  <2>2. CASE ~(n + 1 <= k)
    BY <2>2
  <2> QED
    BY <2>1, <2>2
<1>9. Nat \subseteq S
  <2> HIDE DEF S
  <2> QED
    BY <1>7, <1>8, SetInduction
<1> QED
  BY <1>1, <1>3, <1>9
-----------------------------------------------------------------------------
\* The schemas of each level, as HasEmptyEnum collects them on the way down.
Below(schemas) == (UNION {Range(s.properties) : s \in schemas}) \ {NotObject}

Levels(schema, f, k) ==
  f = [depth \in 0 .. k |-> IF depth = 0 THEN {schema} \ {NotObject} ELSE Below(f[depth - 1])]

LEMMA LevelsExist ==
  ASSUME NEW schema
  PROVE  \A k \in Nat : \E f : Levels(schema, f, k)
<1> DEFINE Top == {schema} \ {NotObject}
           S == {k \in Nat : \E f : Levels(schema, f, k)}
<1>1. 0 \in S
  <2> DEFINE f == [n \in 0 .. 0 |-> Top]
  <2>1. f = [n \in 0 .. 0 |-> IF n = 0 THEN Top ELSE Below(f[n - 1])]
    OBVIOUS
  <2> QED
    BY <2>1 DEF Levels
<1>2. ASSUME NEW k \in Nat, k \in S PROVE k + 1 \in S
  <2>1. PICK f : Levels(schema, f, k)
    BY <1>2
  <2> DEFINE Next1(h, n) == IF n = 0 THEN Top ELSE Below(h[n - 1])
             g == [n \in 0 .. k + 1 |-> IF n <= k THEN f[n] ELSE Below(f[k])]
  <2>2. \A n \in 0 .. k : f[n] = Next1(f, n)
    <3>1. f = [n \in 0 .. k |-> Next1(f, n)]
      BY <2>1 DEF Levels
    <3> HIDE DEF Next1
    <3> QED
      BY <3>1
  <2>3. (\A n \in 0 .. k : g[n] = f[n]) /\ g[k + 1] = Below(f[k])
    OBVIOUS
  <2>4. \A n \in 0 .. k + 1 : n # 0 => n - 1 \in 0 .. k /\ g[n - 1] = f[n - 1]
    BY <2>3
  <2>5. g = [n \in 0 .. k + 1 |-> g[n]]
    OBVIOUS
  <2> HIDE DEF g
  <2>6. ASSUME NEW n \in 0 .. k + 1 PROVE g[n] = Next1(g, n)
    <3>1. CASE n = k + 1
      BY <2>3, <2>4, <3>1
    <3>2. CASE n # k + 1
      BY <2>2, <2>3, <2>4, <3>2
    <3> QED
      BY <3>1, <3>2
  <2>7. g = [n \in 0 .. k + 1 |-> Next1(g, n)]
    <3> HIDE DEF Next1
    <3> QED
      BY <2>5, <2>6
  <2> QED
    BY <2>7 DEF Levels
<1>3. Nat \subseteq S
  <2> HIDE DEF S
  <2> QED
    BY <1>1, <1>2, SetInduction
<1> QED
  BY <1>3

\* A schema without empty enums, on the levels that are diffed.
ValuedLevel(schema, Nested(_)) ==
  schema.enum # {} /\ \A n \in DOMAIN schema.properties : Nested(schema.properties[n])

ValuedBelow(schema) == TRUE
Valued3(schema) == ValuedLevel(schema, ValuedBelow)
Valued2(schema) == ValuedLevel(schema, Valued3)
Valued1(schema) == ValuedLevel(schema, Valued2)
Valued(schema) == ValuedLevel(schema, Valued1)

\* What the check on the output says of a schema that is as deep as the diff goes.
LEMMA SaneIsValued ==
  ASSUME NEW schema, Whole(schema), MaxDepth \in Nat, MaxDepth >= 3, ~HasEmptyEnum(schema)
  PROVE  Valued(schema)
<1> DEFINE Step(f, d) == IF d = 0 THEN {schema} \ {NotObject} ELSE Below(f[d - 1])
           h == CHOOSE f : Levels(schema, f, MaxDepth)
<1>1. Levels(schema, h, MaxDepth)
  BY LevelsExist
<1>2. \A depth \in 0 .. MaxDepth : \A s \in h[depth] : s.enum # {}
  BY DEF HasEmptyEnum, Levels, Below
<1> HIDE DEF h
<1>3. \A d \in 0 .. MaxDepth : h[d] = Step(h, d)
  <2>1. h = [d \in 0 .. MaxDepth |-> Step(h, d)]
    BY <1>1 DEF Levels
  <2> HIDE DEF Step
  <2> QED
    BY <2>1
<1>4. {0, 1, 2, 3} \subseteq 0 .. MaxDepth
  OBVIOUS
<1>5. /\ h[0] = {schema} \ {NotObject} /\ h[1] = Below(h[0])
      /\ h[2] = Below(h[1]) /\ h[3] = Below(h[2])
  BY <1>3, <1>4
<1>6. ASSUME NEW d \in {0, 1, 2, 3}, NEW s \in h[d] PROVE s.enum # {}
  BY <1>2, <1>4
<1>7. \A schemas : \A s \in schemas : \A n \in DOMAIN s.properties :
        s.properties[n] # NotObject => s.properties[n] \in Below(schemas)
  BY DEF Below, Range
<1>8. schema \in h[0] /\ \A n \in DOMAIN schema.properties : schema.properties[n] \in h[1]
  BY <1>5, <1>7 DEF Whole, WholeLevel, Whole1
<1>9. ASSUME NEW s \in h[1], Whole1(s), NEW n \in DOMAIN s.properties PROVE s.properties[n] \in h[2]
  BY <1>5, <1>7, <1>9 DEF Whole1, WholeLevel, Whole2
<1>10. ASSUME NEW s \in h[2], Whole2(s), NEW n \in DOMAIN s.properties PROVE s.properties[n] \in h[3]
  BY <1>5, <1>7, <1>10 DEF Whole2, WholeLevel, Whole3
<1>11. ASSUME NEW s \in h[3] PROVE Valued3(s)
  BY <1>6, <1>11 DEF Valued3, ValuedLevel, ValuedBelow
<1>12. ASSUME NEW s \in h[2], Whole2(s) PROVE Valued2(s)
  BY <1>6, <1>10, <1>11, <1>12 DEF Valued2, ValuedLevel
<1>13. ASSUME NEW s \in h[1], Whole1(s) PROVE Valued1(s)
  BY <1>6, <1>9, <1>12, <1>13 DEF Valued1, ValuedLevel, Whole1, WholeLevel
<1> QED
  BY <1>6, <1>8, <1>13 DEF Valued, ValuedLevel, Whole, WholeLevel

\* And what the values that are kept say of it.
LEMMA KeptIsValued ==
  ASSUME NEW lasting, NoEnum # {}, NEW schema, Keeps(schema, lasting)
  PROVE  Valued(schema)
<1>1. ASSUME NEW s, Keeps3(s, lasting) PROVE Valued3(s)
  BY <1>1 DEF Keeps3, KeepsLevel, Valued3, ValuedLevel, ValuedBelow
<1>2. ASSUME NEW s, Keeps2(s, lasting) PROVE Valued2(s)
  BY <1>1, <1>2 DEF Keeps2, KeepsLevel, Valued2, ValuedLevel
<1>3. ASSUME NEW s, Keeps1(s, lasting) PROVE Valued1(s)
  BY <1>2, <1>3 DEF Keeps1, KeepsLevel, Valued1, ValuedLevel
<1> QED
  BY <1>3 DEF Keeps, KeepsLevel, Valued, ValuedLevel

\* Schemas of which the reader's has no empty enum can be compared.
LEMMA WholeAreComparable ==
  ASSUME NEW reader, NEW writer, Whole(reader), Whole(writer), Valued(reader)
  PROVE  Comparable(reader, writer)
<1>1. ASSUME NEW r, NEW w, Whole3(r), Whole3(w), Valued3(r) PROVE Comparable3(r, w)
  BY <1>1 DEF Whole3, WholeLevel, Valued3, ValuedLevel, Comparable3, ComparableLevel, ComparableBelow
<1>2. ASSUME NEW r, NEW w, Whole2(r), Whole2(w), Valued2(r) PROVE Comparable2(r, w)
  BY <1>1, <1>2 DEF Whole2, WholeLevel, Valued2, ValuedLevel, Comparable2, ComparableLevel
<1>3. ASSUME NEW r, NEW w, Whole1(r), Whole1(w), Valued1(r) PROVE Comparable1(r, w)
  BY <1>2, <1>3 DEF Whole1, WholeLevel, Valued1, ValuedLevel, Comparable1, ComparableLevel
<1> QED
  BY <1>3 DEF Whole, WholeLevel, Valued, ValuedLevel, Comparable, ComparableLevel

\* So any two contracts that fit can be compared, when what they say of responses is sane.
LEMMA FittingAreComparable ==
  ASSUME MaxDepth \in Nat, MaxDepth >= 3,
         NEW coded, NEW values, \A enum \in SUBSET values : enum # NoEnum, NEW lasting,
         NEW from, ContractFits(from, coded, values, lasting), Sane(from),
         NEW to, ContractFits(to, coded, values, lasting)
  PROVE  ComparableContracts(from, to) /\ EnumsStay(from, to)
<1> SUFFICES ASSUME NEW op \in DOMAIN from \cap DOMAIN to
             PROVE  /\ \A status \in DOMAIN from[op].responses \cap DOMAIN to[op].responses :
                         LET old == from[op].responses[status]
                             new == to[op].responses[status]
                         IN  NotObject \notin {old, new} =>
                               /\ Comparable(old, new)
                               /\ \A n \in DOMAIN old.properties \cap DOMAIN new.properties :
                                    new.properties[n].enum = NoEnum => old.properties[n].enum = NoEnum
                    /\ NoSchema \notin {from[op].request, to[op].request} =>
                         Comparable(to[op].request, from[op].request)
  BY DEF ComparableContracts, EnumsStay
<1>1. OperationFits(from[op], op, coded, values, lasting) /\ OperationFits(to[op], op, coded, values, lasting)
  BY DEF ContractFits
<1>2. ASSUME NEW status \in DOMAIN from[op].responses \cap DOMAIN to[op].responses,
             NotObject \notin {from[op].responses[status], to[op].responses[status]}
      PROVE  LET old == from[op].responses[status]
                 new == to[op].responses[status]
             IN  /\ Comparable(old, new)
                 /\ \A n \in DOMAIN old.properties \cap DOMAIN new.properties :
                      new.properties[n].enum = NoEnum => old.properties[n].enum = NoEnum
  <2> DEFINE old == from[op].responses[status]
             new == to[op].responses[status]
  <2>1. /\ Whole(old) /\ Coded(old, op, status, coded, values)
        /\ Whole(new) /\ Coded(new, op, status, coded, values)
    BY <1>1, <1>2 DEF OperationFits
  <2>2. ~HasEmptyEnum(old)
    BY DEF Sane
  <2> HIDE DEF old, new
  <2>3. Comparable(old, new)
    BY <2>1, <2>2, SaneIsValued, WholeAreComparable
  <2>4. \A n \in DOMAIN old.properties \cap DOMAIN new.properties :
          new.properties[n].enum = NoEnum => old.properties[n].enum = NoEnum
    BY <2>1 DEF Coded, FieldCoded
  <2> QED
    BY <2>3, <2>4 DEF old, new
<1>3. ASSUME NoSchema \notin {from[op].request, to[op].request}
      PROVE  Comparable(to[op].request, from[op].request)
  <2>1. /\ Whole(from[op].request) /\ Whole(to[op].request) /\ Keeps(to[op].request, lasting)
    BY <1>1, <1>3 DEF OperationFits
  <2>2. NoEnum # {}
    OBVIOUS
  <2> QED
    BY <2>1, <2>2, KeptIsValued, WholeAreComparable
<1> QED
  BY <1>2, <1>3

\* The compiler starts with a contract that fits,
LEMMA CompilerStartsFitting ==
  ASSUME NEW coded, NEW values, NEW lasting, StartFits(coded, values, lasting), CompilerInit
  PROVE  CompilerFits(coded, values, lasting)
BY DEF StartFits, CompilerInit, CompilerFits

\* and goes on with contracts that fit, where the steps do,
LEMMA CompilerGoesOnFitting ==
  ASSUME NotObjectIsNone, NEW coded, NEW values, NEW lasting, \A enum \in SUBSET values : enum # NoEnum,
         CompilerIInv, CompilerFits(coded, values, lasting),
         NEW analyses, FittingStep(coded, values, lasting, analyses) \/ UNCHANGED compilerVars
  PROVE  CompilerFits(coded, values, lasting)'
<1> DEFINE Fits(contract) == ContractFits(contract, coded, values, lasting) /\ Sane(contract)
<1>1. /\ published \in Seq(Range(published)) /\ published # <<>>
      /\ artifact = <<>> \/ artifact = <<artifact[1]>>
      /\ \A i \in DOMAIN published : Fits(published[i])
      /\ \A i \in DOMAIN artifact : Fits(artifact[i].contract)
  BY DEF CompilerIInv, CompilerFits
<1>2. ASSUME NEW contract, Fits(contract), published' = Append(published, contract)
      PROVE  \A i \in DOMAIN published' : Fits(published'[i])
  <2> HIDE DEF Fits
  <2> QED
    BY <1>1, <1>2
<1>3. ASSUME NEW input \in Inputs, Compile(input, analyses),
             \A c \in Range(input.changes) : ChangeFits(c, coded, values, lasting)
      PROVE  CompilerFits(coded, values, lasting)'
  <2> DEFINE step == ApplyAll(Contract, input.changes)
             made == [base      |-> Contract,
                      contract  |-> step.contract,
                      changelog |-> step.changelog,
                      guides    |-> [k \in DOMAIN analyses |-> MigrationGuide(analyses[k])],
                      drafts    |-> ProviderDrafts(input.changes) \cup
                                      UNION {ConsumerDrafts(analyses[k]) : k \in DOMAIN analyses}]
  <2>1. step.ok /\ Sane(step.contract) /\ artifact' = <<made>> /\ published' = published
    BY <1>3 DEF Compile
  <2>2. Fits(Contract)
    BY <1>1 DEF Contract
  <2>3. input.changes \in Seq(Range(input.changes))
    BY CompilerAssumption
  <2>4. FitsSoFar(step, coded, values, lasting)
    BY <1>3, <2>2, <2>3, ApplyAllFits
  <2>5. Fits(made.contract)
    <3> HIDE DEF step
    <3> QED
      BY <2>1, <2>4 DEF FitsSoFar
  <2> HIDE DEF made, Fits
  <2>6. \A i \in DOMAIN artifact' : Fits(artifact'[i].contract)
    BY <2>1, <2>5
  <2> QED
    BY <1>1, <2>1, <2>6 DEF CompilerFits, Fits
<1>4. CASE PublishArtifact
  <2>1. artifact # <<>> /\ published' = Append(published, artifact[1].contract) /\ artifact' = <<>>
    BY <1>4 DEF PublishArtifact
  <2>2. Fits(artifact[1].contract)
    BY <1>1, <2>1
  <2> QED
    BY <1>2, <2>1, <2>2 DEF CompilerFits
<1>5. ASSUME NEW contract \in Imports, PublishImported(contract), Fits(contract)
      PROVE  CompilerFits(coded, values, lasting)'
  <2>1. published' = Append(published, contract) /\ artifact' = artifact
    BY <1>5 DEF PublishImported
  <2> QED
    BY <1>1, <1>2, <1>5, <2>1 DEF CompilerFits
<1>6. CASE UNCHANGED compilerVars
  BY <1>6 DEF compilerVars, CompilerFits
<1> QED
  BY <1>3, <1>4, <1>5, <1>6 DEF FittingStep

\* A step that fits is a step.
LEMMA FittingIsStep ==
  ASSUME NEW coded, NEW values, NEW lasting, NEW analyses, FittingStep(coded, values, lasting, analyses)
  PROVE  CompilerNext(analyses)
BY DEF FittingStep, CompilerNext

\* so that whatever takes the place of another can be compared with it.
LEMMA CompilerStaysComparable ==
  ASSUME MaxDepth \in Nat, MaxDepth >= 3,
         NEW coded, NEW values, NEW lasting, \A enum \in SUBSET values : enum # NoEnum,
         CompilerIInv, CompilerFits(coded, values, lasting)
  PROVE  SuccessionsComparable
<1> DEFINE Fits(contract) == ContractFits(contract, coded, values, lasting) /\ Sane(contract)
<1>1. /\ published \in Seq(Range(published)) /\ published # <<>>
      /\ \A i \in DOMAIN published : Fits(published[i])
      /\ \A i \in DOMAIN artifact : Fits(artifact[i].contract)
  BY DEF CompilerIInv, CompilerFits
<1>2. ASSUME NEW s \in Successions PROVE Fits(s[1]) /\ Fits(s[2])
  <2> HIDE DEF Fits
  <2>1. \A i \in 1 .. Len(published) : Fits(published[i])
    BY <1>1
  <2>2. Fits(Contract)
    BY <1>1, <2>1 DEF Contract
  <2> QED
    BY <1>1, <2>1, <2>2 DEF Successions
<1> QED
  BY <1>2, FittingAreComparable DEF SuccessionsComparable
=============================================================================
