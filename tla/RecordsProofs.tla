--------------------------- MODULE RecordsProofs ----------------------------
(***************************************************************************)
(* Proofs about what is recorded of contracts and consumers, for any       *)
(* consumers, terms, analysts, evidence, revisions, imports and length of  *)
(* time: nothing is used of the analysis of a consumer but what still      *)
(* holds, a gate that opened was right to, the catalogue is complete as    *)
(* far as it goes, and the notifications tell what was stored last.        *)
(***************************************************************************)
EXTENDS ContractProofs, DependencyRecords, EvidenceGate, CatalogImport, Notifications,
        FiniteSetTheorems, TLAPS
-----------------------------------------------------------------------------
(* Dependencies and the analyses of them.                                  *)

\* What a snapshot holds.
LEMMA SnapshotShape ==
  ASSUME NEW s \in Snapshots
  PROVE  /\ DOMAIN s.signature \subseteq Edges
         /\ \A e \in DOMAIN s.signature : s.signature[e] \in 1 .. MaxTime
BY DEF Snapshots

\* A snapshot goes on following the edges when one of them keeps its terms and the time
\* of its confirmation, or is declared again, later or at the same time.
LEMMA FollowsOneEdge ==
  ASSUME NEW t \in [Edges -> Edge \cup {Nothing}], NEW e \in Edges, NEW r \in Edge,
         NEW s \in Snapshots, Follows(s, t),
         t[e] # Nothing =>
           \/ r.terms = t[e].terms /\ r.confirmedAt = t[e].confirmedAt /\ r.again = t[e].again
           \/ t[e].confirmedAt <= r.confirmedAt /\ (r.again \/ t[e].confirmedAt # r.confirmedAt)
  PROVE  Follows(s, [t EXCEPT ![e] = r])
<1> DEFINE u == [t EXCEPT ![e] = r]
<1> SUFFICES ASSUME NEW f \in DOMAIN s.signature
             PROVE  /\ u[f] # Nothing /\ s.signature[f] <= u[f].confirmedAt
                    /\ s.signature[f] = u[f].confirmedAt =>
                         \/ u[f].again
                         \/ s.impacts[f] = AnalyzeConsumer(s.findings, u[f].terms)
  BY DEF Follows
<1>1. f \in Edges /\ s.signature[f] \in 1 .. MaxTime
  BY SnapshotShape
<1>2. /\ t[f] # Nothing /\ s.signature[f] <= t[f].confirmedAt
      /\ s.signature[f] = t[f].confirmedAt =>
           \/ t[f].again
           \/ s.impacts[f] = AnalyzeConsumer(s.findings, t[f].terms)
  BY DEF Follows
<1>3. CASE f # e
  <2> u[f] = t[f]
    BY <1>1, <1>3
  <2> QED
    BY <1>2
<1>4. CASE f = e
  <2>1. u[f] = r /\ r # Nothing
    BY <1>1, <1>4, RecordsAssumption
  <2>2. t[e] \in Edge /\ t[e].confirmedAt \in 1 .. MaxTime /\ r.confirmedAt \in 1 .. MaxTime
    BY <1>2, <1>4 DEF Edge
  <2>3. CASE r.terms = t[e].terms /\ r.confirmedAt = t[e].confirmedAt /\ r.again = t[e].again
    BY <1>2, <1>4, <2>1, <2>3
  <2>4. CASE t[e].confirmedAt <= r.confirmedAt /\ (r.again \/ t[e].confirmedAt # r.confirmedAt)
    <3> HIDE DEF u
    <3>1. s.signature[e] <= r.confirmedAt
      BY <1>1, <1>2, <1>4, <2>2, <2>4, ClockAssumption
    <3>2. s.signature[e] = r.confirmedAt => r.again
      BY <1>1, <1>2, <1>4, <2>2, <2>4, ClockAssumption
    <3> QED
      BY <1>4, <2>1, <3>1, <3>2
  <2> QED
    BY <1>2, <1>4, <2>3, <2>4
<1> QED
  BY <1>3, <1>4

\* The invariant holds before the first declaration.
LEMMA InitRecordsIInv == RecordsInit /\ ClockInit => RecordsIInv /\ now \in 1 .. MaxTime
<1> SUFFICES ASSUME RecordsInit, ClockInit PROVE RecordsIInv /\ now \in 1 .. MaxTime
  OBVIOUS
<1>1. RecordsTypeOK
  BY RecordsAssumption DEF RecordsInit, RecordsTypeOK
<1>2. EdgesInTime /\ SnapshotsFollow
  BY DEF RecordsInit, EdgesInTime, SnapshotsFollow, Declared
<1>3. now \in 1 .. MaxTime
  BY ClockAssumption DEF ClockInit
<1> QED
  BY <1>1, <1>2, <1>3 DEF RecordsIInv

\* One edge changes, and no snapshot.
LEMMA EdgeStep ==
  ASSUME RecordsIInv, now \in 1 .. MaxTime, NEW e \in Edges, NEW r \in Edge,
         edges' = [edges EXCEPT ![e] = r],
         edges[e] # Nothing =>
           \/ /\ r.terms = edges[e].terms /\ r.confirmedAt = edges[e].confirmedAt
              /\ r.again = edges[e].again
           \/ /\ edges[e].confirmedAt <= r.confirmedAt
              /\ r.again \/ edges[e].confirmedAt # r.confirmedAt,
         r.confirmedAt <= now,
         kept' \in [Edges -> SUBSET Statements], adding' \in [Edges -> SUBSET Statements],
         \A f \in Edges \ {e} : adding'[f] # {} => adding[f] # {},
         UNCHANGED <<pinned, recording, expected, recorded, now>>
  PROVE  RecordsIInv'
<1>1. edges \in [Edges -> Edge \cup {Nothing}]
  BY DEF RecordsIInv, RecordsTypeOK
<1>2. RecordsTypeOK'
  BY <1>1 DEF RecordsIInv, RecordsTypeOK
<1>3. EdgesInTime'
  BY <1>1, RecordsAssumption DEF RecordsIInv, EdgesInTime, Declared
<1>4. \A s \in Snapshots : Follows(s, edges) => Follows(s, edges')
  BY <1>1, FollowsOneEdge
<1>5. SnapshotsFollow'
  <2>1. \A i \in DOMAIN recorded : recorded[i] \in Snapshots
    BY DEF RecordsIInv, RecordsTypeOK
  <2> QED
    BY <1>4, <2>1 DEF RecordsIInv, SnapshotsFollow
<1> QED
  BY <1>2, <1>3, <1>5 DEF RecordsIInv

\* The steps that change an edge.
LEMMA DeclareKeeps ==
  ASSUME RecordsIInv, now \in 1 .. MaxTime, UNCHANGED now, NEW e \in Edges, NEW t \in Offers,
         NEW s \in SUBSET Statements, DeclareDependency(e, t, s)
  PROVE  RecordsIInv'
<1> DEFINE r == [terms |-> t, confirmedAt |-> now,
                 again |-> edges[e] # Nothing /\ edges[e].confirmedAt = now,
                 deprecated |-> FALSE, assumptions |-> {}]
<1>1. r \in Edge
  BY DEF Edge
<1>2. edges[e] # Nothing => edges[e].confirmedAt <= now
  BY DEF RecordsIInv, EdgesInTime, Declared
<1>3. edges' = [edges EXCEPT ![e] = r]
  BY DEF DeclareDependency
<1>4. edges[e] # Nothing => (r.again \/ edges[e].confirmedAt # r.confirmedAt)
  OBVIOUS
<1>5. r.confirmedAt = now
  OBVIOUS
<1>6. /\ kept' \in [Edges -> SUBSET Statements] /\ adding' \in [Edges -> SUBSET Statements]
      /\ \A f \in Edges \ {e} : adding'[f] # {} => adding[f] # {}
      /\ UNCHANGED <<pinned, recording, expected, recorded, now>>
  BY DEF DeclareDependency, RecordsIInv, RecordsTypeOK
<1>7. now <= now
  BY ClockAssumption
<1> HIDE DEF r
<1> QED
  BY <1>1, <1>2, <1>3, <1>4, <1>5, <1>6, <1>7, EdgeStep

\* An edge that is declared gets other assumptions, or is deprecated.
LEMMA TouchKeeps ==
  ASSUME RecordsIInv, now \in 1 .. MaxTime, UNCHANGED now, NEW e \in Declared,
         NEW b \in BOOLEAN, NEW s \in SUBSET Statements,
         edges' = [edges EXCEPT ![e] = [edges[e] EXCEPT !.deprecated = b, !.assumptions = s]],
         kept' \in [Edges -> SUBSET Statements], adding' \in [Edges -> SUBSET Statements],
         \A f \in Edges \ {e} : adding'[f] # {} => adding[f] # {},
         UNCHANGED <<pinned, recording, expected, recorded>>
  PROVE  RecordsIInv'
<1> DEFINE r == [edges[e] EXCEPT !.deprecated = b, !.assumptions = s]
<1>1. e \in Edges /\ edges[e] \in Edge /\ edges[e].confirmedAt <= now
  BY DEF Declared, RecordsIInv, RecordsTypeOK, EdgesInTime
<1>2. /\ r \in Edge /\ r.terms = edges[e].terms /\ r.confirmedAt = edges[e].confirmedAt
      /\ r.again = edges[e].again
  BY <1>1 DEF Edge
<1>3. edges' = [edges EXCEPT ![e] = r] /\ r.confirmedAt <= now
  BY <1>1, <1>2
<1> HIDE DEF r
<1> QED
  BY <1>1, <1>2, <1>3, EdgeStep

\* An assumption changes neither edges nor snapshots.
LEMMA AssumptionKeeps ==
  ASSUME RecordsIInv, now \in 1 .. MaxTime, UNCHANGED now, NEW e \in Declared,
         NEW s \in Statements, WithAssumption(e, s),
         adding' \in [Edges -> SUBSET Statements],
         \A f \in Edges \ {e} : adding'[f] # {} => adding[f] # {},
         UNCHANGED <<pinned, recording, expected, recorded>>
  PROVE  RecordsIInv'
<1> DEFINE a == kept[e] \cup {s}
<1>1. e \in Edges /\ edges[e] \in Edge /\ a \in SUBSET Statements
  BY DEF Declared, RecordsIInv, RecordsTypeOK
<1>2. kept' \in [Edges -> SUBSET Statements]
  BY <1>1 DEF WithAssumption, RecordsIInv, RecordsTypeOK
<1>3. /\ edges[e].deprecated \in BOOLEAN
      /\ [edges[e] EXCEPT !.deprecated = edges[e].deprecated, !.assumptions = a]
           = [edges[e] EXCEPT !.assumptions = a]
  BY <1>1 DEF Edge
<1>4. edges' = [edges EXCEPT ![e] = [edges[e] EXCEPT !.deprecated = edges[e].deprecated,
                                                   !.assumptions = a]]
  BY <1>3 DEF WithAssumption
<1> HIDE DEF a
<1> QED
  BY <1>1, <1>2, <1>3, <1>4, TouchKeeps

\* What consumers do leaves snapshots that follow the edges.
LEMMA EdgeActionsKeep ==
  ASSUME RecordsIInv, now \in 1 .. MaxTime, UNCHANGED now, NEW e \in Edges,
         \/ AddDeclaredAssumption(e) \/ AbandonDeclaration(e) \/ DeprecateEdge(e)
         \/ \E s \in Statements : AddAssumption(e, s)
  PROVE  RecordsIInv'
<1>1. adding \in [Edges -> SUBSET Statements]
  BY DEF RecordsIInv, RecordsTypeOK
<1>2. CASE AddDeclaredAssumption(e)
  <2>1. PICK s \in adding[e] : WithAssumption(e, s) /\ adding' = [adding EXCEPT ![e] = @ \ {s}]
    BY <1>2 DEF AddDeclaredAssumption
  <2>2. e \in Declared /\ s \in Statements
    BY <1>1, <2>1 DEF RecordsIInv, EdgesInTime
  <2>3. /\ adding' \in [Edges -> SUBSET Statements]
        /\ \A f \in Edges \ {e} : adding'[f] # {} => adding[f] # {}
    BY <1>1, <2>1
  <2> QED
    BY <1>2, <2>1, <2>2, <2>3, AssumptionKeeps DEF AddDeclaredAssumption
<1>3. CASE AbandonDeclaration(e)
  <2>1. /\ adding' \in [Edges -> SUBSET Statements]
        /\ \A f \in Edges : adding'[f] # {} => adding[f] # {}
    BY <1>1, <1>3 DEF AbandonDeclaration
  <2> QED
    BY <1>3, <2>1 DEF AbandonDeclaration, RecordsIInv, RecordsTypeOK, EdgesInTime,
       SnapshotsFollow, Declared
<1>4. CASE DeprecateEdge(e)
  <2>1. e \in Declared /\ edges[e] \in Edge
    BY <1>4 DEF DeprecateEdge, Declared, RecordsIInv, RecordsTypeOK
  <2>2. /\ edges[e].assumptions \in SUBSET Statements
        /\ [edges[e] EXCEPT !.deprecated = TRUE, !.assumptions = edges[e].assumptions]
             = [edges[e] EXCEPT !.deprecated = TRUE]
    BY <2>1 DEF Edge
  <2>3. edges' = [edges EXCEPT ![e] = [edges[e] EXCEPT !.deprecated = TRUE,
                                                     !.assumptions = edges[e].assumptions]]
    BY <1>4, <2>2 DEF DeprecateEdge
  <2>4. /\ kept' \in [Edges -> SUBSET Statements] /\ adding' = adding
        /\ UNCHANGED <<pinned, recording, expected, recorded>>
    BY <1>4 DEF DeprecateEdge, RecordsIInv, RecordsTypeOK
  <2>5. /\ adding' \in [Edges -> SUBSET Statements]
        /\ \A f \in Edges \ {e} : adding'[f] # {} => adding[f] # {}
    BY <1>1, <2>4
  <2>6. TRUE \in BOOLEAN
    OBVIOUS
  <2> QED
    BY <2>1, <2>2, <2>3, <2>4, <2>5, <2>6, TouchKeeps
<1>5. ASSUME NEW s \in Statements, AddAssumption(e, s) PROVE RecordsIInv'
  BY <1>1, <1>5, AssumptionKeeps DEF AddAssumption
<1> QED
  BY <1>2, <1>3, <1>4, <1>5

\* The steps of an analyst, which change no edge.
LEMMA AnalystStep ==
  ASSUME RecordsIInv, UNCHANGED <<edges, kept, adding, now>>, NEW a \in Analysts,
         pinned' \in [Analysts -> Snapshots \cup {Nothing}],
         recording' \in [Analysts -> {"idle", "computed", "checked", "read"}],
         expected' \in [Analysts -> 0 .. MaxRecords],
         \A b \in Analysts \ {a} : pinned'[b] = pinned[b] /\ recording'[b] = recording[b],
         recording'[a] # "idle" => pinned'[a] \in Snapshots /\ Follows(pinned'[a], edges),
         recorded' \in Seq(Snapshots), Len(recorded') <= MaxRecords,
         \A i \in DOMAIN recorded' : Follows(recorded'[i], edges)
  PROVE  RecordsIInv'
<1>1. RecordsTypeOK'
  BY DEF RecordsIInv, RecordsTypeOK
<1>2. EdgesInTime'
  BY DEF RecordsIInv, EdgesInTime, Declared
<1>3. SnapshotsFollow'
  BY DEF RecordsIInv, SnapshotsFollow
<1> QED
  BY <1>1, <1>2, <1>3 DEF RecordsIInv

\* A computed analysis pins what the edges are.
LEMMA ComputeKeeps ==
  ASSUME RecordsIInv, UNCHANGED now, NEW a \in Analysts, NEW d \in Diffs, ComputeAnalysis(a, d)
  PROVE  RecordsIInv'
<1> DEFINE q == [findings  |-> d,
                 signature |-> [e \in Declared |-> edges[e].confirmedAt],
                 impacts   |-> [e \in Declared |-> AnalyzeConsumer(d, edges[e].terms)]]
<1>1. \A e \in Declared : edges[e] \in Edge
  BY DEF Declared, RecordsIInv, RecordsTypeOK
<1>2. q \in Snapshots
  <2>1. Declared \in SUBSET Edges
    BY DEF Declared
  <2>2. [e \in Declared |-> edges[e].confirmedAt] \in [Declared -> 1 .. MaxTime]
    BY <1>1 DEF Edge
  <2>3. \A e \in Declared : AnalyzeConsumer(d, edges[e].terms) \in Impacts
    BY <1>1 DEF Edge, Impacts
  <2>4. [e \in Declared |-> AnalyzeConsumer(d, edges[e].terms)] \in [Declared -> Impacts]
    BY <2>3
  <2>5. q \in [findings : Diffs, signature : [Declared -> 1 .. MaxTime],
              impacts : [Declared -> Impacts]]
    BY <2>2, <2>4
  <2> QED
    BY <2>1, <2>5 DEF Snapshots
<1>3. Follows(q, edges)
  <2> SUFFICES ASSUME NEW e \in Declared
               PROVE  /\ edges[e] # Nothing /\ edges[e].confirmedAt <= edges[e].confirmedAt
                      /\ q.impacts[e] = AnalyzeConsumer(d, edges[e].terms)
    BY DEF Follows
  <2>1. edges[e].confirmedAt \in Nat
    BY <1>1, ClockAssumption DEF Edge
  <2> QED
    BY <2>1 DEF Declared
<1>4. pinned' = [pinned EXCEPT ![a] = q] /\ recording' = [recording EXCEPT ![a] = "computed"]
  BY DEF ComputeAnalysis
<1>5. UNCHANGED <<edges, kept, adding, expected, recorded>>
  BY DEF ComputeAnalysis
<1> HIDE DEF q
<1> QED
  BY <1>2, <1>3, <1>4, <1>5, AnalystStep DEF RecordsIInv, RecordsTypeOK, SnapshotsFollow

\* Checking and reading the proposal take no new snapshot.
LEMMA CheckKeeps ==
  ASSUME RecordsIInv, UNCHANGED now, NEW a \in Analysts, CheckAnalysis(a)
  PROVE  RecordsIInv'
<1>1. UNCHANGED <<edges, kept, adding, expected, recorded>> /\ recording[a] = "computed"
  BY DEF CheckAnalysis
<1>2. CASE Return(a)
  BY <1>1, <1>2, AnalystStep DEF Return, RecordsIInv, RecordsTypeOK, SnapshotsFollow
<1>3. CASE recording' = [recording EXCEPT ![a] = "checked"] /\ UNCHANGED pinned
  BY <1>1, <1>3, AnalystStep DEF RecordsIInv, RecordsTypeOK, SnapshotsFollow
<1> QED
  BY <1>2, <1>3 DEF CheckAnalysis

\* Nor does reading the version.
LEMMA ReadProposalKeeps ==
  ASSUME RecordsIInv, UNCHANGED now, NEW a \in Analysts, ReadProposalVersion(a)
  PROVE  RecordsIInv'
<1>1. Len(recorded) \in 0 .. MaxRecords
  <2>1. Len(recorded) \in Nat /\ Len(recorded) <= MaxRecords
    BY DEF RecordsIInv, RecordsTypeOK
  <2> QED
    BY <2>1, RecordsAssumption
<1>2. expected' \in [Analysts -> 0 .. MaxRecords]
  BY <1>1 DEF ReadProposalVersion, RecordsIInv, RecordsTypeOK
<1> QED
  BY <1>2, AnalystStep DEF ReadProposalVersion, RecordsIInv, RecordsTypeOK, SnapshotsFollow

\* A recorded analysis is one that was computed.
LEMMA RecordKeeps ==
  ASSUME RecordsIInv, UNCHANGED now, NEW a \in Analysts, RecordAnalysis(a)
  PROVE  RecordsIInv'
<1>1. /\ pinned[a] \in Snapshots /\ Follows(pinned[a], edges)
      /\ recorded \in Seq(Snapshots) /\ Len(recorded) < MaxRecords
      /\ \A i \in DOMAIN recorded : Follows(recorded[i], edges)
  BY DEF RecordAnalysis, RecordsIInv, RecordsTypeOK, SnapshotsFollow
<1>2. /\ recorded' \in Seq(Snapshots) /\ Len(recorded') <= MaxRecords
      /\ \A i \in DOMAIN recorded' : Follows(recorded'[i], edges)
  <2>1. CASE recorded' = Append(recorded, pinned[a])
    <3>1. /\ Len(recorded) \in Nat /\ Len(recorded') = Len(recorded) + 1
          /\ recorded' \in Seq(Snapshots)
      BY <1>1, <2>1
    <3>2. \A i \in DOMAIN recorded' : recorded'[i] = pinned[a] \/ (i \in DOMAIN recorded /\ recorded'[i] = recorded[i])
      BY <1>1, <2>1
    <3>3. Len(recorded') <= MaxRecords
      BY <1>1, <3>1, RecordsAssumption
    <3> QED
      BY <1>1, <3>1, <3>2, <3>3
  <2>2. CASE recorded' = recorded
    <3>1. Len(recorded) <= MaxRecords
      BY DEF RecordsIInv, RecordsTypeOK
    <3> QED
      BY <1>1, <2>2, <3>1
  <2> QED
    BY <2>1, <2>2 DEF RecordAnalysis
<1>3. /\ pinned' = [pinned EXCEPT ![a] = Nothing] /\ recording' = [recording EXCEPT ![a] = "idle"]
      /\ UNCHANGED <<edges, kept, adding, expected>>
  BY DEF RecordAnalysis, Return
<1> QED
  BY <1>2, <1>3, AnalystStep DEF RecordsIInv, RecordsTypeOK

\* Every step keeps the invariant.
LEMMA StepRecordsIInv ==
  ASSUME RecordsIInv, now \in 1 .. MaxTime,
         [(RecordsNext /\ UNCHANGED now) \/ (Tick /\ UNCHANGED recordsVars)]_<<recordsVars, now>>
  PROVE  RecordsIInv' /\ now' \in 1 .. MaxTime
<1>1. now' \in 1 .. MaxTime /\ now <= now'
  BY ClockAssumption DEF Tick
<1>2. CASE RecordsNext /\ UNCHANGED now
  <2>1. CASE \E e \in Edges, t \in Offers, s \in SUBSET Statements : DeclareDependency(e, t, s)
    BY <1>2, <2>1, DeclareKeeps
  <2>2. CASE \E e \in Edges : \/ AddDeclaredAssumption(e) \/ AbandonDeclaration(e) \/ DeprecateEdge(e)
                             \/ \E s \in Statements : AddAssumption(e, s)
    BY <1>2, <2>2, EdgeActionsKeep
  <2>3. CASE \E a \in Analysts : \/ \E d \in Diffs : ComputeAnalysis(a, d)
                                \/ CheckAnalysis(a) \/ ReadProposalVersion(a) \/ RecordAnalysis(a)
    BY <1>2, <2>3, ComputeKeeps, CheckKeeps, ReadProposalKeeps, RecordKeeps
  <2>4. RecordsIInv'
    BY <1>2, <2>1, <2>2, <2>3 DEF RecordsNext
  <2> QED
    BY <1>1, <2>4
<1>3. CASE UNCHANGED recordsVars
  <2>1. EdgesInTime'
    <3>1. Declared' = Declared
      BY <1>3 DEF recordsVars, Declared
    <3>2. \A e \in Declared : edges[e].confirmedAt \in Nat
      BY ClockAssumption DEF Declared, RecordsIInv, RecordsTypeOK, Edge
    <3>3. \A e \in Declared : edges[e].confirmedAt <= now'
      BY <1>1, <3>2, ClockAssumption DEF RecordsIInv, EdgesInTime
    <3> QED
      BY <1>3, <3>1, <3>3 DEF recordsVars, RecordsIInv, EdgesInTime
  <2>2. RecordsTypeOK' /\ SnapshotsFollow'
    BY <1>3 DEF recordsVars, RecordsIInv, RecordsTypeOK, SnapshotsFollow
  <2> QED
    BY <1>1, <2>1, <2>2 DEF RecordsIInv
<1> QED
  BY <1>2, <1>3

\* The inductive invariant of declarations and analyses.
LEMMA RecordsInvariance == RecordsSpec => [](RecordsIInv /\ now \in 1 .. MaxTime)
<1> DEFINE Step == (RecordsNext /\ UNCHANGED now) \/ (Tick /\ UNCHANGED recordsVars)
<1>1. RecordsIInv /\ now \in 1 .. MaxTime /\ [Step]_<<recordsVars, now>>
        => (RecordsIInv /\ now \in 1 .. MaxTime)'
  BY StepRecordsIInv
<1> QED
  BY InitRecordsIInv, <1>1, PTL DEF RecordsSpec

\* The latest analysis, as long as it is not reported as stale, tells of every consumer
\* what an analysis would tell now; two declarations at the same time excepted.
THEOREM UnstaleIsCurrent == RecordsSpec => []FreshMeansCurrent
<1>1. RecordsIInv => FreshMeansCurrent
  <2> SUFFICES ASSUME RecordsIInv, recorded # <<>>, ~StaleAnalysis(Latest), NEW e \in Declared
               PROVE  \/ edges[e].again
                      \/ Latest.impacts[e] = AnalyzeConsumer(Latest.findings, edges[e].terms)
    BY DEF FreshMeansCurrent
  <2>1. recorded \in Seq(Snapshots) /\ edges[e] \in Edge
    BY DEF RecordsIInv, RecordsTypeOK, Declared
  <2>2. Latest \in Snapshots /\ Follows(Latest, edges)
    <3>1. Len(recorded) \in DOMAIN recorded
      BY <2>1
    <3> QED
      BY <2>1, <3>1 DEF Latest, RecordsIInv, SnapshotsFollow
  <2>3. e \in DOMAIN Latest.signature /\ ~(edges[e].confirmedAt > Latest.signature[e])
    BY DEF StaleAnalysis
  <2>4. Latest.signature[e] \in Nat /\ edges[e].confirmedAt \in Nat
    BY <2>1, <2>2, <2>3, SnapshotShape, ClockAssumption DEF Edge
  <2>5. /\ Latest.signature[e] <= edges[e].confirmedAt
        /\ Latest.signature[e] = edges[e].confirmedAt =>
             \/ edges[e].again
             \/ Latest.impacts[e] = AnalyzeConsumer(Latest.findings, edges[e].terms)
    BY <2>2, <2>3 DEF Follows
  <2>6. Latest.signature[e] = edges[e].confirmedAt
    BY <2>3, <2>4, <2>5
  <2> QED
    BY <2>5, <2>6
<1> QED
  BY <1>1, RecordsInvariance, PTL

\* Every state of the records is of the types given.
THEOREM RecordTypes == RecordsSpec => []RecordsTypeOK
<1>1. RecordsIInv => RecordsTypeOK
  BY DEF RecordsIInv
<1> QED
  BY <1>1, RecordsInvariance, PTL
-----------------------------------------------------------------------------
(* Evidence and the gate.                                                   *)

\* What an outcome that meets a requirement says of the evidence.
MetByEvidence(r) ==
  /\ Outcome(r) = "passed" <=>
       \E e \in evidence : Matches(e, r) /\ ~EvidenceStale(e) /\ e.status = "passed"
  /\ Outcome(r) = "waived" <=>
       /\ \A e \in evidence : Matches(e, r) =>
            ~EvidenceStale(e) /\ e.status \notin {"passed", "failed"}
       /\ \E e \in evidence : Waives(e, r) /\ ~EvidenceStale(e)

\* What the gate takes a requirement for, in terms of the pieces of evidence.
LEMMA MetBy == \A r : MetByEvidence(r)
<1> SUFFICES ASSUME NEW r PROVE MetByEvidence(r)
  OBVIOUS
<1> DEFINE matching == {e \in evidence : Matches(e, r)}
           current  == {e \in matching : ~EvidenceStale(e)}
           result   == {e.status : e \in current}
           waived   == \E e \in evidence : Waives(e, r) /\ ~EvidenceStale(e)
<1>1. Outcome(r) = IF "passed" \in result THEN "passed"
                   ELSE IF "failed" \in result THEN "failed"
                   ELSE IF matching # current THEN "stale"
                   ELSE IF waived THEN "waived" ELSE "missing"
  BY DEF Outcome
<1>2. \A s : s \in result <=> \E e \in evidence : Matches(e, r) /\ ~EvidenceStale(e) /\ e.status = s
  OBVIOUS
<1>3. matching = current <=> \A e \in evidence : Matches(e, r) => ~EvidenceStale(e)
  OBVIOUS
<1>4. /\ Outcome(r) = "passed" <=> "passed" \in result
      /\ Outcome(r) = "waived" <=>
           "passed" \notin result /\ "failed" \notin result /\ matching = current /\ waived
  <2> HIDE DEF result, matching, current, waived
  <2> QED
    BY <1>1
<1>5. (\A e \in evidence : Matches(e, r) => ~EvidenceStale(e)) =>
        (("passed" \notin result /\ "failed" \notin result) <=>
           \A e \in evidence : Matches(e, r) => e.status \notin {"passed", "failed"})
  BY <1>2
<1> HIDE DEF result, matching, current
<1>6. Outcome(r) = "passed" <=>
        \E e \in evidence : Matches(e, r) /\ ~EvidenceStale(e) /\ e.status = "passed"
  BY <1>2, <1>4
<1>7. Outcome(r) = "waived" <=>
        /\ \A e \in evidence : Matches(e, r) =>
             ~EvidenceStale(e) /\ e.status \notin {"passed", "failed"}
        /\ \E e \in evidence : Waives(e, r) /\ ~EvidenceStale(e)
  BY <1>3, <1>4, <1>5
<1> QED
  BY <1>6, <1>7 DEF MetByEvidence

\* What is stale stays stale as time passes.
LEMMA StaleStays ==
  ASSUME GateTypeOK, now \in 1 .. MaxTime, Tick, UNCHANGED gateVars, NEW e \in evidence,
         EvidenceStale(e)
  PROVE  EvidenceStale(e)'
<1>1. e.expires \in Nat /\ MaxTime \in Nat
  BY ClockAssumption DEF GateTypeOK, Evidence, Never
<1> QED
  BY <1>1 DEF Tick, gateVars, EvidenceStale

\* The types, and the time, of every state.
GateIInv == GateTypeOK /\ now \in 1 .. MaxTime

\* The invariant of the gate holds initially,
LEMMA InitGateIInv == GateInit /\ ClockInit => GateIInv
BY ClockAssumption DEF GateInit, ClockInit, GateIInv, GateTypeOK

\* is kept by every step,
LEMMA StepGateIInv ==
  ASSUME GateIInv, [(GateNext /\ UNCHANGED now) \/ (Tick /\ UNCHANGED gateVars)]_<<gateVars, now>>
  PROVE  GateIInv'
<1> USE DEF GateIInv, GateTypeOK
<1>1. ASSUME NEW kind \in RequiredKinds, NEW status \in Statuses, NEW rev \in Revisions,
             NEW expires \in 1 .. Never, NEW consumer \in Consumers \cup {Nobody},
             AttachEvidence(kind, status, rev, expires, consumer)
      PROVE  GateTypeOK'
  BY <1>1 DEF AttachEvidence, Evidence
<1>2. ASSUME NEW kind \in RequiredKinds \cup {"waiver"}, NEW rev \in Revisions,
             NEW expires \in 1 .. MaxTime, NEW reason \in BOOLEAN, NEW human \in BOOLEAN,
             GrantWaiver(kind, rev, expires, reason, human)
      PROVE  GateTypeOK'
  <2>1. expires \in 1 .. Never /\ kind \in RequiredKinds
    BY <1>2, ClockAssumption DEF Never, GrantWaiver
  <2>2. [kind |-> "waiver", status |-> "waived", revision |-> rev, expires |-> expires,
         consumer |-> Nobody, waives |-> kind] \in Evidence
    BY <2>1 DEF Evidence, Statuses
  <2> QED
    BY <1>2, <2>2 DEF GrantWaiver
<1>3. ASSUME NewRevision PROVE GateTypeOK'
  BY <1>3 DEF NewRevision
<1>4. ASSUME UNCHANGED gateVars PROVE GateTypeOK'
  BY <1>4 DEF gateVars
<1>5. GateTypeOK'
  BY <1>1, <1>2, <1>3, <1>4 DEF GateNext
<1>6. now' \in 1 .. MaxTime
  BY ClockAssumption DEF Tick
<1> QED
  BY <1>5, <1>6

\* and so always.
LEMMA GateInvariance == GateSpec => []GateIInv
<1>1. GateIInv /\ [(GateNext /\ UNCHANGED now) \/ (Tick /\ UNCHANGED gateVars)]_<<gateVars, now>>
        => GateIInv'
  BY StepGateIInv
<1> QED
  BY InitGateIInv, <1>1, PTL DEF GateSpec

\* A requirement that is not met, and none of whose evidence changes, is not met later:
\* evidence that expires takes part neither as a success nor as the end of a failure.
THEOREM TimeNeverOpens == GateSpec => ExpiryNeverOpens
<1> DEFINE Step == (GateNext /\ UNCHANGED now) \/ (Tick /\ UNCHANGED gateVars)
<1>1. (\A r : MetByEvidence(r))'
  BY MetBy, PTL
<1>2. ASSUME GateIInv, [Step]_<<gateVars, now>>, UNCHANGED gateVars, NEW r \in Requirements,
             Outcome(r)' \in {"passed", "waived"}
      PROVE  Outcome(r) \in {"passed", "waived"}
  <2>1. UNCHANGED now \/ Tick
    BY <1>2
  <2>2. evidence' = evidence /\ revision' = revision
    BY <1>2 DEF gateVars
  <2>3. CASE UNCHANGED now
    BY <1>2, <2>2, <2>3 DEF Outcome, EvidenceStale, Matches, Waives
  <2>4. CASE Tick
    <3>1. \A e \in evidence : ~EvidenceStale(e)' => ~EvidenceStale(e)
      BY <1>2, <2>4, StaleStays DEF GateIInv
    <3>2. \A e : (Matches(e, r)' <=> Matches(e, r)) /\ (Waives(e, r)' <=> Waives(e, r))
      BY DEF Matches, Waives
    <3>3. MetByEvidence(r) /\ MetByEvidence(r)'
      BY <1>1, MetBy
    <3>4. CASE Outcome(r)' = "passed"
      <4>1. PICK e \in evidence : Matches(e, r)' /\ ~EvidenceStale(e)' /\ e.status = "passed"
        BY <2>2, <3>3, <3>4 DEF MetByEvidence
      <4> QED
        BY <3>1, <3>2, <3>3, <4>1 DEF MetByEvidence
    <3>5. CASE Outcome(r)' = "waived"
      <4>1. \A e \in evidence : Matches(e, r)' =>
              ~EvidenceStale(e)' /\ e.status \notin {"passed", "failed"}
        BY <2>2, <3>3, <3>5 DEF MetByEvidence
      <4>2. PICK e \in evidence : Waives(e, r)' /\ ~EvidenceStale(e)'
        BY <2>2, <3>3, <3>5 DEF MetByEvidence
      <4> QED
        BY <3>1, <3>2, <3>3, <4>1, <4>2 DEF MetByEvidence
    <3> QED
      BY <1>2, <3>4, <3>5
  <2> QED
    BY <2>1, <2>3, <2>4
<1>3. GateIInv /\ [Step]_<<gateVars, now>> =>
        [UNCHANGED gateVars =>
           \A r \in Requirements : Outcome(r)' \in {"passed", "waived"} =>
                                   Outcome(r) \in {"passed", "waived"}]_<<gateVars, now>>
  BY <1>2
<1> QED
  BY <1>3, GateInvariance, PTL DEF GateSpec, ExpiryNeverOpens

\* The gate and the readiness of consumers tell the same of every consumer's test.
THEOREM TwoReadingsAgree == GateSpec => []ReadinessAgreesWithGate
<1>1. ASSUME NEW r \in Requirements, r.kind = "consumer-contract-test"
      PROVE  /\ Readiness(r.scope) = "ready" <=> Outcome(r) = "passed"
             /\ Readiness(r.scope) = "failed" <=> Outcome(r) = "failed"
  <2> DEFINE matching == {e \in evidence : Matches(e, r)}
             result   == {e.status : e \in {f \in matching : ~EvidenceStale(f)}}
  <2>1. r.scope # "contract"
    BY <1>1, GateAssumption DEF Requirements, Requirement
  <2>2. matching = {e \in evidence : e.kind = "consumer-contract-test" /\ e.consumer = r.scope}
    BY <1>1, <2>1 DEF Matches
  <2>3. Readiness(r.scope) = IF "passed" \in result THEN "ready"
                             ELSE IF "failed" \in result THEN "failed"
                             ELSE IF matching # {} THEN "stale" ELSE "missing"
    BY <2>2 DEF Readiness
  <2>4. /\ Outcome(r) = "passed" <=> "passed" \in result
        /\ Outcome(r) = "failed" <=> "passed" \notin result /\ "failed" \in result
    BY DEF Outcome
  <2> HIDE DEF result, matching
  <2> QED
    BY <2>3, <2>4
<1>2. ReadinessAgreesWithGate
  BY <1>1 DEF ReadinessAgreesWithGate
<1> QED
  BY <1>2, PTL
-----------------------------------------------------------------------------
(* The catalogue.                                                           *)

LEMMA InitCatalogIInv == CatalogInit => CatalogIInv
  BY DEF CatalogInit, CatalogIInv, CatalogTypeOK, AppendedIsStored, ImportsAreRooted

\* An event of a source is of one of five kinds, and names the source.
LEMMA EventsOfSource ==
  ASSUME NEW s, NEW e \in Events(s)
  PROVE  /\ e.source = s
         /\ \/ e = ContractEvent(s)
            \/ e = VersionEvent(s)
            \/ \E o \in ParsedOf[s] : e = OperationEvent(s, o)
            \/ \E o \in ParsedOf[s] : \E role \in RolesOf[o] : e = SchemaEvent(s, o, role)
            \/ e = FailureEvent(s) /\ s \in Skipping
<1>1. \/ e \in {ContractEvent(s), VersionEvent(s)}
      \/ e \in {OperationEvent(s, o) : o \in ParsedOf[s]}
      \/ e \in UNION {{SchemaEvent(s, o, role) : role \in RolesOf[o]} : o \in ParsedOf[s]}
      \/ e \in (IF s \in Skipping THEN {FailureEvent(s)} ELSE {})
  BY DEF Events
<1>2. \/ e = ContractEvent(s)
      \/ e = VersionEvent(s)
      \/ \E o \in ParsedOf[s] : e = OperationEvent(s, o)
      \/ \E o \in ParsedOf[s] : \E role \in RolesOf[o] : e = SchemaEvent(s, o, role)
      \/ e = FailureEvent(s) /\ s \in Skipping
  BY <1>1
<1> QED
  BY <1>2 DEF ContractEvent, VersionEvent, OperationEvent, SchemaEvent, FailureEvent, CatalogEvent

\* What comes next rests on what has been appended.
LEMMA UpcomingIsRooted ==
  ASSUME CatalogIInv, NEW i \in Importers, NEW e \in Upcoming(i)
  PROVE  /\ toImport[i] # {} /\ e \in Events(importing[i]) /\ importing[i] \in ImportSources
         /\ e.type \in {"operation", "schema", "partial-failure"} => VersionEvent(e.source) \in catalog
         /\ e.type = "version" => ContractEvent(e.source) \in catalog
         /\ e.type = "schema" => OperationEvent(e.source, e.of[1]) \in catalog
<1> DEFINE s == importing[i]
<1>1. /\ e \in toImport[i] /\ s \in ImportSources /\ e \in Events(s) /\ e.source = s
      /\ Events(s) \ toImport[i] \subseteq catalog
      /\ \A d \in toImport[i] : /\ Stage(e.type) <= Stage(d.type)
                                /\ e.type = "schema" => d # OperationEvent(e.source, e.of[1])
  BY EventsOfSource DEF CatalogIInv, AppendedIsStored, Upcoming
<1>2. /\ VersionEvent(s) \in Events(s) /\ ContractEvent(s) \in Events(s)
      /\ VersionEvent(s).type = "version" /\ ContractEvent(s).type = "contract"
  BY DEF Events, VersionEvent, ContractEvent, CatalogEvent
<1>3. ASSUME e.type \in {"operation", "schema", "partial-failure"} PROVE VersionEvent(s) \notin toImport[i]
  BY <1>1, <1>2, <1>3 DEF Stage
<1>4. ASSUME e.type = "version" PROVE ContractEvent(s) \notin toImport[i]
  BY <1>1, <1>2, <1>4 DEF Stage
<1>5. ASSUME e.type = "schema" PROVE OperationEvent(s, e.of[1]) \in Events(s) \ toImport[i]
  <2>1. PICK o \in ParsedOf[s] : \E role \in RolesOf[o] : e = SchemaEvent(s, o, role)
    BY <1>1, <1>5, EventsOfSource DEF ContractEvent, VersionEvent, OperationEvent, FailureEvent, CatalogEvent
  <2>2. e.of[1] = o
    BY <2>1 DEF SchemaEvent, CatalogEvent
  <2>3. OperationEvent(s, o) \in Events(s)
    BY DEF Events
  <2> QED
    BY <1>1, <1>5, <2>2, <2>3
<1> QED
  BY <1>1, <1>2, <1>3, <1>4, <1>5

\* The events of a source say that its import is complete.
LEMMA CompleteImport ==
  ASSUME NEW s, NEW stored, Events(s) \subseteq stored
  PROVE  /\ \A o \in ParsedOf[s] : \A role \in RolesOf[o] : SchemaEvent(s, o, role) \in stored
         /\ \A o \in ParsedOf[s] : OperationEvent(s, o) \in stored
         /\ s \in Skipping => FailureEvent(s) \in stored
<1>1. /\ {OperationEvent(s, o) : o \in ParsedOf[s]} \subseteq stored
      /\ UNION {{SchemaEvent(s, o, role) : role \in RolesOf[o]} : o \in ParsedOf[s]} \subseteq stored
      /\ (IF s \in Skipping THEN {FailureEvent(s)} ELSE {}) \subseteq stored
  BY DEF Events
<1> QED
  BY <1>1

\* Storing an event that rests on what is stored, and recording what is complete.
LEMMA StoringKeepsRoots ==
  ASSUME ImportsAreRooted, catalog \subseteq catalog',
         \A e \in catalog' \ catalog :
           /\ e.type \in {"operation", "schema", "partial-failure"} => VersionEvent(e.source) \in catalog
           /\ e.type = "version" => ContractEvent(e.source) \in catalog
           /\ e.type = "schema" => OperationEvent(e.source, e.of[1]) \in catalog,
         \A s \in imported' \ imported : Events(s) \subseteq catalog'
  PROVE  ImportsAreRooted'
<1>1. \A e \in catalog' :
        /\ e.type \in {"operation", "schema", "partial-failure"} => VersionEvent(e.source) \in catalog'
        /\ e.type = "version" => ContractEvent(e.source) \in catalog'
        /\ e.type = "schema" => OperationEvent(e.source, e.of[1]) \in catalog'
  BY DEF ImportsAreRooted
<1>2. ASSUME NEW s \in imported'
      PROVE  /\ \A o \in ParsedOf[s] : \A role \in RolesOf[o] : SchemaEvent(s, o, role) \in catalog'
             /\ \A o \in ParsedOf[s] : OperationEvent(s, o) \in catalog'
             /\ s \in Skipping => FailureEvent(s) \in catalog'
  <2>1. CASE s \in imported
    BY <2>1 DEF ImportsAreRooted
  <2>2. CASE s \notin imported
    BY <1>2, <2>2, CompleteImport
  <2> QED
    BY <2>1, <2>2
<1> QED
  BY <1>1, <1>2 DEF ImportsAreRooted

\* Every step of an import keeps what is stored rooted.
LEMMA StepCatalogIInv == CatalogIInv /\ [CatalogNext]_catalogVars => CatalogIInv'
<1> SUFFICES ASSUME CatalogIInv, [CatalogNext]_catalogVars PROVE CatalogIInv'
  OBVIOUS
<1>t. CatalogTypeOK /\ AppendedIsStored /\ ImportsAreRooted
  BY DEF CatalogIInv
<1>1. ASSUME NEW service \in Services, RegisterService(service) PROVE CatalogIInv'
  <2> DEFINE new == CatalogEvent("service", "none", service)
  <2>1. /\ catalog' = catalog \cup {new} /\ new.type = "service"
        /\ UNCHANGED <<toImport, importing, imported>>
    BY <1>1 DEF RegisterService, CatalogEvent
  <2>2. ImportsAreRooted'
    BY <1>t, <2>1, StoringKeepsRoots
  <2> QED
    BY <1>t, <2>1, <2>2 DEF CatalogIInv, CatalogTypeOK, AppendedIsStored
<1>2. ASSUME NEW i \in Importers, NEW s \in ImportSources, BeginImport(i, s) PROVE CatalogIInv'
  <2>1. /\ toImport' = [toImport EXCEPT ![i] = Events(s)]
        /\ importing' = [importing EXCEPT ![i] = s] /\ UNCHANGED <<catalog, imported>>
    BY <1>2 DEF BeginImport
  <2>2. CatalogTypeOK'
    BY <1>t, <2>1 DEF CatalogTypeOK
  <2>3. AppendedIsStored'
    BY <1>t, <2>1 DEF CatalogTypeOK, AppendedIsStored
  <2>4. ImportsAreRooted'
    BY <1>t, <2>1 DEF ImportsAreRooted
  <2> QED
    BY <2>2, <2>3, <2>4 DEF CatalogIInv
<1>3. ASSUME NEW i \in Importers, NEW e \in Upcoming(i), AppendImported(i, e) PROVE CatalogIInv'
  <2>1. /\ catalog' = catalog \cup {e} /\ toImport' = [toImport EXCEPT ![i] = @ \ {e}]
        /\ imported' = imported \cup IF toImport[i] = {e} THEN {importing[i]} ELSE {}
        /\ importing' = importing
    BY <1>3 DEF AppendImported
  <2>2. CatalogTypeOK'
    BY <1>t, <2>1, UpcomingIsRooted DEF CatalogTypeOK
  <2>3. AppendedIsStored'
    BY <1>t, <2>1 DEF CatalogTypeOK, AppendedIsStored
  <2>4. \A s \in imported' \ imported : Events(s) \subseteq catalog'
    BY <1>t, <2>1, UpcomingIsRooted DEF AppendedIsStored
  <2>5. ImportsAreRooted'
    BY <1>t, <2>1, <2>4, UpcomingIsRooted, StoringKeepsRoots
  <2> QED
    BY <2>2, <2>3, <2>5 DEF CatalogIInv
<1>4. ASSUME NEW i \in Importers, NEW e \in Upcoming(i), BreakOff(i, e) PROVE CatalogIInv'
  <2>1. /\ toImport' = [toImport EXCEPT ![i] = {}] /\ catalog' \in {catalog, catalog \cup {e}}
        /\ UNCHANGED <<importing, imported>>
    BY <1>4 DEF BreakOff
  <2>2. CatalogTypeOK'
    BY <1>t, <2>1 DEF CatalogTypeOK
  <2>3. AppendedIsStored'
    BY <1>t, <2>1 DEF CatalogTypeOK, AppendedIsStored
  <2>4. ImportsAreRooted'
    BY <1>t, <2>1, UpcomingIsRooted, StoringKeepsRoots
  <2> QED
    BY <2>2, <2>3, <2>4 DEF CatalogIInv
<1>5. CASE UNCHANGED catalogVars
  BY <1>t, <1>5 DEF catalogVars, CatalogIInv, CatalogTypeOK, AppendedIsStored, ImportsAreRooted
<1> QED
  BY <1>1, <1>2, <1>3, <1>4, <1>5 DEF CatalogNext

\* The inductive invariant of the catalogue.
LEMMA CatalogInvariance == CatalogSpec => []CatalogIInv
  BY InitCatalogIInv, StepCatalogIInv, PTL DEF CatalogSpec

\* Whatever imports run beside each other, fail half-way and are made again, what is in the
\* catalogue rests on what it belongs to, and an import that returned is complete.
THEOREM ImportsStayRooted == CatalogSpec => []ImportsAreRooted
  BY CatalogInvariance, PTL DEF CatalogIInv
-----------------------------------------------------------------------------
(* Notifications.                                                          *)

\* There are m numbers up to m.
LEMMA NumbersUpTo ==
  ASSUME NEW m \in Nat
  PROVE  IsFiniteSet(1 .. m) /\ Cardinality(1 .. m) = m
<1>1. 1 \in Int /\ m \in Int /\ (IF 1 > m THEN 0 ELSE m - 1 + 1) = m
  OBVIOUS
<1> QED
  BY <1>1, FS_Interval

\* The numbers an event is ordered by.
LEMMA NoticeNumbers ==
  ASSUME NoticesTypeOK
  PROVE  /\ Len(notices) \in Nat /\ DOMAIN notices = 1 .. Len(notices)
         /\ \A i \in DOMAIN notices : /\ notices[i] \in NoticeEvents
                                      /\ notices[i].at \in Nat /\ notices[i].version \in Nat
<1>1. Len(notices) \in Nat /\ DOMAIN notices = 1 .. Len(notices)
  BY DEF NoticesTypeOK
<1>2. \A i \in DOMAIN notices : notices[i] \in NoticeEvents
  BY DEF NoticesTypeOK
<1>3. \A n \in NoticeEvents : n.at \in Nat /\ n.version \in Nat
  BY ClockAssumption DEF NoticeEvents
<1> QED
  BY <1>1, <1>2, <1>3

\* The order of events is total.
LEMMA BeforeIsTotal ==
  ASSUME NoticesTypeOK
  PROVE  \A i, j, k \in DOMAIN notices :
           /\ ~(Before(i, j) /\ Before(j, i))
           /\ Before(i, j) \/ Before(j, i) \/ i = j
           /\ Before(i, j) /\ Before(j, k) => Before(i, k)
<1> DEFINE n == Len(notices)
           a(i) == notices[i].at
           v(i) == notices[i].version
<1>1. n \in Nat /\ DOMAIN notices = 1 .. n /\ \A i \in 1 .. n : a(i) \in Nat /\ v(i) \in Nat
  BY NoticeNumbers
<1>2. \A i, j : Before(i, j) <=> \/ a(i) < a(j)
                                 \/ a(i) = a(j) /\ (v(i) < v(j) \/ (v(i) = v(j) /\ i < j))
  BY DEF Before
<1> HIDE DEF a, v, n
<1> SUFFICES ASSUME NEW i \in 1 .. n, NEW j \in 1 .. n, NEW k \in 1 .. n
             PROVE  /\ ~(Before(i, j) /\ Before(j, i))
                    /\ Before(i, j) \/ Before(j, i) \/ i = j
                    /\ Before(i, j) /\ Before(j, k) => Before(i, k)
  BY <1>1
<1>3. /\ i \in Nat /\ j \in Nat /\ k \in Nat
      /\ a(i) \in Nat /\ a(j) \in Nat /\ a(k) \in Nat
      /\ v(i) \in Nat /\ v(j) \in Nat /\ v(k) \in Nat
  BY <1>1
<1> QED
  BY <1>2, <1>3

\* Of any events, one comes first.
LEMMA OneComesFirst ==
  ASSUME NoticesTypeOK, NEW S, S \subseteq DOMAIN notices, S # {}
  PROVE  First(S) \in S /\ \A j \in S \ {First(S)} : Before(First(S), j)
<1> DEFINE HasFirst(T) == \E i \in T : \A j \in T \ {i} : Before(i, j)
           N == {n \in Nat : \A T : T \subseteq DOMAIN notices /\ T \subseteq 1 .. n /\ T # {} => HasFirst(T)}
<1>1. 0 \in N
  OBVIOUS
<1>2. ASSUME NEW n \in Nat, n \in N PROVE n + 1 \in N
  <2> SUFFICES ASSUME NEW T, T \subseteq DOMAIN notices, T \subseteq 1 .. (n + 1), T # {}
               PROVE  HasFirst(T)
    OBVIOUS
  <2> DEFINE U == T \ {n + 1}
  <2>1. CASE U = {}
    BY <2>1
  <2>2. CASE U # {}
    <3>1. U \subseteq DOMAIN notices /\ U \subseteq 1 .. n
      OBVIOUS
    <3>2. HasFirst(U)
      <4> HIDE DEF HasFirst, U
      <4> QED BY <1>2, <2>2, <3>1
    <3>3. PICK i \in U : \A j \in U \ {i} : Before(i, j)
      BY <3>2
    <3>4. CASE n + 1 \in T /\ Before(n + 1, i)
      <4>1. \A j \in T \ {n + 1} : Before(n + 1, j)
        BY <3>3, <3>4, BeforeIsTotal
      <4> QED
        BY <3>4, <4>1
    <3>5. CASE ~(n + 1 \in T /\ Before(n + 1, i))
      <4>1. \A j \in T \ {i} : Before(i, j)
        BY <3>3, <3>5, BeforeIsTotal
      <4> QED
        BY <3>3, <4>1
    <3> QED
      BY <3>4, <3>5
  <2> QED
    BY <2>1, <2>2
<1>3. Nat \subseteq N
  <2> HIDE DEF N
  <2> QED
    BY <1>1, <1>2, SetInduction
<1>4. Len(notices) \in N /\ S \subseteq 1 .. Len(notices)
  BY <1>3, NoticeNumbers
<1>5. HasFirst(S)
  BY <1>4
<1> QED
  BY <1>5 DEF First

NothingSeen == [known |-> <<>>, left |-> DOMAIN notices]

\* f is the folding of the first n events.
Folds(f, n) ==
  f = [m \in 0 .. n |-> IF m = 0 THEN NothingSeen ELSE Consume(f[m - 1])]

\* Such a folding exists for any number.
LEMMA FoldingExists == \A n \in Nat : \E f : Folds(f, n)
<1> DEFINE S == {n \in Nat : \E f : Folds(f, n)}
<1>1. 0 \in S
  <2> DEFINE f == [m \in 0 .. 0 |-> NothingSeen]
  <2>1. f = [m \in 0 .. 0 |-> IF m = 0 THEN NothingSeen ELSE Consume(f[m - 1])]
    OBVIOUS
  <2> QED
    BY <2>1 DEF Folds
<1>2. ASSUME NEW n \in Nat, n \in S PROVE n + 1 \in S
  <2>1. PICK f : Folds(f, n)
    BY <1>2
  <2> DEFINE Next1(h, m) == IF m = 0 THEN NothingSeen ELSE Consume(h[m - 1])
             g == [m \in 0 .. n + 1 |-> IF m <= n THEN f[m] ELSE Consume(f[n])]
  <2>2. \A m \in 0 .. n : f[m] = Next1(f, m)
    <3>1. f = [m \in 0 .. n |-> Next1(f, m)]
      BY <2>1 DEF Folds
    <3> HIDE DEF Next1
    <3> QED
      BY <3>1
  <2>3. (\A m \in 0 .. n : g[m] = f[m]) /\ g[n + 1] = Consume(f[n])
    OBVIOUS
  <2>4. \A m \in 0 .. n + 1 : m # 0 => m - 1 \in 0 .. n /\ g[m - 1] = f[m - 1]
    BY <2>3
  <2>5. g = [m \in 0 .. n + 1 |-> g[m]]
    OBVIOUS
  <2> HIDE DEF g
  <2>6. ASSUME NEW m \in 0 .. n + 1 PROVE g[m] = Next1(g, m)
    <3>1. CASE m = n + 1
      BY <2>3, <2>4, <3>1
    <3>2. CASE m # n + 1
      BY <2>2, <2>3, <2>4, <3>2
    <3> QED
      BY <3>1, <3>2
  <2>7. g = [m \in 0 .. n + 1 |-> Next1(g, m)]
    <3> HIDE DEF Next1
    <3> QED
      BY <2>5, <2>6
  <2> QED
    BY <2>7 DEF Folds
<1>3. Nat \subseteq S
  <2> HIDE DEF S
  <2> QED
    BY <1>1, <1>2, SetInduction
<1> QED
  BY <1>3

\* Folding is what its recursive definition says.
LEMMA FoldingStep ==
  ASSUME NoticesTypeOK
  PROVE  /\ Folding[0] = NothingSeen
         /\ \A n \in 1 .. Len(notices) : Folding[n] = Consume(Folding[n - 1])
<1>1. Len(notices) \in Nat
  BY NoticeNumbers
<1>2. \E f : Folds(f, Len(notices))
  BY <1>1, FoldingExists
<1>3. Folding = CHOOSE f : Folds(f, Len(notices))
  BY DEF Folding, Folds, NothingSeen
<1>4. Folds(Folding, Len(notices))
  BY <1>2, <1>3
<1> DEFINE h == Folding
           Next1(m) == IF m = 0 THEN NothingSeen ELSE Consume(h[m - 1])
<1>5. h = [m \in 0 .. Len(notices) |-> Next1(m)]
  BY <1>4 DEF Folds
<1> HIDE DEF h
<1>6. \A m \in 0 .. Len(notices) : h[m] = Next1(m)
  <2> HIDE DEF Next1
  <2> QED
    BY <1>5
<1>7. 0 \in 0 .. Len(notices) /\ \A m \in 1 .. Len(notices) : m \in 0 .. Len(notices) /\ m # 0
  BY <1>1
<1> QED
  BY <1>6, <1>7 DEF h

Dispatches(i, k) == notices[i].type = "dispatched" /\ notices[i].key = k

Alters(i, k) == notices[i].type = "changed" /\ notices[i].key = k

Notification ==
  [id : Nat, key : NoticeKeys, to : Parties, deadline : 0 .. MaxTime,
   status : Changes \cup {"unread"}, until : 0 .. MaxTime, occurrences : Nat]

\* What n says is true of its key k, as far as the events in 'done' go.
Tells(n, k, done) ==
  /\ n.key = k
  /\ \E i \in done : /\ Dispatches(i, k)
                     /\ n.id = notices[i].id /\ n.to = notices[i].to /\ n.deadline = notices[i].deadline
  /\ \/ n.status = "unread" /\ \A i \in done : ~Alters(i, k)
     \/ \E i \in done : /\ Alters(i, k) /\ n.status = notices[i].status
                        /\ \A j \in done : Alters(j, k) => j = i \/ Before(j, i)
  /\ n.until = 0 \/ \E i \in done : Alters(i, k) /\ n.until = notices[i].until

\* The keys that are dispatched in 'done'.
DispatchedIn(done) == {notices[i].key : i \in {j \in done : notices[j].type = "dispatched"}}

\* What is known of 'done' when 'left' is left.
Understood(known, left, done) ==
  /\ left \cup done = DOMAIN notices /\ left \cap done = {}
  /\ \A i \in done, j \in left : Before(i, j)
  /\ known \in [DispatchedIn(done) -> Notification]
  /\ \A k \in DispatchedIn(done) : Tells(known[k], k, done)

\* An event that changes nothing about k makes nothing untrue of k.
LEMMA TellsOn ==
  ASSUME NEW n, NEW k, NEW done, NEW e, Tells(n, k, done), ~Alters(e, k)
  PROVE  Tells(n, k, done \cup {e})
BY DEF Tells

\* A change comes after a dispatch of its key.
LEMMA DispatchComesFirst ==
  ASSUME NoticesTypeOK, StoredInOrder, ChangesFollow, NEW i \in DOMAIN notices, notices[i].type = "changed"
  PROVE  \E j \in DOMAIN notices : /\ Dispatches(j, notices[i].key) /\ notices[j].id = notices[i].id
                                  /\ Before(j, i)
<1>1. PICK j \in 1 .. (i - 1) : /\ notices[j].type = "dispatched"
                               /\ notices[j].key = notices[i].key /\ notices[j].id = notices[i].id
  BY DEF ChangesFollow
<1>2. j \in DOMAIN notices /\ j < i
  BY NoticeNumbers
<1>3. notices[j].at <= notices[i].at /\ notices[j].version < notices[i].version
  BY <1>1, <1>2 DEF StoredInOrder
<1>4. notices[j].at < notices[i].at \/ notices[j].at = notices[i].at
  BY <1>2, <1>3, NoticeNumbers
<1> QED
  BY <1>1, <1>2, <1>3, <1>4 DEF Before, Dispatches

\* What is known goes on being true when the first event left is folded into it.
LEMMA ConsumeUnderstands ==
  ASSUME NoticesTypeOK, StoredInOrder, ChangesFollow,
         NEW known, NEW left, NEW done, Understood(known, left, done), left # {}
  PROVE  LET e == First(left)
         IN  e \in left /\ Understood(Fold(known, notices[e]), left \ {e}, done \cup {e})
<1> DEFINE e == First(left)
           n == notices[e]
           K == DispatchedIn(done)
           more == done \cup {e}
<1>1. /\ left \subseteq DOMAIN notices /\ done \subseteq DOMAIN notices
      /\ left \cup done = DOMAIN notices /\ left \cap done = {}
      /\ \A i \in done, j \in left : Before(i, j)
      /\ known \in [K -> Notification] /\ DOMAIN known = K
      /\ \A k \in K : Tells(known[k], k, done)
  BY DEF Understood
<1>2. e \in left /\ \A j \in left \ {e} : Before(e, j)
  BY <1>1, OneComesFirst
<1>3. e \in DOMAIN notices /\ e \notin done /\ n \in NoticeEvents
  BY <1>1, <1>2, NoticeNumbers
<1> HIDE DEF e
<1>4. /\ (left \ {e}) \cup more = DOMAIN notices /\ (left \ {e}) \cap more = {}
      /\ \A i \in more, j \in left \ {e} : Before(i, j)
  BY <1>1, <1>2
<1>5. \A i \in done : Before(i, e)
  BY <1>1, <1>2
<1>6. ASSUME NEW i \in more, notices[i].type = "changed" PROVE notices[i].key \in K
  <2>1. PICK j \in DOMAIN notices : Dispatches(j, notices[i].key) /\ Before(j, i)
    BY <1>1, <1>3, <1>6, DispatchComesFirst
  <2>2. j \in done
    BY <1>1, <1>2, <1>3, <1>5, <2>1, BeforeIsTotal
  <2> QED
    BY <2>1, <2>2 DEF DispatchedIn, Dispatches
<1>7. n.type = "dispatched" \/ n.type = "changed"
  BY <1>3 DEF NoticeEvents
<1>8. CASE n.type = "dispatched" /\ n.key \notin K
  <2>1. DispatchedIn(more) = K \cup {n.key}
    BY <1>8 DEF DispatchedIn
  <2> DEFINE now1 == [k \in K \cup {n.key} |-> IF k = n.key THEN Fresh(n) ELSE known[k]]
  <2>2. Fold(known, n) = now1
    BY <1>1, <1>8 DEF Fold
  <2>3. Fresh(n) \in Notification
    BY <1>3, ClockAssumption DEF Fresh, Notification, NoticeEvents
  <2>4. now1 \in [K \cup {n.key} -> Notification]
    BY <1>1, <2>3
  <2>5. Tells(Fresh(n), n.key, more)
    <3>1. \A i \in more : ~Alters(i, n.key)
      BY <1>6, <1>8 DEF Alters
    <3> QED
      BY <1>8, <3>1 DEF Tells, Fresh, Dispatches
  <2>6. \A k \in K : Tells(known[k], k, more)
    BY <1>1, <1>8, TellsOn DEF Alters
  <2>7. \A k \in K \cup {n.key} : Tells(now1[k], k, more)
    BY <1>8, <2>5, <2>6
  <2> QED
    BY <1>2, <1>4, <2>1, <2>2, <2>4, <2>7 DEF Understood, e
<1>9. CASE n.type = "dispatched" /\ n.key \in K
  <2>1. DispatchedIn(more) = K
    BY <1>9 DEF DispatchedIn
  <2> DEFINE again == [known[n.key] EXCEPT !.occurrences = @ + 1]
             now1 == [known EXCEPT ![n.key] = again]
  <2>2. Fold(known, n) = now1
    BY <1>1, <1>9 DEF Fold
  <2>3. known[n.key] \in Notification
    BY <1>1, <1>9
  <2>4. /\ again \in Notification
        /\ again.id = known[n.key].id /\ again.key = known[n.key].key /\ again.to = known[n.key].to
        /\ again.deadline = known[n.key].deadline /\ again.status = known[n.key].status
        /\ again.until = known[n.key].until
    BY <2>3 DEF Notification
  <2> HIDE DEF again
  <2>5. now1 \in [K -> Notification]
    BY <1>1, <2>4
  <2>6. \A k \in K : Tells(known[k], k, more)
    BY <1>1, <1>9, TellsOn DEF Alters
  <2>7. Tells(again, n.key, more)
    <3>1. Tells(known[n.key], n.key, more)
      BY <1>9, <2>6
    <3> QED
      BY <2>4, <3>1 DEF Tells
  <2>8. \A k \in K : Tells(now1[k], k, more)
    BY <1>1, <2>6, <2>7
  <2> QED
    BY <1>2, <1>4, <2>1, <2>2, <2>5, <2>8 DEF Understood, e
<1>10. CASE n.type = "changed"
  <2>1. DispatchedIn(more) = K /\ n.key \in K
    BY <1>6, <1>10 DEF DispatchedIn
  <2> DEFINE old == known[n.key]
             until == IF n.until # 0 THEN n.until ELSE IF n.status = "snoozed" THEN old.until ELSE 0
             new == [old EXCEPT !.status = n.status, !.until = until]
             now1 == [known EXCEPT ![n.key] = new]
  <2>2. Fold(known, n) = now1
    BY <1>1, <1>10, <2>1 DEF Fold
  <2>3. old \in Notification /\ Tells(old, n.key, done)
    BY <1>1, <2>1
  <2>4. until \in 0 .. MaxTime
    BY <1>3, <2>3, ClockAssumption DEF Notification, NoticeEvents
  <2>5. until = n.until \/ until = old.until \/ until = 0
    OBVIOUS
  <2> HIDE DEF until
  <2>6. /\ new \in Notification
        /\ new.id = old.id /\ new.key = old.key /\ new.to = old.to /\ new.deadline = old.deadline
        /\ new.status = n.status /\ new.until = until
    BY <1>3, <2>3, <2>4 DEF Notification, NoticeEvents
  <2> HIDE DEF new
  <2>7. now1 \in [K -> Notification]
    BY <1>1, <2>6
  <2>8. Tells(new, n.key, more)
    <3>1. Alters(e, n.key)
      BY <1>10 DEF Alters
    <3>2. \A j \in more : j = e \/ Before(j, e)
      BY <1>5
    <3>3. new.until = 0 \/ \E i \in more : Alters(i, n.key) /\ new.until = notices[i].until
      BY <2>3, <2>5, <2>6, <3>1 DEF Tells
    <3> QED
      BY <2>3, <2>6, <3>1, <3>2, <3>3 DEF Tells
  <2>9. \A k \in K \ {n.key} : Tells(known[k], k, more)
    BY <1>1, TellsOn DEF Alters
  <2>10. \A k \in K : Tells(now1[k], k, more)
    BY <1>1, <2>8, <2>9
  <2> QED
    BY <1>2, <1>4, <2>1, <2>2, <2>7, <2>10 DEF Understood, e
<1> QED
  BY <1>7, <1>8, <1>9, <1>10

\* Everything that is stored is folded, and what is known of it is true.
LEMMA FoldedIsTrue ==
  ASSUME NoticesTypeOK, StoredInOrder, ChangesFollow
  PROVE  Understood(NotificationsFrom, {}, DOMAIN notices)
<1> DEFINE n == Len(notices)
           Right(m) == /\ Understood(Folding[m].known, Folding[m].left, DOMAIN notices \ Folding[m].left)
                       /\ IsFiniteSet(Folding[m].left) /\ Cardinality(Folding[m].left) = n - m
           S == {m \in Nat : m <= n => Right(m)}
<1>1. n \in Nat /\ DOMAIN notices = 1 .. n
  BY NoticeNumbers
<1>2. IsFiniteSet(1 .. n) /\ Cardinality(1 .. n) = n
  <2> HIDE DEF n
  <2> QED
    BY <1>1, NumbersUpTo
<1>3. 0 \in S
  <2>1. Folding[0].known = <<>> /\ Folding[0].left = DOMAIN notices
    BY FoldingStep DEF NothingSeen
  <2>2. DispatchedIn({}) = {} /\ DOMAIN notices \ DOMAIN notices = {} /\ <<>> \in [{} -> Notification]
    BY DEF DispatchedIn
  <2>3. Understood(<<>>, DOMAIN notices, {})
    BY <2>2 DEF Understood
  <2>4. n - 0 = n
    BY <1>1
  <2>5. Right(0)
    <3> HIDE DEF n
    <3> QED
      BY <1>1, <1>2, <2>1, <2>2, <2>3, <2>4
  <2> QED
    BY <2>5
<1>4. ASSUME NEW m \in Nat, m \in S PROVE m + 1 \in S
  <2> SUFFICES ASSUME m + 1 <= n PROVE Right(m + 1)
    OBVIOUS
  <2> DEFINE known == Folding[m].known
             left == Folding[m].left
             done == DOMAIN notices \ left
             e == First(left)
  <2>1. m + 1 \in 1 .. n /\ (m + 1) - 1 = m /\ m <= n /\ n - m \in Nat \ {0}
        /\ n - (m + 1) = (n - m) - 1
    <3> HIDE DEF n
    <3> QED
      BY <1>1
  <2>2. Understood(known, left, done) /\ IsFiniteSet(left) /\ Cardinality(left) = n - m
    BY <1>4, <2>1
  <2>3. left # {}
    <3> HIDE DEF left, n
    <3> QED
      BY <2>1, <2>2, FS_EmptySet
  <2>4. Folding[m + 1] = Consume(Folding[m])
    BY <2>1, FoldingStep
  <2>5. Folding[m + 1].known = Fold(known, notices[e]) /\ Folding[m + 1].left = left \ {e}
    BY <2>4 DEF Consume
  <2>6. e \in left /\ Understood(Fold(known, notices[e]), left \ {e}, done \cup {e})
    BY <2>2, <2>3, ConsumeUnderstands
  <2>7. DOMAIN notices \ (left \ {e}) = done \cup {e}
    BY <2>2, <2>6 DEF Understood
  <2>8. IsFiniteSet(left \ {e}) /\ Cardinality(left \ {e}) = n - (m + 1)
    <3>1. IsFiniteSet(left \ {e}) /\ Cardinality(left \ {e}) = Cardinality(left) - 1
      <4> HIDE DEF left, e
      <4> QED
        BY <2>2, <2>6, FS_RemoveElement
    <3> QED
      BY <2>1, <2>2, <3>1
  <2> QED
    BY <2>5, <2>6, <2>7, <2>8
<1>5. Nat \subseteq S
  <2> HIDE DEF S
  <2> QED
    BY <1>3, <1>4, SetInduction
<1>6. Right(n)
  <2>1. n \in S
    <3> HIDE DEF S
    <3> QED
      BY <1>1, <1>5
  <2>2. n <= n
    <3> HIDE DEF n
    <3> QED
      BY <1>1
  <2> QED
    BY <2>1, <2>2
<1>7. Folding[n].left = {}
  <2>1. n - n = 0
    BY <1>1
  <2> HIDE DEF n
  <2> QED
    BY <1>6, <2>1, FS_EmptySet
<1>8. Understood(NotificationsFrom, {}, DOMAIN notices \ {})
  BY <1>6, <1>7 DEF NotificationsFrom
<1>9. DOMAIN notices \ {} = DOMAIN notices
  OBVIOUS
<1> QED
  BY <1>8, <1>9

\* Notifications are in the inbox of whoever they are for, if at all: their key says so.
LEMMA KnownIsAddressed ==
  ASSUME NoticesIInv, NEW n \in Known
  PROVE  /\ n \in Notification /\ Addressed(n)
         /\ \E i \in DOMAIN notices : Dispatches(i, n.key) /\ notices[i].id = n.id
<1>1. Understood(NotificationsFrom, {}, DOMAIN notices)
  BY FoldedIsTrue DEF NoticesIInv
<1>2. PICK k \in DispatchedIn(DOMAIN notices) : n = NotificationsFrom[k]
  BY <1>1 DEF Known, Understood
<1>3. n \in Notification /\ Tells(n, k, DOMAIN notices)
  BY <1>1, <1>2 DEF Understood
<1>4. PICK i \in DOMAIN notices : /\ Dispatches(i, k) /\ n.key = k
                                 /\ n.id = notices[i].id /\ n.to = notices[i].to
  BY <1>3 DEF Tells
<1>5. Addressed(notices[i])
  BY DEF NoticesIInv
<1> QED
  BY <1>3, <1>4, <1>5 DEF Dispatches, Addressed

\* The streams have no events before the first is stored.
LEMMA InitNotices == NoticesInit /\ ClockInit => NoticesIInv
BY NoticeAssumption, ClockAssumption
   DEF NoticesInit, ClockInit, NoticesIInv, NoticesTypeOK, StoredInOrder, ChangesFollow, NoticeAssumption

\* What is generated is for those it is about.
LEMMA GeneratedIsAddressed ==
  ASSUME NEW accepted \in BOOLEAN, NEW objections \in BOOLEAN, NEW missing \in SUBSET Approvers,
         NEW impacts \in ImpactSummaries,
         NEW approvers \in Orders(missing), NEW consumers \in Orders(Told(impacts, accepted))
  PROVE  LET made == Generated(accepted, objections, approvers, consumers, impacts)
         IN  /\ made \in Seq([id : Nat, notice : Notices])
             /\ \A i \in DOMAIN made : Addressed(made[i].notice)
<1> DEFINE told == Told(impacts, accepted)
           Right == {n \in Notices : Addressed(n)}
           ToProvider == IF accepted \/ ~objections THEN <<>>
                         ELSE <<Notice("review-request", Provider, Provider, 0)>>
           ToApprovers == [i \in DOMAIN approvers |->
                             Notice("approval-request", approvers[i], approvers[i], 0)]
           ToConsumers == [i \in DOMAIN consumers |->
                             ImpactNotice(consumers[i], KindFor(impacts[consumers[i]], accepted))]
           all == ToProvider \o ToApprovers \o ToConsumers
<1>1. told \subseteq DOMAIN TeamOf /\ \A k \in told : KindFor(impacts[k], accepted) # "silent"
  BY DEF Told, ImpactSummaries
<1>2. Cardinality(missing) \in Nat /\ Cardinality(told) \in Nat
  BY <1>1, NoticeAssumption, FS_Subset, FS_CardinalityType DEF NoticeAssumption
<1>3. ToProvider \in Seq(Right)
  <2>1. Notice("review-request", Provider, Provider, 0) \in Right
    BY NoticeAssumption, ClockAssumption
       DEF NoticeAssumption, Notice, Key, Notices, NoticeKeys, NoticeKinds, Addressed
  <2> HIDE DEF Right
  <2>2. <<Notice("review-request", Provider, Provider, 0)>> \in Seq(Right) /\ <<>> \in Seq(Right)
    BY <2>1
  <2> QED
    BY <2>2
<1>4. ToApprovers \in Seq(Right)
  <2>1. \A a \in Approvers : Notice("approval-request", a, a, 0) \in Right
    BY NoticeAssumption, ClockAssumption
       DEF NoticeAssumption, Notice, Key, Notices, NoticeKeys, NoticeKinds, Addressed
  <2>2. approvers \in [1 .. Cardinality(missing) -> missing]
    BY DEF Orders
  <2>3. ToApprovers \in [1 .. Cardinality(missing) -> Right]
    BY <2>1, <2>2
  <2> QED
    BY <1>2, <2>3
<1>5. ToConsumers \in Seq(Right)
  <2>1. \A k \in told : ImpactNotice(k, KindFor(impacts[k], accepted)) \in Right
    <3> SUFFICES ASSUME NEW k \in told PROVE ImpactNotice(k, KindFor(impacts[k], accepted)) \in Right
      OBVIOUS
    <3>1. KindFor(impacts[k], accepted) \in NoticeKinds \ {"approval-request"}
      BY <1>1 DEF KindFor, NoticeKinds
    <3>2. TeamOf[k] \in Parties /\ DeadlineOf[k] \in 0 .. MaxTime /\ 0 \in 0 .. MaxTime /\ k \in DOMAIN TeamOf
      BY <1>1, NoticeAssumption, ClockAssumption DEF NoticeAssumption
    <3> QED
      BY <3>1, <3>2 DEF ImpactNotice, Notice, Key, Notices, NoticeKeys, Addressed
  <2>2. consumers \in [1 .. Cardinality(told) -> told]
    BY DEF Orders
  <2>3. ToConsumers \in [1 .. Cardinality(told) -> Right]
    <3> HIDE DEF told
    <3> QED
      BY <2>1, <2>2
  <2> QED
    BY <1>2, <2>3
<1>6. all \in Seq(Right)
  <2> HIDE DEF ToProvider, ToApprovers, ToConsumers, Right
  <2> QED
    BY <1>3, <1>4, <1>5
<1>7. Generated(accepted, objections, approvers, consumers, impacts)
        = [i \in DOMAIN all |-> [id |-> i, notice |-> all[i]]]
  BY DEF Generated
<1> HIDE DEF all
<1>8. DOMAIN all = 1 .. Len(all) /\ Len(all) \in Nat /\ \A i \in DOMAIN all : all[i] \in Right
  BY <1>6
<1> QED
  BY <1>7, <1>8

\* What is stored about a notice keeps the order and the addresses.
LEMMA StoringKeeps ==
  ASSUME NoticesIInv, NEW type \in {"dispatched", "changed"}, NEW id \in Nat, NEW n, n.key \in NoticeKeys,
         n.to \in Parties, n.deadline \in 0 .. MaxTime, Addressed(n),
         NEW status \in Changes \cup {"unread"}, NEW until \in 0 .. MaxTime,
         Len(notices) < MaxNotices, notices' = Append(notices, Event(type, id, n, status, until)),
         type = "changed" => \E i \in DOMAIN notices : Dispatches(i, n.key) /\ notices[i].id = id,
         now' = now
  PROVE  /\ notices' \in Seq(NoticeEvents) /\ Len(notices') <= MaxNotices
         /\ \A i \in DOMAIN notices' : Addressed(notices'[i])
         /\ StoredInOrder' /\ ChangesFollow'
<1> DEFINE e == Event(type, id, n, status, until)
           m == Len(notices)
<1>1. /\ m \in Nat /\ DOMAIN notices = 1 .. m /\ notices \in Seq(NoticeEvents) /\ MaxNotices \in Nat
      /\ \A i \in 1 .. m : notices[i].at \in Nat /\ notices[i].version \in Nat
      /\ now \in 1 .. MaxTime /\ now \in Nat /\ MaxTime \in Nat
  BY NoticeNumbers, NoticeAssumption, ClockAssumption DEF NoticesIInv, NoticesTypeOK, NoticeAssumption
<1>0. m \in Nat
  BY <1>1
<1>2. \A x : Version(x) \in Nat
  <2> SUFFICES ASSUME NEW x PROVE Version(x) \in Nat
    OBVIOUS
  <2> DEFINE A == {i \in DOMAIN notices : notices[i].id = x}
  <2>1. IsFiniteSet(1 .. m)
    <3> HIDE DEF m
    <3> QED
      BY <1>0, NumbersUpTo
  <2>2. IsFiniteSet(A)
    BY <1>1, <2>1, FS_Subset
  <2> QED
    BY <2>2, FS_CardinalityType DEF Version
<1>3. /\ e \in NoticeEvents /\ e.type = type /\ e.id = id /\ e.key = n.key /\ e.to = n.to /\ e.at = now
      /\ e.version = Version(id) + 1
  BY <1>1, <1>2 DEF Event, NoticeEvents
<1> HIDE DEF e
<1>4. /\ notices' \in Seq(NoticeEvents) /\ Len(notices') = m + 1 /\ DOMAIN notices' = 1 .. (m + 1)
      /\ notices'[m + 1] = e /\ \A i \in 1 .. m : notices'[i] = notices[i]
  BY <1>1, <1>3 DEF e
<1>5. Len(notices') <= MaxNotices
  BY <1>1, <1>4
<1>6. \A i \in DOMAIN notices' : Addressed(notices'[i])
  <2>1. Addressed(e)
    BY <1>3 DEF Addressed
  <2> QED
    BY <1>1, <1>4, <2>1 DEF NoticesIInv
<1> DEFINE after(x) == Cardinality({i \in DOMAIN notices' : notices'[i].id = x})
<1>7. \A x : after(x) \in Nat /\ after(x) >= Version(x) /\ after(id) = Version(id) + 1
  <2> SUFFICES ASSUME NEW x PROVE after(x) = IF x = id THEN Version(x) + 1 ELSE Version(x)
    <3> HIDE DEF after
    <3>1. \A x : after(x) = IF x = id THEN Version(x) + 1 ELSE Version(x)
      OBVIOUS
    <3> QED
      BY <1>2, <3>1
  <2> DEFINE A == {i \in DOMAIN notices : notices[i].id = x}
             B == {i \in DOMAIN notices' : notices'[i].id = x}
  <2>1. Version(x) = Cardinality(A) /\ after(x) = Cardinality(B)
    BY DEF Version
  <2>2. IsFiniteSet(A) /\ m + 1 \notin A
    <3>1. A \subseteq 1 .. m
      BY <1>1
    <3> HIDE DEF m, A
    <3>2. IsFiniteSet(1 .. m)
      BY <1>0, NumbersUpTo
    <3>3. IsFiniteSet(A)
      BY <3>1, <3>2, FS_Subset
    <3>4. m + 1 \notin 1 .. m
      BY <1>1
    <3> QED
      BY <3>1, <3>3, <3>4
  <2>3. B = IF x = id THEN A \cup {m + 1} ELSE A
    BY <1>1, <1>3, <1>4
  <2> HIDE DEF A, B
  <2>4. Cardinality(B) = IF x = id THEN Cardinality(A) + 1 ELSE Cardinality(A)
    BY <2>2, <2>3, FS_AddElement
  <2> QED
    BY <2>1, <2>4, Zenon
<1>8. StoredInOrder'
  <2>1. \A i \in DOMAIN notices' : /\ notices'[i].at <= now'
                                   /\ notices'[i].version <= after(notices'[i].id)
    <3> SUFFICES ASSUME NEW i \in 1 .. (m + 1)
                 PROVE  notices'[i].at <= now /\ notices'[i].version <= after(notices'[i].id)
      BY <1>4
    <3> HIDE DEF after
    <3>1. CASE i = m + 1
      BY <1>1, <1>2, <1>3, <1>4, <1>7, <3>1
    <3>2. CASE i # m + 1
      <4>1. i \in 1 .. m /\ notices[i].at <= now /\ notices[i].version <= Version(notices[i].id)
        BY <1>1, <3>2 DEF NoticesIInv, StoredInOrder
      <4> QED
        BY <1>1, <1>2, <1>4, <1>7, <4>1
    <3> QED
      BY <3>1, <3>2
  <2>2. ASSUME NEW i \in DOMAIN notices', NEW j \in DOMAIN notices', i < j
        PROVE  /\ notices'[i].at <= notices'[j].at
               /\ notices'[i].id = notices'[j].id => notices'[i].version < notices'[j].version
    <3>1. i \in 1 .. m /\ notices[i].at <= now /\ notices[i].version <= Version(notices[i].id)
      BY <1>1, <1>4, <2>2 DEF NoticesIInv, StoredInOrder
    <3>2. CASE j = m + 1
      BY <1>1, <1>2, <1>3, <1>4, <3>1, <3>2
    <3>3. CASE j # m + 1
      BY <1>1, <1>4, <2>2, <3>1, <3>3 DEF NoticesIInv, StoredInOrder
    <3> QED
      BY <3>2, <3>3
  <2> QED
    BY <2>1, <2>2 DEF StoredInOrder, Version
<1>9. ChangesFollow'
  <2> SUFFICES ASSUME NEW i \in 1 .. (m + 1), notices'[i].type = "changed"
               PROVE  \E j \in 1 .. (i - 1) : /\ notices'[j].type = "dispatched"
                                             /\ notices'[j].key = notices'[i].key
                                             /\ notices'[j].id = notices'[i].id
    BY <1>4 DEF ChangesFollow
  <2>1. CASE i = m + 1
    <3>1. PICK j \in 1 .. m : Dispatches(j, n.key) /\ notices[j].id = id
      BY <1>1, <1>3, <1>4, <2>1
    <3>2. j \in 1 .. (i - 1)
      BY <1>1, <2>1
    <3> QED
      BY <1>3, <1>4, <2>1, <3>1, <3>2 DEF Dispatches
  <2>2. CASE i # m + 1
    <3>1. i \in 1 .. m
      BY <1>1, <2>2
    <3>2. PICK j \in 1 .. (i - 1) : /\ notices[j].type = "dispatched"
                                  /\ notices[j].key = notices[i].key /\ notices[j].id = notices[i].id
      BY <1>1, <1>4, <3>1 DEF NoticesIInv, ChangesFollow
    <3>3. j \in 1 .. m
      BY <1>1, <3>1
    <3> QED
      BY <1>4, <3>1, <3>2, <3>3
  <2> QED
    BY <2>1, <2>2
<1> QED
  BY <1>4, <1>5, <1>6, <1>8, <1>9

\* Every step keeps the invariant,
LEMMA NextNotices ==
  ASSUME NoticesIInv,
         [\/ (\E impacts \in ImpactSummaries : NoticesNext(impacts)) /\ UNCHANGED now
          \/ Tick /\ UNCHANGED noticeVars]_<<noticeVars, now>>
  PROVE  NoticesIInv'
<1>1. ASSUME NEW accepted \in BOOLEAN, NEW objections \in BOOLEAN, NEW missing \in SUBSET Approvers,
             NEW impacts \in ImpactSummaries, Generate(accepted, objections, missing, impacts),
             UNCHANGED now
      PROVE  NoticesIInv'
  <2>1. PICK approvers \in Orders(missing), consumers \in Orders(Told(impacts, accepted)) :
          outbox' = Generated(accepted, objections, approvers, consumers, impacts)
    BY <1>1 DEF Generate
  <2>2. /\ outbox' \in Seq([id : Nat, notice : Notices])
        /\ \A i \in DOMAIN outbox' : Addressed(outbox'[i].notice)
    BY <2>1, GeneratedIsAddressed
  <2> QED
    BY <1>1, <2>2
       DEF Generate, NoticesIInv, NoticesTypeOK, StoredInOrder, ChangesFollow, Version, Addressed
<1>2. ASSUME DispatchNotification, UNCHANGED now PROVE NoticesIInv'
  <2>1. /\ Head(outbox) \in [id : Nat, notice : Notices] /\ Addressed(Head(outbox).notice)
        /\ outbox' \in Seq([id : Nat, notice : Notices])
        /\ \A i \in DOMAIN outbox' : Addressed(outbox'[i].notice)
    <3> DEFINE P == [id : Nat, notice : Notices]
    <3>1. outbox \in Seq(P) /\ outbox # <<>> /\ outbox' = Tail(outbox)
      BY <1>2 DEF NoticesIInv, NoticesTypeOK, DispatchNotification
    <3>2. \A i \in DOMAIN outbox : Addressed(outbox[i].notice)
      BY DEF NoticesIInv
    <3> HIDE DEF P
    <3>3. /\ Head(outbox) = outbox[1] /\ 1 \in DOMAIN outbox /\ outbox[1] \in P /\ outbox' \in Seq(P)
          /\ \A i \in DOMAIN outbox' : outbox'[i] = outbox[i + 1] /\ i + 1 \in DOMAIN outbox
      BY <3>1
    <3> QED
      BY <3>2, <3>3 DEF P
  <2>2. CASE UNCHANGED notices
    BY <1>2, <2>1, <2>2
       DEF DispatchNotification, NoticesIInv, NoticesTypeOK, StoredInOrder, ChangesFollow, Version, Addressed
  <2>3. CASE ~UNCHANGED notices
    <3> DEFINE n == Head(outbox).notice
    <3>1. /\ Len(notices) < MaxNotices
          /\ notices' = Append(notices, Event("dispatched", Head(outbox).id, n, "unread", 0))
      BY <1>2, <2>3 DEF DispatchNotification
    <3>2. n.key \in NoticeKeys /\ n.to \in Parties /\ n.deadline \in 0 .. MaxTime /\ Head(outbox).id \in Nat
          /\ 0 \in 0 .. MaxTime
      BY <2>1, ClockAssumption DEF Notices
    <3>3. /\ notices' \in Seq(NoticeEvents) /\ Len(notices') <= MaxNotices
          /\ \A i \in DOMAIN notices' : Addressed(notices'[i])
          /\ StoredInOrder' /\ ChangesFollow'
      BY <1>2, <2>1, <3>1, <3>2, StoringKeeps
    <3> QED
      BY <1>2, <2>1, <3>3 DEF DispatchNotification, NoticesIInv, NoticesTypeOK, Addressed
  <2> QED
    BY <2>2, <2>3
<1>3. ASSUME NEW n \in Known, NEW status \in Changes, NEW until \in 0 .. MaxTime,
             ChangeNotificationStatus(n, status, until), UNCHANGED now
      PROVE  NoticesIInv'
  <2>1. /\ n \in Notification /\ Addressed(n)
        /\ \E i \in DOMAIN notices : Dispatches(i, n.key) /\ notices[i].id = n.id
    BY KnownIsAddressed
  <2>2. n.key \in NoticeKeys /\ n.to \in Parties /\ n.deadline \in 0 .. MaxTime /\ n.id \in Nat
    BY <2>1 DEF Notification
  <2>3. /\ notices' \in Seq(NoticeEvents) /\ Len(notices') <= MaxNotices
        /\ \A i \in DOMAIN notices' : Addressed(notices'[i])
        /\ StoredInOrder' /\ ChangesFollow'
    BY <1>3, <2>1, <2>2, StoringKeeps DEF ChangeNotificationStatus
  <2> QED
    BY <1>3, <2>3 DEF ChangeNotificationStatus, NoticesIInv, NoticesTypeOK, Addressed
<1>4. ASSUME NEW s \in Subscriptions, DeclareSubscription(s), UNCHANGED now PROVE NoticesIInv'
  BY <1>4 DEF DeclareSubscription, NoticesIInv, NoticesTypeOK, StoredInOrder, ChangesFollow, Version, Addressed
<1>5. CASE Tick /\ UNCHANGED noticeVars
  <2>1. now' \in 1 .. MaxTime /\ \A i \in DOMAIN notices : notices[i].at <= now'
    BY <1>5, ClockAssumption, NoticeNumbers DEF Tick, NoticesIInv, StoredInOrder
  <2> QED
    BY <1>5, <2>1
       DEF noticeVars, NoticesIInv, NoticesTypeOK, StoredInOrder, ChangesFollow, Version, Addressed
<1>6. CASE UNCHANGED <<noticeVars, now>>
  BY <1>6 DEF noticeVars, NoticesIInv, NoticesTypeOK, StoredInOrder, ChangesFollow, Version, Addressed
<1> QED
  BY <1>1, <1>2, <1>3, <1>4, <1>5, <1>6 DEF NoticesNext

\* so it holds always.
LEMMA NoticesInvariance == NoticesSpec => []NoticesIInv
BY InitNotices, NextNotices, PTL DEF NoticesSpec

\* Two changes of the same key that are not at one time in two streams come one before
\* the other as they were stored.
LEMMA LastInOrder ==
  ASSUME NoticesTypeOK, StoredInOrder, NEW i \in DOMAIN notices, NEW j \in DOMAIN notices, i < j,
         notices[i].at = notices[j].at => notices[i].id = notices[j].id
  PROVE  Before(i, j)
<1>1. notices[i].at <= notices[j].at
      /\ (notices[i].id = notices[j].id => notices[i].version < notices[j].version)
  BY DEF StoredInOrder
<1>2. notices[i].at \in Nat /\ notices[j].at \in Nat
  BY NoticeNumbers
<1> QED
  BY <1>1, <1>2 DEF Before

\* The projection tells the status that was given last.
LEMMA StatusIsLatest == NoticesIInv => LatestStatusWins
<1> SUFFICES ASSUME NoticesIInv PROVE LatestStatusWins
  OBVIOUS
<1> DEFINE folded == NotificationsFrom
           changes(k) == {i \in DOMAIN notices : notices[i].type = "changed" /\ notices[i].key = k}
<1>1. Understood(folded, {}, DOMAIN notices)
  BY FoldedIsTrue DEF NoticesIInv
<1> SUFFICES ASSUME NEW k \in DOMAIN folded,
                    \A i, j \in changes(k) : notices[i].at = notices[j].at => notices[i].id = notices[j].id
             PROVE  folded[k].status =
                      IF changes(k) = {} THEN "unread"
                      ELSE notices[CHOOSE i \in changes(k) : \A j \in changes(k) : j <= i].status
  BY DEF LatestStatusWins
<1>2. Tells(folded[k], k, DOMAIN notices)
  BY <1>1 DEF Understood
<1>3. CASE changes(k) = {}
  BY <1>2, <1>3 DEF Tells, Alters
<1>4. CASE changes(k) # {}
  <2>1. PICK i \in changes(k) : /\ folded[k].status = notices[i].status
                               /\ \A j \in changes(k) : j = i \/ Before(j, i)
    BY <1>2, <1>4 DEF Tells, Alters
  <2>2. changes(k) \subseteq Nat /\ changes(k) \subseteq DOMAIN notices
    BY NoticeNumbers DEF NoticesIInv
  <2>3. ASSUME NEW j \in changes(k) PROVE j <= i
    <3> SUFFICES ASSUME i < j PROVE FALSE
      BY <2>2
    <3>1. Before(i, j) /\ Before(j, i)
      BY <2>1, <2>2, LastInOrder DEF NoticesIInv
    <3> QED
      BY <2>2, <3>1, BeforeIsTotal DEF NoticesIInv
  <2>4. \A l \in changes(k) : (\A j \in changes(k) : j <= l) => l = i
    BY <2>2, <2>3
  <2> HIDE DEF changes
  <2>5. (CHOOSE l \in changes(k) : \A j \in changes(k) : j <= l) = i
    BY <2>3, <2>4
  <2> QED
    BY <1>4, <2>1, <2>5
<1> QED
  BY <1>3, <1>4

\* Where dates do not come back from the store, the inbox of a party that has none shows.
LEMMA UndatedInboxShows ==
  ASSUME NoticesIInv, NEW party, Undated(party)
  PROVE  ~InboxFails(party, FALSE)
<1>1. Understood(NotificationsFrom, {}, DOMAIN notices)
  BY FoldedIsTrue DEF NoticesIInv
<1>2. ASSUME NEW n \in Known, n.to = party PROVE n.deadline = 0 /\ n.until = 0
  <2>1. PICK k \in DispatchedIn(DOMAIN notices) : n = NotificationsFrom[k]
    BY <1>1 DEF Known, Understood
  <2>2. Tells(n, k, DOMAIN notices)
    BY <1>1, <2>1 DEF Understood
  <2>3. PICK i \in DOMAIN notices : /\ Dispatches(i, k)
                                   /\ n.to = notices[i].to /\ n.deadline = notices[i].deadline
    BY <2>2 DEF Tells
  <2>4. \A j \in DOMAIN notices : notices[j].key = k => notices[j].deadline = 0 /\ notices[j].until = 0
    BY <1>2, <2>3 DEF Undated, Dispatches
  <2>5. n.until = 0 \/ \E j \in DOMAIN notices : Alters(j, k) /\ n.until = notices[j].until
    BY <2>2 DEF Tells
  <2> QED
    BY <2>3, <2>4, <2>5 DEF Dispatches, Alters
<1> QED
  BY <1>2 DEF InboxFails, Mine

\* An open notice is in a section of the inbox of whoever was asked.
LEMMA OpenIsShown == NoticesIInv => OpenNoticesAreShown
<1> SUFFICES ASSUME NoticesIInv, NEW i \in DOMAIN notices, NEW revived \in BOOLEAN,
                    revived \/ Undated(notices[i].to),
                    notices[i].type = "dispatched", notices[i].key.kind # "review-request",
                    \A j \in DOMAIN notices : Alters(j, notices[i].key) =>
                      /\ notices[j].status \notin {"acknowledged", "resolved"}
                      /\ notices[j].until <= now
             PROVE  \E section \in DOMAIN Inbox(notices[i].to, revived) :
                      \E shown \in Inbox(notices[i].to, revived)[section] : shown.key = notices[i].key
  BY DEF OpenNoticesAreShown, Alters
<1> DEFINE k == notices[i].key
           n == NotificationsFrom[k]
           party == notices[i].to
<1>1. Understood(NotificationsFrom, {}, DOMAIN notices)
  BY FoldedIsTrue DEF NoticesIInv
<1>2. k \in DispatchedIn(DOMAIN notices)
  BY DEF DispatchedIn
<1>3. n \in Known /\ n \in Notification /\ Tells(n, k, DOMAIN notices)
  BY <1>1, <1>2 DEF Understood, Known
<1>4. n.key = k /\ k \in NoticeKeys
  BY <1>3 DEF Tells, Notification
<1>5. n.to = party
  BY <1>3, <1>4, KnownIsAddressed DEF Addressed, NoticesIInv
<1>6. n.status \notin {"acknowledged", "resolved"}
  BY <1>3 DEF Tells
<1>7. ~(n.until > now)
  <2>1. n.until \in Nat /\ now \in Nat
    BY <1>3, ClockAssumption DEF Notification, NoticesIInv
  <2>2. n.until <= now
    BY <1>3, <2>1 DEF Tells
  <2> QED
    BY <2>1, <2>2
<1>8. n \in Mine(party) /\ ~InboxFails(party, revived)
  <2>1. n \in Mine(party)
    BY <1>3, <1>5, <1>6, <1>7 DEF Mine
  <2>2. ~InboxFails(party, revived)
    BY UndatedInboxShows DEF InboxFails
  <2> QED
    BY <2>1, <2>2
<1> HIDE DEF n, k, party
<1>9. k.kind \in {"approval-request", "implementation-request", "migration-request", "informational-change"}
  BY <1>4 DEF NoticeKeys, NoticeKinds, k
<1>10. \E section \in DOMAIN Inbox(party, revived) : n \in Inbox(party, revived)[section]
  <2>1. CASE n.key.kind = "approval-request"
    BY <1>8, <2>1 DEF Inbox
  <2>2. CASE n.key.kind \in {"implementation-request", "migration-request"}
    BY <1>8, <2>2 DEF Inbox
  <2>3. CASE n.key.kind = "informational-change" /\ n \in Overdue(party)
    BY <1>8, <2>3 DEF Inbox
  <2>4. CASE n.key.kind = "informational-change" /\ n \notin Overdue(party)
    BY <1>8, <2>4 DEF Inbox
  <2> QED
    BY <1>4, <1>9, <2>1, <2>2, <2>3, <2>4
<1> QED
  BY <1>4, <1>10 DEF k, party

\* A notification has the status it was given last.
THEOREM StatusFollowsLastChange == NoticesSpec => []LatestStatusWins
BY NoticesInvariance, StatusIsLatest, PTL

\* Nothing that somebody was asked for and has not answered is missing from the inbox, if
\* dates come back from the store or the party has none.
THEOREM NothingOpenIsHidden == NoticesSpec => []OpenNoticesAreShown
BY NoticesInvariance, OpenIsShown, PTL
=============================================================================
