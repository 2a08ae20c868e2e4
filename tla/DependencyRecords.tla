-------------------------- MODULE DependencyRecords --------------------------
(***************************************************************************)
(* The dependency edges that consumers declare, and the impact analyses    *)
(* that are computed from them and recorded on a proposal.                 *)
(*                                                                         *)
(* A declaration is an append for the edge and one for each of its         *)
(* assumptions; each of these can fail.  An analyst reads the edges,       *)
(* computes, and asks for its analysis to be recorded: that command reads  *)
(* the edges again, then the version of the proposal, and appends.  The    *)
(* edges and the proposal are different streams.                           *)
(***************************************************************************)
EXTENDS ImpactAnalysis, Clock

CONSTANTS Edges,
          Offers,        \* the terms a consumer may declare
          Statements,    \* of assumptions
          Opposed,       \* the pairs of statements that contradict each other
          Analysts,
          Diffs,         \* the findings an analysis may be about
          Nothing,
          MaxRecords     \* bound: analyses recorded

VARIABLES edges,     \* each edge as the projection folds it, or Nothing
          kept,      \* the assumptions its stream holds
          adding,    \* those that its declaration under way has still to append
          pinned,    \* the analysis each analyst has computed, or Nothing
          recording, \* how far the recording of it is
          expected,  \* the version of the proposal it read
          recorded   \* the analyses recorded on the proposal

recordsVars == <<edges, kept, adding, pinned, recording, expected, recorded>>

Edge == [terms : Offers, confirmedAt : 1 .. MaxTime, again : BOOLEAN,
         deprecated : BOOLEAN, assumptions : SUBSET Statements]

ASSUME RecordsAssumption == Nothing \notin Edge /\ MaxRecords \in Nat

Impacts == {AnalyzeConsumer(d, t) : d \in Diffs, t \in Offers}

\* A snapshot of the edges: when each was confirmed, and the impact on its consumer.
Snapshots ==
  UNION {[findings : Diffs, signature : [known -> 1 .. MaxTime], impacts : [known -> Impacts]] :
           known \in SUBSET Edges}

RecordsTypeOK ==
  /\ edges \in [Edges -> Edge \cup {Nothing}]
  /\ kept \in [Edges -> SUBSET Statements]
  /\ adding \in [Edges -> SUBSET Statements]
  /\ pinned \in [Analysts -> Snapshots \cup {Nothing}]
  /\ recording \in [Analysts -> {"idle", "computed", "checked", "read"}]
  /\ expected \in [Analysts -> 0 .. MaxRecords]
  /\ recorded \in Seq(Snapshots) /\ Len(recorded) <= MaxRecords

RecordsInit ==
  /\ edges = [e \in Edges |-> Nothing]
  /\ kept = [e \in Edges |-> {}] /\ adding = [e \in Edges |-> {}]
  /\ pinned = [a \in Analysts |-> Nothing]
  /\ recording = [a \in Analysts |-> "idle"] /\ expected = [a \in Analysts |-> 0]
  /\ recorded = <<>>
-----------------------------------------------------------------------------
(* Dependency edges.                                                        *)

Declared == {e \in Edges : edges[e] # Nothing}

\* Mutant: a declaration keeps the time of the one before.
DeclareKeepingTime(e, terms, assumptions) ==
  /\ adding[e] = {}
  /\ edges' = [edges EXCEPT ![e] =
       [terms |-> terms,
        confirmedAt |-> IF edges[e] = Nothing THEN now ELSE edges[e].confirmedAt,
        again |-> FALSE, deprecated |-> FALSE, assumptions |-> {}]]
  /\ adding' = [adding EXCEPT ![e] = assumptions]
  /\ UNCHANGED <<kept, pinned, recording, expected, recorded>>

\* declareDependency, up to its first append.  The edge is current and has no
\* assumptions, whatever its stream held before.  'again' tells that the declaration
\* came at the time of the one before it.
DeclareDependency(e, terms, assumptions) ==
  /\ adding[e] = {}
  /\ edges' = [edges EXCEPT ![e] =
       [terms |-> terms, confirmedAt |-> now,
        again |-> edges[e] # Nothing /\ edges[e].confirmedAt = now,
        deprecated |-> FALSE, assumptions |-> {}]]
  /\ adding' = [adding EXCEPT ![e] = assumptions]
  /\ UNCHANGED <<kept, pinned, recording, expected, recorded>>

\* A new assumption brings all those its stream holds back to the edge.
WithAssumption(e, statement) ==
  /\ kept' = [kept EXCEPT ![e] = @ \cup {statement}]
  /\ edges' = [edges EXCEPT ![e].assumptions = kept[e] \cup {statement}]

AddDeclaredAssumption(e) ==
  \E s \in adding[e] :
    /\ WithAssumption(e, s)
    /\ adding' = [adding EXCEPT ![e] = @ \ {s}]
    /\ UNCHANGED <<pinned, recording, expected, recorded>>

\* One of the appends fails: the declaration ends with an error, and stands.
AbandonDeclaration(e) ==
  /\ adding[e] # {}
  /\ adding' = [adding EXCEPT ![e] = {}]
  /\ UNCHANGED <<edges, kept, pinned, recording, expected, recorded>>

AddAssumption(e, s) ==
  /\ e \in Declared /\ WithAssumption(e, s)
  /\ UNCHANGED <<adding, pinned, recording, expected, recorded>>

DeprecateEdge(e) ==
  /\ e \in Declared
  /\ edges' = [edges EXCEPT ![e].deprecated = TRUE]
  /\ UNCHANGED <<kept, adding, pinned, recording, expected, recorded>>

\* findConflictingAssumptions: of edges to the same operation.
ConflictingAssumptions ==
  {c \in Declared \X Statements \X Declared \X Statements :
     /\ c[1] # c[3] /\ edges[c[1]].terms.op = edges[c[3]].terms.op
     /\ c[2] \in edges[c[1]].assumptions /\ c[4] \in edges[c[3]].assumptions
     /\ <<c[2], c[4]>> \in Opposed}
-----------------------------------------------------------------------------
(* Impact analyses.                                                         *)

\* isImpactAnalysisStale, as both its callers ask it: without the time of the last
\* correction of a context item.
StaleAnalysis(snapshot) ==
  LET known == DOMAIN snapshot.signature
  IN  \/ Declared # known
      \/ \E e \in known : edges[e].confirmedAt > snapshot.signature[e]

\* pinImpactAnalysis, of the analyses of all edges, deprecated ones included.
ComputeAnalysis(a, findings) ==
  /\ recording[a] = "idle"
  /\ pinned' = [pinned EXCEPT ![a] =
       [findings  |-> findings,
        signature |-> [e \in Declared |-> edges[e].confirmedAt],
        impacts   |-> [e \in Declared |-> AnalyzeConsumer(findings, edges[e].terms)]]]
  /\ recording' = [recording EXCEPT ![a] = "computed"]
  /\ UNCHANGED <<edges, kept, adding, expected, recorded>>

Return(a) ==
  /\ recording' = [recording EXCEPT ![a] = "idle"]
  /\ pinned' = [pinned EXCEPT ![a] = Nothing]

\* recordImpactAnalysis: stale analyses are refused on one read of the ledger ...
CheckAnalysis(a) ==
  /\ recording[a] = "computed"
  /\ IF StaleAnalysis(pinned[a]) THEN Return(a)
     ELSE recording' = [recording EXCEPT ![a] = "checked"] /\ UNCHANGED pinned
  /\ UNCHANGED <<edges, kept, adding, expected, recorded>>

\* ... the version of the proposal is another read ...
ReadProposalVersion(a) ==
  /\ recording[a] = "checked"
  /\ expected' = [expected EXCEPT ![a] = Len(recorded)]
  /\ recording' = [recording EXCEPT ![a] = "read"]
  /\ UNCHANGED <<edges, kept, adding, pinned, recorded>>

\* ... and the append fails when an analysis was recorded since, or anything else was
\* stored on the proposal, an amendment for instance, which no one reads.
RecordAnalysis(a) ==
  /\ recording[a] = "read" /\ Len(recorded) < MaxRecords
  /\ \/ expected[a] = Len(recorded) /\ recorded' = Append(recorded, pinned[a])
     \/ UNCHANGED recorded
  /\ Return(a)
  /\ UNCHANGED <<edges, kept, adding, expected>>

RecordsNext ==
  \/ \E e \in Edges :
       \/ \E t \in Offers, s \in SUBSET Statements : DeclareDependency(e, t, s)
       \/ AddDeclaredAssumption(e) \/ AbandonDeclaration(e) \/ DeprecateEdge(e)
       \/ \E s \in Statements : AddAssumption(e, s)
  \/ \E a \in Analysts :
       \/ \E d \in Diffs : ComputeAnalysis(a, d)
       \/ CheckAnalysis(a) \/ ReadProposalVersion(a) \/ RecordAnalysis(a)

\* The records by themselves, while time passes.
RecordsSpec ==
  /\ RecordsInit /\ ClockInit
  /\ [][(RecordsNext /\ UNCHANGED now) \/ (Tick /\ UNCHANGED recordsVars)]_<<recordsVars, now>>
-----------------------------------------------------------------------------
\* The analysis that trace_dependency_impact returns.
Latest == recorded[Len(recorded)]

\* INV-015: an analysis that is not reported as stale says of every edge what an
\* analysis of the same change would say now, unless the edge was declared twice at
\* the same time.
FreshMeansCurrent ==
  (recorded # <<>> /\ ~StaleAnalysis(Latest)) =>
    \A e \in Declared :
      edges[e].again \/ Latest.impacts[e] = AnalyzeConsumer(Latest.findings, edges[e].terms)
-----------------------------------------------------------------------------
(* What makes it inductive. *)

EdgesInTime ==
  /\ \A e \in Declared : edges[e].confirmedAt <= now
  /\ \A e \in Edges : adding[e] # {} => e \in Declared

\* The edges of a snapshot are still in a table, and confirmed no earlier; one that was
\* confirmed no later, and not twice then, has the terms that were analysed.
Follows(snapshot, table) ==
  \A e \in DOMAIN snapshot.signature :
    /\ table[e] # Nothing /\ snapshot.signature[e] <= table[e].confirmedAt
    /\ snapshot.signature[e] = table[e].confirmedAt =>
         \/ table[e].again
         \/ snapshot.impacts[e] = AnalyzeConsumer(snapshot.findings, table[e].terms)

SnapshotsFollow ==
  /\ \A a \in Analysts :
       recording[a] # "idle" => pinned[a] \in Snapshots /\ Follows(pinned[a], edges)
  /\ \A i \in DOMAIN recorded : Follows(recorded[i], edges)

RecordsIInv == RecordsTypeOK /\ EdgesInTime /\ SnapshotsFollow
=============================================================================
