--------------------------- MODULE RolloutProofs ----------------------------
(***************************************************************************)
(* What is proved of the parts holds of the rollout they make up: each     *)
(* part takes its own steps there, while the others rest, and shares the   *)
(* clock with them.                                                        *)
(***************************************************************************)
EXTENDS Rollout, ServerProofs, RecordsProofs

\* Every step of the rollout is one of a part, or of time.
LEMMA RolloutStep ==
  ASSUME [RolloutNext]_rolloutVars
  PROVE  /\ [(RecordsNext /\ UNCHANGED now) \/ (Tick /\ UNCHANGED recordsVars)]_<<recordsVars, now>>
         /\ [(GateNext /\ UNCHANGED now) \/ (Tick /\ UNCHANGED gateVars)]_<<gateVars, now>>
         /\ [(ApiNext /\ UNCHANGED now) \/ (Tick /\ UNCHANGED apiVars)]_<<apiVars, now>>
         /\ [McpNext]_mcpVars
         /\ [CatalogNext]_catalogVars
         /\ [DeliberationNext]_deliberationVars
BY DEF RolloutNext, rolloutVars, Deliberate, ChangeContract, KeepRecords, GiveEvidence, Notify,
       ServeAgents, ServeRequests, ImportCatalog, PassTime

\* A behaviour of the composition is one of each of its parts: of the declarations,
LEMMA RolloutHasRecords == RolloutSpec => RecordsSpec
<1>1. RolloutInit => RecordsInit /\ ClockInit
  BY DEF RolloutInit
<1>2. [RolloutNext]_rolloutVars =>
        [(RecordsNext /\ UNCHANGED now) \/ (Tick /\ UNCHANGED recordsVars)]_<<recordsVars, now>>
  BY RolloutStep
<1> QED
  BY <1>1, <1>2, PTL DEF RolloutSpec, RecordsSpec

\* of the gate,
LEMMA RolloutHasGate == RolloutSpec => GateSpec
<1>1. RolloutInit => GateInit /\ ClockInit
  BY DEF RolloutInit
<1>2. [RolloutNext]_rolloutVars =>
        [(GateNext /\ UNCHANGED now) \/ (Tick /\ UNCHANGED gateVars)]_<<gateVars, now>>
  BY RolloutStep
<1> QED
  BY <1>1, <1>2, PTL DEF RolloutSpec, GateSpec

\* of the sessions and deliveries,
LEMMA RolloutHasApi == RolloutSpec => ApiSpec
<1>1. RolloutInit => ApiInit /\ ClockInit
  BY DEF RolloutInit
<1>2. [RolloutNext]_rolloutVars =>
        [(ApiNext /\ UNCHANGED now) \/ (Tick /\ UNCHANGED apiVars)]_<<apiVars, now>>
  BY RolloutStep
<1> QED
  BY <1>1, <1>2, PTL DEF RolloutSpec, ApiSpec

\* of the agents' calls,
LEMMA RolloutHasMcp == RolloutSpec => McpSpec
<1>1. RolloutInit => McpInit
  BY DEF RolloutInit
<1>2. [RolloutNext]_rolloutVars => [McpNext]_mcpVars
  BY RolloutStep
<1> QED
  BY <1>1, <1>2, PTL DEF RolloutSpec, McpSpec

\* of the notifications, which are generated from the impacts that are recorded,
LEMMA LevelsAreSummaries == RecordsTypeOK => ImpactLevels \in ImpactSummaries
<1> SUFFICES ASSUME RecordsTypeOK PROVE ImpactLevels \in ImpactSummaries
  OBVIOUS
<1> DEFINE Summary == {"none", "informational", "action-required", "blocking", "unknown"}
<1>1. \A known \in SUBSET DOMAIN TeamOf : [known -> Summary] \subseteq ImpactSummaries
  BY DEF ImpactSummaries
<1>2. CASE recorded = <<>>
  <2>1. ImpactLevels \in [{} -> Summary]
    BY <1>2 DEF ImpactLevels, RecordedImpacts
  <2> QED
    BY <1>1, <2>1
<1>3. CASE recorded # <<>>
  <2>1. Latest \in Snapshots
    BY <1>3 DEF RecordsTypeOK, Latest
  <2>2. PICK known \in SUBSET Edges : Latest.impacts \in [known -> Impacts]
    BY <2>1 DEF Snapshots
  <2>3. \A a \in Impacts : a.impact \in Summary
    <3>1. \A d, t, s : ImpactLevel(d, t, s) \in Summary
      BY DEF ImpactLevel
    <3>2. \A d, t : AnalyzeConsumer(d, t).impact = ImpactLevel(d, t, AssessConsumer(d, t))
      BY DEF AnalyzeConsumer
    <3> QED
      BY <3>1, <3>2 DEF Impacts
  <2>4. ImpactLevels \in [known -> Summary]
    BY <1>3, <2>2, <2>3 DEF ImpactLevels, RecordedImpacts
  <2> QED
    BY <1>1, <2>2, <2>4, RolloutAssumption
<1> QED
  BY <1>2, <1>3

LEMMA RolloutHasNotices == RolloutSpec => NoticesSpec
<1>1. RolloutInit => NoticesInit /\ ClockInit
  BY DEF RolloutInit
<1>2. RecordsTypeOK /\ [RolloutNext]_rolloutVars =>
        [\/ (\E impacts \in ImpactSummaries : NoticesNext(impacts)) /\ UNCHANGED now
         \/ Tick /\ UNCHANGED noticeVars]_<<noticeVars, now>>
  <2>1. ASSUME RecordsTypeOK, Notify
        PROVE  (\E impacts \in ImpactSummaries : NoticesNext(impacts)) /\ UNCHANGED now
    BY <2>1, LevelsAreSummaries DEF Notify
  <2> QED
    BY <2>1 DEF RolloutNext, rolloutVars, Deliberate, ChangeContract, KeepRecords, GiveEvidence,
                ServeAgents, ServeRequests, ImportCatalog, PassTime
<1>3. RecordsIInv => RecordsTypeOK
  BY DEF RecordsIInv
<1> QED
  BY <1>1, <1>2, <1>3, RolloutHasRecords, RecordsInvariance, PTL DEF RolloutSpec, NoticesSpec

\* of the imports.
LEMMA RolloutHasCatalog == RolloutSpec => CatalogSpec
<1>1. RolloutInit => CatalogInit
  BY DEF RolloutInit
<1>2. [RolloutNext]_rolloutVars => [CatalogNext]_catalogVars
  BY RolloutStep
<1> QED
  BY <1>1, <1>2, PTL DEF RolloutSpec, CatalogSpec
-----------------------------------------------------------------------------
\* The discussion keeps its types: initially,
LEMMA InitDeliberation == DeliberationInit => DeliberationTypeOK
BY DEF DeliberationInit, DeliberationTypeOK

\* by every step,
LEMMA StepDeliberation ==
  DeliberationTypeOK /\ [DeliberationNext]_deliberationVars => DeliberationTypeOK'
<1> SUFFICES ASSUME DeliberationTypeOK, [DeliberationNext]_deliberationVars PROVE DeliberationTypeOK'
  OBVIOUS
<1>1. ASSUME NEW e \in Entries, NEW p \in Proposals, NEW kind \in Kinds, NEW blocking \in BOOLEAN,
             CreateDiscussionEntry(e, p, kind, blocking)
      PROVE  DeliberationTypeOK'
  BY <1>1 DEF DeliberationTypeOK, Entry, Decision, CreateDiscussionEntry
<1>2. ASSUME NEW e \in Entries, NEW closing \in Closings, ResolveDiscussionEntry(e, closing)
      PROVE  DeliberationTypeOK'
  BY <1>2 DEF DeliberationTypeOK, Entry, Decision, ResolveDiscussionEntry
<1>3. ASSUME NEW d \in Decisions, NEW p \in Proposals, NEW stated \in BOOLEAN,
             NEW approvedByHuman \in BOOLEAN, RecordDecision(d, p, stated, approvedByHuman)
      PROVE  DeliberationTypeOK'
  BY <1>3 DEF DeliberationTypeOK, Entry, Decision, RecordDecision
<1>4. ASSUME NEW d \in Decisions, SupersedeDecision(d) PROVE DeliberationTypeOK'
  BY <1>4 DEF DeliberationTypeOK, Entry, Decision, SupersedeDecision
<1>5. CASE UNCHANGED deliberationVars
  BY <1>5 DEF DeliberationTypeOK, deliberationVars
<1> QED
  BY <1>1, <1>2, <1>3, <1>4, <1>5 DEF DeliberationNext

\* and so always.
LEMMA DeliberationTypes == RolloutSpec => []DeliberationTypeOK
<1>1. RolloutInit => DeliberationTypeOK
  BY InitDeliberation DEF RolloutInit
<1>2. DeliberationTypeOK /\ [RolloutNext]_rolloutVars => DeliberationTypeOK'
  BY RolloutStep, StepDeliberation
<1> QED
  BY <1>1, <1>2, PTL DEF RolloutSpec
-----------------------------------------------------------------------------
\* Every state of the rollout has the shape the code gives it.
THEOREM RolloutTypes == RolloutSpec => []RolloutTypeOK
<1>1. /\ RecordsIInv => RecordsTypeOK
      /\ GateIInv => GateTypeOK
      /\ McpIInv => McpTypeOK
      /\ ApiIInv => ApiTypeOK
      /\ CatalogIInv => CatalogTypeOK
      /\ NoticesIInv => NoticesTypeOK
  BY DEF RecordsIInv, GateIInv, McpIInv, ApiIInv, ApiTypeOK, SessionsIInv, WebhooksIInv, CatalogIInv,
         NoticesIInv
<1>2. DeliberationTypeOK /\ RecordsTypeOK /\ GateTypeOK /\ McpTypeOK /\ ApiTypeOK /\ CatalogTypeOK
        /\ NoticesTypeOK /\ now \in 1 .. MaxTime => RolloutTypeOK
  BY DEF RolloutTypeOK
<1> QED
  BY <1>1, <1>2, DeliberationTypes, RolloutHasRecords, RecordsInvariance, RolloutHasGate, GateInvariance,
     RolloutHasMcp, McpInvariance, RolloutHasApi, ApiInvariance, RolloutHasCatalog, CatalogInvariance,
     RolloutHasNotices, NoticesInvariance, PTL

\* INV-015, INV-034, INV-035, what a server's answers say and what an inbox shows, as far as
\* the store gives back dates, hold of the rollout as a whole, in whatever order its parts
\* take their steps.
THEOREM RolloutIsSound ==
  RolloutSpec => [](/\ FreshMeansCurrent /\ ReadinessAgreesWithGate
                    /\ OncePerKey /\ OkIsRecorded
                    /\ PromisedExpiryHolds /\ AcknowledgedIsAttached /\ ImportsAreRooted
                    /\ LatestStatusWins /\ OpenNoticesAreShown)
BY RolloutHasRecords, UnstaleIsCurrent, RolloutHasGate, TwoReadingsAgree,
   RolloutHasMcp, KeyStoresOnce, AnsweredOkIsRecorded,
   RolloutHasApi, PromisesKept, AcknowledgementsAreTrue,
   RolloutHasCatalog, ImportsStayRooted,
   RolloutHasNotices, StatusFollowsLastChange, NothingOpenIsHidden, PTL

\* Whatever is done with the contracts, and whatever impacts are recorded, the changelog of
\* a compilation names every part that the diff finds changed.
THEOREM NoChangeIsSilent == RolloutSpec => []NoSilentChange
<1>1. RolloutInit => CompilerIInv
  BY CompilerStarts DEF RolloutInit
<1>2. CompilerIInv /\ [RolloutNext]_rolloutVars => CompilerIInv'
  <2>1. [RolloutNext]_rolloutVars => CompilerNext(RecordedImpacts) \/ UNCHANGED compilerVars
    BY DEF RolloutNext, rolloutVars, Deliberate, ChangeContract, KeepRecords, GiveEvidence, Notify,
           ServeAgents, ServeRequests, ImportCatalog, PassTime
  <2> QED
    BY <2>1, CompilerGoesOn
<1> QED
  BY <1>1, <1>2, CompilerLogsChanges, PTL DEF RolloutSpec

\* Nor does another part, or time, open the gate or bring a session back that has ended.
THEOREM RolloutOpensNothing == RolloutSpec => ExpiryNeverOpens /\ EndedSessionsStayEnded
BY RolloutHasGate, TimeNeverOpens, RolloutHasApi, EndedForGood, PTL

\* What trace_dependency_impact tells a consumer can be relied upon: of a change that was
\* analysed, and of which the recorded analysis is not stale, a consumer told "none" goes on
\* reading the fields that it uses, if their names have no dot, under the terms it has
\* declared now.  The contracts are those the diff can compare, and the consumer did not
\* declare its terms twice at the same time.
NoneIsKept ==
  \A from, to :
    (/\ recorded # <<>> /\ ~StaleAnalysis(Latest)
     /\ Latest.findings = DiffContracts(from, to)
     /\ ComparableContracts(from, to) /\ EnumsStay(from, to)) =>
       \A e \in Declared :
         Latest.impacts[e].impact = "none" /\ ~edges[e].again =>
           StaysReadable(from, to, edges[e].terms)

THEOREM ToldNoneStaysReadable == RolloutSpec => []NoneIsKept
<1>1. FreshMeansCurrent => NoneIsKept
  <2> SUFFICES ASSUME FreshMeansCurrent, NEW from, NEW to,
                      recorded # <<>>, ~StaleAnalysis(Latest),
                      Latest.findings = DiffContracts(from, to),
                      ComparableContracts(from, to), EnumsStay(from, to),
                      NEW e \in Declared, Latest.impacts[e].impact = "none", ~edges[e].again
               PROVE  StaysReadable(from, to, edges[e].terms)
    BY DEF NoneIsKept
  <2>1. Latest.impacts[e] = AnalyzeConsumer(Latest.findings, edges[e].terms)
    BY DEF FreshMeansCurrent
  <2>2. AnalyzeConsumer(DiffContracts(from, to), edges[e].terms).impact = "none"
    BY <2>1
  <2> QED
    BY <2>2, NoImpactStaysReadable
<1> QED
  BY <1>1, RolloutHasRecords, UnstaleIsCurrent, PTL

\* The compiler does not keep what is published comparable: a request can be given an enum
\* without values, and an import can drop an enum.  Where neither happens and the schemas are
\* whole (FittingStep), it does, because validateOutput refuses an empty enum in a response;
\* and then the verdicts and the impacts mean something.
THEOREM FittingChangesStayComparable ==
  ASSUME NotObjectIsNone, MaxDepth \in Nat, MaxDepth >= 3,
         NEW CONSTANT coded, NEW CONSTANT values, NEW CONSTANT lasting, StartFits(coded, values, lasting)
  PROVE  RolloutSpec /\ [][FittingStep(coded, values, lasting, RecordedImpacts)]_compilerVars =>
           [](SuccessionsComparable /\ QuietVerdictsAreSafe /\ NoneMeansReadable)
<1> DEFINE Inv == CompilerIInv /\ CompilerFits(coded, values, lasting)
           Step == FittingStep(coded, values, lasting, RecordedImpacts)
<1>1. RolloutInit => Inv
  BY CompilerStarts, CompilerStartsFitting DEF RolloutInit
<1>2. Inv /\ [Step]_compilerVars => Inv'
  <2>1. Step => CompilerNext(RecordedImpacts)
    BY FittingIsStep
  <2>2. \A enum \in SUBSET values : enum # NoEnum
    BY DEF StartFits
  <2> QED
    BY <2>1, <2>2, CompilerGoesOn, CompilerGoesOnFitting
<1>3. Inv => SuccessionsComparable
  BY CompilerStaysComparable DEF StartFits
<1>4. SuccessionsComparable => QuietVerdictsAreSafe /\ NoneMeansReadable
  BY QuietSuccessionsServe, NoImpactMeansReadable
<1> HIDE DEF Inv, Step
<1>5. RolloutInit /\ [][Step]_compilerVars => [](SuccessionsComparable /\ QuietVerdictsAreSafe /\ NoneMeansReadable)
  BY <1>1, <1>2, <1>3, <1>4, PTL
<1> QED
  BY <1>5, PTL DEF RolloutSpec, Step
=============================================================================
