# Verification of API Accord

API Accord records contracts between services, the context around them and the
decisions to change them in an append-only event ledger on PostgreSQL. Guards of the domain
decide on projections of that ledger; a job queue on the same database does background work.
This directory holds TLA+ modules of its core, the TLC configurations that check them, and
theorems about them that TLAPS proves.

## The system

| Component | State | Operations | What is hard |
|---|---|---|---|
| Event ledger (`packages/persistence/src/postgres-event-store.ts`, `packages/domain/src/events.ts`) | table `domain_event`, primary key (type, id, version) | `append`, `getStream`, `getAll`; `#append` in every service | three statements without a transaction, stale versions, lost answers |
| Job queue and worker (`apps/worker/src`) | table `job_queue`; per process `#running`, `#busy`, the timer, `shuttingDown` | `claim`, `complete`, `fail`, `start`, `stop`, `shutdown` | concurrent claims, names shared by processes, crashes, UPDATEs executed late |
| Change proposal workflow (`service.ts`, `projection.ts`, `rules.ts`) | the streams of the proposal and of contract versions | the commands of `DomainService` on proposals and versions | guards judge several old reads, the version check covers one stream only |
| Context items, drift incidents (`service.ts`, `observation.ts`) | streams of context items, observations and incidents | propose, confirm, correct, resolve, promote | cross-stream order by clock, promotion in two appends, generations |
| Discussion and decisions (`service.ts`, `projection.ts`) | entries and decision records | create, resolve, record, supersede | nothing asks what was said before |
| Contract diff, compiler (`contract-diff.ts`, `compiler.ts`) | none; its output is published by the caller | `diffContracts`, `assessConsumerImpact`, `compile` | verdicts from incomplete findings, changes that undo each other, a base that has moved |
| Dependencies, impact analysis (`dependency.ts`, `impact.ts`, `service.ts`) | edges, assumptions, analyses pinned to a proposal | declare, deprecate, analyse, record | declarations in several appends, edges that change between the reads |
| Evidence and rollout gate (`evidence.ts`) | evidence and waivers of a contract version | attach, waive, judge | results that expire, two computations of one fact |
| Notifications (`notification.ts`) | streams of notification ids | generate, dispatch, change status, subscribe | a key in several streams, order by clock, snoozing |
| MCP server (`packages/mcp/src/server.ts`) | the map `#idempotency` | `dispatch` and the commands of its tools | retries beside the call they repeat, errors that are remembered, restarts |
| Identity, sessions (`identity.ts`, `session.ts`, `apps/api/src/auth.ts`) | table `auth_session`, streams of credentials | login, use, logout, clean-up; issue, rotate, revoke | a row read by one statement and extended by another |
| GitHub ingestion (`apps/api/src/github.ts`, `app.ts`) | `seenDeliveryIds`, in memory | deliver | deliveries repeated, concurrent, failing |
| Catalog import (`catalog.ts`) | streams of contracts, versions, operations, schemas | register, import | a long series of appends without a transaction |
| Automation, context assembler, security helpers, HTTP servers and views, configuration | none | pure functions, rendering | — |

All services share one store. A request reads the ledger with `getAll`, folds it,
judges, reads the current version of one stream and appends to it. Nothing else
synchronises requests, across processes or within one. The worker shares only the
database with them.

What makes each component correct:

- Ledger: streams without gaps; stored events never change; an acknowledged append is
  there; an append that names a version takes effect at that version only.
- Queue: one handler per job at a time; outcomes are final and earned; attempts
  are counted; jobs settle; a shutdown ends and leaves nothing behind.
- Contracts and consumers: a quiet verdict breaks nobody, no change is silent, what is
  reported as current is.
- Gate and notifications: time alone opens nothing; nothing that somebody has to do gets lost.
- Servers: a command runs once for its key, an answer is true after a restart, a session
  that ended stays ended, an acknowledged delivery left its evidence.
- Incidents and items: every observation counts in one incident, a resolution lasts, a
  recurrence surfaces, a correction is not destroyed (INV-012).
- Workflow: acceptance, completion and publication happen in states their guards
  would accept (INV-001, -002, -003, -005, -006 of `docs/product/invariants.md`).

## Modules

| Module | What it is |
|---|---|
| `AppendOnlyLog` | the promise of the `EventStore` port: an atomic append. `InMemoryEventStore` is this operation literally |
| `EventLedger` | `PostgresEventStore.append` under the services' `#append`, statement by statement; implements `AppendOnlyLog` |
| `JobLifecycle` | the promise of ADR-0002 about a job: what may become of it, step by step |
| `JobQueue` | table, `PostgresJobQueue`, `WorkerRuntime` and the shutdown of the worker processes; implements `JobLifecycle` |
| `ProposalWorkflow` | one proposal and its contract versions under `DomainService`, read by read, on top of the atomic append |
| `DriftIncidents` | runtime observations, the incidents folded from them, and the context items incidents are promoted to |
| `Deliberation` | discussion entries and decision records, as the compiler reads them |
| `ContractDiff`, `ImpactAnalysis` | the findings between two contracts with their verdict, and what they mean for a consumer |
| `ContractCompiler` | compiling approved changes, and publishing what was compiled or imported |
| `Clock` | the time that expiries, deadlines and confirmations are compared with |
| `DependencyRecords` | declarations of consumers, and analyses recorded on a proposal |
| `EvidenceGate` | evidence, waivers, requirements, the gate and the readiness of consumers |
| `Notifications` | from the state of a proposal to the inbox of a party |
| `McpServer` | `dispatch` with its cache, in front of the commands of agents |
| `Sessions`, `Webhooks`, `ApiServer` | sessions and credentials, deliveries of GitHub, and the process that serves both |
| `CatalogImport` | imports of contracts as series of appends |
| `Rollout` | the composition of all the parts from `Deliberation` on |
| `EventLedgerProofs`, `JobQueueProofs`, `ProposalWorkflowProofs`, `DriftIncidentsProofs` | theorems about the module of the name |
| `ContractProofs` | theorems about impacts, the diff, the changelog and the contracts published |
| `RecordsProofs` | theorems about `DependencyRecords`, `EvidenceGate`, `CatalogImport` and `Notifications` |
| `ServerProofs` | theorems about `McpServer` and `ApiServer` |
| `RolloutProofs` | what of these holds of the composition |
| `MC...` | instances for TLC |

### EventLedger

`table` is `domain_event`: for every stream a function from versions to rows, so that a gap
or an overwritten row can be expressed. Each caller is at one statement (`pc`). `StartConditional`
is `#append`, `StartUnconditional` the seed, which gives no expected version. `ReadStream`,
`VersionMatches`/`VersionDiffers` and `Insert`/`Collide` are the three queries, `ReportCollision`
the query of the catch block. `QueryFails` is any other error; `InsertUnacknowledged` a row
that was stored although the caller sees an error. The two columns that the
properties do not tell apart (event id, clock, correlation id) are left out.

The header of the store says the next version is computed under a row lock
(`postgres-event-store.ts:5-8`). It is not: there is no transaction. The refinement and the
proofs show that the primary key suffices. One trace of the missing lock is visible in
`AppendOnlyLog!Refuse`: two appends *without* expected version can collide, and one is refused.

### JobQueue

`job` holds the columns the SQL looks at: status, attempts, `locked_by`, and whether
`available_at` has passed. `at` is where the poll of a worker is; `#busy` is true unless it is
"resting". `SELECT ... FOR UPDATE SKIP LOCKED` is one step that chooses the best row nobody
has locked; the row lock lasts from there to the COMMIT (`TakeJob`). `mode` follows
`shutdown()`: "closing" while the health server closes, "draining" once `stop()` has cleared the
timer and waits for `#busy`, "down" when the pool is closed; "deaf" is the branch in
which the health server cannot be closed: `stop()` is then never called, and `shuttingDown` ignores
every further signal.

`Work` is what happens when nothing breaks; `Faults` adds crashes and restarts, failing queries, a
COMMIT whose answer is lost, and UPDATEs of `complete()` and `fail()` whose connection
breaks: the caller sees an error and the server executes them later (`late`), or never.
`WorkerId` may give two processes one name, as the default `local-worker` does.

`JobLifecycle` knows a job only by its status, its attempts, who works on it and whether a handler of it resolved. There
the claim is one step (`Take`) that finds nobody at work, completion is earned (`Complete`), a job given back (`GiveBack`)
is tried again while an attempt is left, and nothing leaves "completed" or "failed". `ImplementsJobLifecycle` maps
the columns to these (`statusBar`, `attemptsBar`) and the polls that hold a job to its handlers (`handlersBar`); the SELECT, the
names, the late UPDATEs and the state of the processes are hidden. It does not say that a job moves on or that a success is
recorded: the code promises neither.

### ProposalWorkflow

`proposal` is what the projections make of the proposal's stream: `FoldState`, `FoldApprovals`,
`FoldReadiness`, `FoldWork` are the four folds. `published` counts the publications in
the stream of each version. A command is a record named by the event it appends; `skips`
says which checks its input replaces (requirements stated by the caller in
`acceptChangeProposal`, a missing `proposalId` in `publishContractVersion`). It makes
`Reads(e)` reads, each judged by `Holds` (`PassGuard`, `Refuse`), then reads the version
(`ReadVersion`) and appends (`Append`, `Conflict`).

Versions only grow, so comparing them asks whether the stream was written since: `behind` is
the set of clients for which it was. `outrun` and `unresolved` are history variables for the
properties: who has read before the latest event, which objections are really open. The
append is atomic, as `AppendOnlyLog` specifies; an append that took effect
unacknowledged is an `Append` here. Guards on the input alone (evidence id present, sample
not empty, a reason given), deadlines, texts and the acknowledged flag of a consumer are left out: they
neither read nor write what the properties are about.

### DriftIncidents

`ledger` is the sequence of stored events. `IncidentsIn` is `driftIncidentsFrom`, which goes through all streams by
time: `Replay` is what it knows at each time, and what `Happens` then is an event, or nothing. `ItemIn` is
`contextItemFrom`, which goes through one stream by version. A command puts the
events it will append into `todo`; each append is `Prepare` (the stream's version is read and
the row gets its `time`) followed by `Store`, or the command ends in `Fail`. In between other
events with later times are stored, so the ledger is not ordered by time and
an incident can be computed anew with an earlier past. `PromoteDriftIncident` is the only command with two
appends. An incident is a violation (the key of `base`) and its generation; `ItemOf` is the item id derived from it,
any function, since the id is not injective. `Prepare` reads the version and the time in one step: what is stored in
between leads to a `ConcurrencyError`, hence to `Fail`.

One clock that never gives a time twice is assumed (`TimesDiffer` is then an invariant, and sorting by time the same as
looking for the event of each time): ties within a millisecond and clocks of
several processes that disagree are not modelled. Callers resolve, promote and amend only what they have seen.
The severity, samples and texts of an incident are left out, and so are the further amendments
of an item, which are unguarded appends like a challenge.

### Contracts: ContractDiff, ImpactAnalysis, Deliberation, ContractCompiler

A contract maps operations to a request, responses by status and security; a schema has the
parts that `diffSchema` compares. Its recursion is written out to the four levels at which the code stops. A
finding has its rule, class and path; `Verdict` and `AssessConsumer` are the folds over them. A consumer matches
a finding by what `fieldOfPath` makes of its path (`FieldOf`): the text after the last dot, which may lie inside the last name.
Names are model values; `Dotted` gives those with a dot, each with what follows its last one (`LastPart`). Of the label of
an operation or of its request the code compares the end with the names of fields as well; no field is called like
that (`NoField`). `Mentions`, `Covers` and `Includes` are the inclusions of texts.

`Compile` applies changes that cite decisions, one after the other, to a copy of the contract published last, and is
refused as a whole when one does not resolve. Superseded decisions are linked decisions, as in `compile_spec`. That tool passes
the compiler no analyses, other callers pass those that are recorded: the model passes
what is recorded, possibly nothing. `PublishArtifact` does not ask whether the base is still the latest, because nothing does.
`QuietVerdictsAreSafe` and `NoneMeansReadable` compare the verdict with the documents that
both schemas admit (`Documents`, `Reads`), a definition that shares nothing with the diff. `NoneMeansReadable` speaks of fields
whose names have no dot; of the others it is false, see below.
`HasEmptyEnum` follows the properties down to `MaxDepth` levels, where the code recurses: no schema of an instance is deeper.

The findings show what the verdicts do *not* say, and the properties name it: a required response field that becomes
optional and a schema that stops being an object are no findings; a breaking finding on an
operation, an enum value removed or a nested object is no impact on a consumer. The level "informational" is never reached,
because every semantic finding asks for an action.

Where the verdicts mean something is named as well. `Comparable` schemas are objects on both sides, a reader requires only
fields that it declares, and does not have an enum without values where the writer has none; `EnumsStay` says that no field of a
response loses its enum altogether, which the diff takes for values removed, hence for nothing a consumer has to
see. `SuccessionsComparable` states both of everything that is published or compiled. The compiler alone does not guarantee it: a
request can be given an enum without values in three changes (a field removed, added again with the enum, its value removed),
because `validateOutput` looks for empty enums in responses only and the diff then finds nothing; and an import can
drop an enum. `FittingStep` is a step at which neither happens: schemas are whole (`Whole`), a field of a response has an enum
in every contract or in none (`Coded`), and every enum of a request has a value that no change removes (`Keeps`); of the enums of
responses it says nothing more, since `Sane` (`validateOutput`) guards them. Nothing in the code asks for such steps: what is
proved from them is proved of the behaviours that consist of them. The inputs of `MCRollout` all fit (`InputsFit`, which TLC
evaluates), so that the instance checks the verdicts where they are meant to mean something, and shows nothing of contracts that
do not fit. `NoSilentChange` compares an artifact with the base it was compiled from, whatever has been published since.

### DependencyRecords, EvidenceGate, Notifications

`DeclareDependency` is the append of the edge; each assumption is an append of its own
(`AddDeclaredAssumption`), and a failing one ends the declaration (`AbandonDeclaration`). `ComputeAnalysis` reads the edges and pins
their times; `CheckAnalysis`, `ReadProposalVersion` and `RecordAnalysis` are the reads and the append
of `recordImpactAnalysis`. An edge declared twice within one tick is marked (`again`): staleness compares times and cannot see it.

`EvidenceGate` judges a set of evidence against what a change requires. An expiry is a tick; `Outcome` and `Readiness` are the
two functions that read the same evidence. A waiver granted through `attachEvidence` waives nothing, since it has no argument for it.

`Notifications` generates notices into an `outbox` that the caller dispatches one by one; an append may fail. Ids number the
notices of a generation, so that a stream holds several keys and a key is in several streams; `NotificationsFrom`
folds all of them by time, version and position: `Folding` consumes, one after the other, the `First` of the events that are
left. The order in which a caller names approvers and consumers is any of `Orders`. `NoticesSpec` is the component by itself, of
whatever impacts. No section of the inbox shows a request for review before it is overdue.

What `buildActionInbox` returns depends on the store. `InMemoryEventStore` keeps the events with their dates.
`PostgresEventStore` keeps JSON and `rowToEnvelope` makes no dates of it, so that `snoozedUntil` and `deadline` come back
as text, of which `getTime()` is an error. `Inbox` has the store as an argument (`revived`). Over the latter,
`InboxFails` is the case in which a time is asked for, the end of a snooze or the deadline of an open notice, and the inbox is `NoInbox`.
`OpenNoticesAreShown` speaks of both stores; of the latter it claims only the inboxes of parties for which no date is stored
(`Undated`), and without this hypothesis TLC refutes it.

`EvidenceGate` and `ImpactAnalysis` are modelled over a store that gives back dates. Over the other, `isEvidenceStale` (`evidence.ts:21`)
throws on an expiry and the staleness of a recorded analysis (`impact.ts:271`) on the confirmation time it pinned. Whoever asks gets an
error: nothing opens and nothing is reported as fresh, so `ExpiryNeverOpens` and `FreshMeansCurrent` are not contradicted;
but of an analysis recorded there nobody ever learns that it is current. `ReadinessAgreesWithGate` compares answers: where a
waiver with an expiry matches, the gate throws while the readiness of consumers, which does not look at waivers, does not.

### McpServer, ApiServer, CatalogImport

A call is at one stage: it arrives (scope and key are looked at in the same turn), its command reads and guards, reads the
version, appends, and its result is cached and answered. `Restart` empties the cache and kills the calls under way; what they
appended remains. "ok" found in the cache of another tool's call is an answer the code gives, and
`OkIsRecorded` says as much as it can: somebody's command with the key is stored.

`Sessions` has the rows of `auth_session`, `expiry` 0 for none. A use of a session is the SELECT, the computation of a
new expiry, and the UPDATE, with any number of requests in between; UPDATEs may be executed in another order than they were
computed. `TtlAssumption` says that the configured life of a session does not exceed the 24 hours that
`auth.ts` gives it at every use: a longer one would be cut by the first use. Only the first issue of a credential that was
neither rotated nor revoked can log in; so after a rotation neither the old secret nor the new one does. What is promised
is the expiry of the login: the later one that an answer to a use (`/me`) reports can be cut by an UPDATE that is executed after it.
No migration of the repository creates `auth_session`: the table is known from the statements of
`packages/persistence/src/session.ts` alone, and the properties suppose that it is there with the columns these name. The
in-memory store, which keeps a session at the very instant of its expiry, is not modelled. Logins with several
credentials differ in nothing.

`Webhooks` has attempts at deliveries. The id counts as seen only after the answer was produced, which is what makes
a retry after a failure find its evidence missing and store it. `RestartApi` cuts the requests and attempts under way and forgets the ids.
`CatalogImport` runs imports beside each other; what an importer has still to append is the set of events of its source,
of which the `Upcoming` ones may be next: the contract, the version, the operations each with its schemas, the
failures. The order in which a document has its operations is left open, and the catalogue is a set: how often an event is
stored does not matter to what rests on what. `BreakOff` is a conflict or an error, with or without its event
stored. Events of operations and schemas do not name the import that stored them; the label of their
source in the model only serves the property.

### Rollout

`Rollout` shares one clock among declarations, analyses, evidence, notices and sessions, hands the recorded
impacts to the compiler and to the notifications, and the decisions of the deliberation to the compiler. `ImportCatalog` and the contracts that the
compiler knows as imported are separate: the one is about which events an import leaves, the other about what a
version contains.

## Runs

| Run | Instance | Shows |
|---|---|---|
| `ledger` | 3 callers, 2 streams, `MaxVersion` 2 | the ledger's properties, and that it implements `AppendOnlyLog` (its types are proved, not run) |
| `queue_faults` | 2 processes with one name, 2 jobs (2 attempts; 1 attempt, higher priority), 2 late UPDATEs | safety under every fault, and that the queue implements `JobLifecycle` |
| `queue_calm` | 2 processes, own names, one job without handler | `NothingStranded`, and the liveness of jobs and shutdown |
| `proposal` | 2 callers, 1 version; on the way to acceptance (1 approval of 2, 1 open objection at a time) or to completion (1 work item, 1 consumer, all facts) | the commands of the workflow |
| `drift` | 2 clients, 1 violation, an item per generation, 6 events | observation, resolution, promotion, amendments |
| `rollout` | ten scenarios, below | the parts from the deliberation to the consumers, and the servers beside them |
| `queue_crash`, `queue_outcome`, `proposal_resolve`, `proposal_publish`, `proposal_republish`, `drift_correction` | as above, one or two callers | what the documentation states and the code does not do, below |

Why the bounds are enough. Ledger: a collision needs two appends in flight and its report a
third that goes on writing; a version is compared, incremented and taken, so streams of length 2,
to which three callers can still append, show every order of these. No append *starts* on a stream of `MaxVersion`, so streams
can grow beyond it. Queue: two processes race for a job, one of them can die and come back, and
one late UPDATE of each kind can meet every state of the job. Workflow: each property compares what one client has read
with what another appends, and no guard distinguishes more than one subject of a kind; the
second objection is there to be mistaken for the first, the second approver to be
missing. Incidents: violations share nothing but the clock, and six events are a recurrence after a resolution, with a
late event and a promotion. The rollout is treated below. Deadlock is checked except where the system may stop: the
ledger at its bound, the rollout at the bounds of its versions, records and time, and workers that have all been shut down.

Each behaviour of `rollout` plays one scenario, that is, some of the actions of `Rollout`; the invariants of all are
checked in each. Steps of parts that share no variable commute, so that mixing all of them would multiply states and
show nothing new.

| Scenario | Steps | Instance |
|---|---|---|
| compile | deliberate, compile, publish, import | 1 decision and entry; 19 inputs of up to 3 changes, 3 imports, 2 versions; `MaxDepth` 3; a field `payer.id` that is used and can be removed |
| declare | declarations with assumptions, deprecation, subscriptions, time | 2 edges, 2 terms, 2 ticks |
| analyse | declarations and analyses, time | 2 analysts, 2 records; one edge is declared again on other terms, the other before the first analysis |
| document | one analysis, then compile | guides and drafts from recorded impacts |
| evidence | attach, waive, new revision, time | 3 pieces of 2 kinds, 2 revisions, 1 consumer; at most one canary result, which names no consumer |
| deliver | one analysis, then generate, dispatch, change status, time | 3 events, at most 2 notices in an outbox; time passes once the analysis is recorded |
| agents | calls and restarts | 4 calls: two with one key, one without, one of another tool with the key and without the scope |
| sessions | credentials, requests, restarts, time | 2 requests, 2 sessions, 2 secrets; a session lives 1 tick, 2 after a use |
| webhooks | attempts and restarts | 3 attempts of one delivery, one badly signed, and one of an event of no interest |
| import | imports and breaks | 2 importers, 2 revisions of a contract, one of which is a partial failure |

These suffice for what the properties compare: an artifact with its base, one analysis with a declaration after it, a piece
of evidence that fails with one that waives and one that passes, a notice dispatched twice around a change of status, a call with
one before it under its key and one beside it, a session read by two requests around its end, a delivery attempted
again while the first attempt runs, an import that breaks off beside another. Two ticks are before and after.

Fairness (`queue_calm`, `queue_crash`). `Poll`, `PollStep`, `StopPolling`, `Close`, `BecomeDue`:
timers fire, queries are answered, handlers settle and time passes. No job or command is
promised fair treatment; that no job starves follows from the attempts being bounded. `Enqueue` and `Shutdown` need not
happen. `queue_crash` adds that a process that went down is started again.

## What the code does not do

- **A taken job can stay taken** (`queue_crash`). `claim()` looks at pending rows only; a worker that
  dies, or loses the answer to its COMMIT, leaves a row in 'processing' for ever. ADR-0002
  rejects a queue that loses work on a restart. (Without faults none does: `NothingIsStranded`.)
- **A success is recorded as a failure** (`queue_outcome`). `complete()` is in the same `try` as the
  handler: when it throws, `fail()` is called for a job whose handler succeeded. Nothing else has that effect
  (`SuccessIsRecorded`).
- **Objections are counted** (`proposal_resolve`). Resolving one objection twice closes another
  one; INV-005 then lets the proposal through. One caller is enough.
- **Publication ignores objections** (`proposal_publish`) although INV-005 names it.
- **A version can be published twice** (`proposal_republish`): `expectedVersion` is read after
  the guard, so the conflict it is there for goes unnoticed. The same order of reads makes an acceptance
  overlook an objection that is raised meanwhile.
- **A second promotion destroys a correction** (`drift_correction`). Nothing asks whether an incident
  has been promoted; the item is proposed again under its id, and what was known of it is
  forgotten, its correction included. Two concurrent corrections overwrite each other as well. Without
  either, corrections stand (`CorrectionsStandOnce`).
- **The removal of a field with a dot in its name is no impact** (`FieldOf`; in `rollout` with `payer.id`). `fieldOfPath` splits the text of the path at every
  dot and compares the last part: a consumer that uses `payer.id` hears nothing when it is removed, one that uses `id` would.
  INV-007 wants the fields in use looked at, and so would `NoneMeansReadable` without its hypothesis `LastPart(n) = n`: TLC then
  finds the removal at once.
- **A snoozed item does not return over PostgreSQL** (`InboxFails`). The end of the snooze comes back as text, `getTime()` of it is
  an error, and the recipient has no inbox, neither then nor later, although `notification.ts:183-184` says that it returns; a deadline of an open notice has the same effect.
- **Two incidents of one violation can be open** when one is resolved twice: every resolution starts a
  generation. `OneOpenIncident` and `ResolutionLasts` hold as long as no incident is (`ResolvedOnce`).

Where a promise is broken, a theorem says what it takes. The hypotheses restrict what happens, not the code, and each is a
formula over the behaviour that some behaviours satisfy and the counterexample does not:

| Promise | Holds of behaviours in which | Theorem |
|---|---|---|
| `FailedNeverSucceeded` | no answer to `complete()` is lost (`NoCompleteBreaks`); every other fault may occur | `SuccessIsRecorded` |
| `PublishedOnce` | nothing is appended between the first read of a publication and its append (`PublishesUncontended`) | `UncontendedPublishesOnce` |
| `AcceptedWithoutObjection` | the same of acceptances (`AcceptsUncontended`), and only open objections are resolved and none is raised twice (`OrderlyObjections`) | `OrderlyAcceptance` |
| `CorrectionsStand` | no item is proposed twice or corrected twice (`AmendedOnce`) | `CorrectionsStandOnce` |
| `SuccessionsComparable`, hence `QuietVerdictsAreSafe` and `NoneMeansReadable` | every import and every compiled change fits (`FittingStep`) | `FittingChangesStayComparable` |

So an objection overlooked, a version published twice, a success that is lost and a correction that is destroyed
have no other cause than the ones listed.

## Proofs

Each proof module establishes an inductive invariant `IInv` with `Init => IInv`,
`IInv /\ [Next]_vars => IInv'`, one step per action, for every value of the constants allowed by
the named assumptions, and derives the properties from it.

- `EventLedgerProofs`. `Contiguous` alone is not inductive: an INSERT at `last + 1`
  leaves no gap only because the version a caller has read never exceeds the current one,
  which is `ReadsLagBehind`. From both follow `ReceiptHonoured`, `ConflictIsReal`, the action properties
  `HistoryPreserved` and `NoLostUpdate`, and `Refinement`: every statement is a step or a
  stutter of `AppendOnlyLog`.
- `JobQueueProofs`. `OneHandler` needs `RowLocksExclusive` (a locked row is pending) and `HandledIsHeld` (a
  handled one is not); the latter needs `LateUpdatesOutrun`: a `fail()` the server may still
  execute belongs to a job that nobody has taken since, because nobody takes a processing job.
  The lack of a reaper is what makes the guard on `locked_by` sufficient under
  shared names: adding one calls for a stronger guard.
  `NothingStranded` is proved of the behaviours without faults (`CalmSpec`), the only ones it holds of.
  `QueueImplementsLifecycle` maps every step to one of `JobLifecycle` or to a stutter, under the invariant: an UPDATE
  matches the row of its worker only, the invariant says which jobs that can be, and a late one that matches is a
  completion that was earned or gives back a job nobody works on.
  `SuccessIsRecorded` needs `SuccessKept`: a job that succeeded is completed, or its only workers, and the
  only UPDATEs still under way for it, are about to complete it.
- `ProposalWorkflowProofs`. `LastingVerdicts` collects what cannot become false again (flags are never
  cleared), `CurrentVerdicts` what holds until somebody else appends. `CompletedOnlyWhenDone` and
  `PublishedAfterAcceptance` follow from the first, `UncontendedGuardsHold` from the second.
  So do `UncontendedPublishesOnce` and `OrderlyAcceptance`, the latter with `CountIsTrue`: the number the guard looks at
  is that of the open objections, which holds as long as none is raised or resolved twice.
- `DriftIncidentsProofs`. `StreamsInClockOrder` is not inductive: that a prepared event is later than its stream holds
  until somebody else stores one there, and from then on its key is taken. This is `PreparedIsLatest`; it
  needs versions as cardinalities. `CandidatesLinked` needs `LinkComesFirst`, which says what a
  command has still to append. Both hold for any `ItemOf`.

  What the replay of a ledger yields is proved of every log without two events at one time (`Log`, which `TimesDiffer`
  makes the ledger), by induction over time: the reports are `Shaped` (no incident beyond the current generation,
  the current one open), the sum of their occurrences is the number of observations so far (`ReplayCounts`), no
  resolution hides a later observation (`ReplaySurfaces`), and when no incident is resolved twice those of
  earlier generations are closed (`ReplayTidies`).
  `ResolutionLasts` compares two replays, with and without an event that joins late. They `Agree` on generations and
  on the status of what both have seen, unless the event is a resolution: then the longer one is `Ahead` by one generation
  from that time on. For this, every later event must do the same in both, hence `SeenBeforeResolved`:
  whatever has joined the ledger since, an incident stays seen before the time of its resolution. This is
  the invariant that makes a resolution safe against late events, and nothing in the code states it.
  `CorrectionsStandOnce` rests on what `contextItemFrom` yields for any stream: what it knows of an item, each correction
  included, stems from an event in the ledger (`Founded`, by induction over the versions), so an event that would overwrite it
  is a second one of its type.
- `ServerProofs`. `OncePerKey` speaks of calls that were answered before another arrived; it needs
  `AnsweredIsCached` (the cache holds a result for them until a restart) and `LaterIsAnswered`
  (so the later one never reaches its command). `OkIsRecorded` needs the same of the cache,
  `CachedOkIsRecorded`, and of calls that have ended and are not answered yet.
  `PromisedExpiryHolds` needs `UsesOutlastPromises` and `RowsOutlastPromises`: an UPDATE under way carries an expiry no
  earlier than what the login promised, so whichever is executed last, the row keeps the promise; this is where
  `TtlAssumption` is used. `EndedSessionsStayEnded` is proved of every step. `AcknowledgedIsAttached` needs `SeenIsAttached`: an id
  counts as seen only once its evidence is stored.
- `RecordsProofs`. `FreshMeansCurrent` holds because every snapshot, pinned or recorded, *follows* the edges: no
  time of it is later than that of the edge, and an equal time means equal terms (`SnapshotsFollow`).
  Time only takes away evidence that is current (`ExpiryNeverOpens`), and both readings pick their result from
  the same current evidence (`ReadinessAgreesWithGate`), for any set of it; no invariant is needed.
  `ImportsAreRooted` needs `AppendedIsStored`: what an importer has not still to append, the catalogue has.
  `LatestStatusWins` and `OpenNoticesAreShown` speak of the result of the fold. `Before` orders the events totally
  (`BeforeIsTotal`), so of those left there is a first (`OneComesFirst`), and after any number of them what is known of each
  key is true of the events consumed so far (`Tells`, by induction in `FoldedIsTrue`): the first dispatch is there, the status is that of
  the latest change. For this no change may come before the dispatch of its key, or `Fold` loses it. It does not, because a
  change follows a dispatch in its own stream (`ChangesFollow`) and neither the clock nor a stream runs back
  (`StoredInOrder`): had a change another id than the dispatch it answers, nothing would order the two within one instant. That
  the notice is in the inbox of whoever was asked takes that a key names its recipient (`Addressed`); the keys of requests for
  review do not, since the provider and a consumer may share a name. And it takes that there is an inbox: over a store that gives back
  dates there always is, over another where no notice of the party has one (`UndatedInboxShows`).
- `ContractProofs`. If no finding breaks anything, an analysis has no blocking impact. `QuietChangesServe` goes level by
  level through two comparable contracts: where `diffSchema` finds nothing that asks for anything, every document of the
  one is read by the other. `NoImpactStaysReadable` says the same of the fields a consumer declared under names without a dot. Both are theorems about any two
  contracts, with comparability as hypothesis; `SuccessionsComparable => QuietVerdictsAreSafe` and `=> NoneMeansReadable`
  carry them to what is published. That the hypothesis is needed, and where the code breaks it, is said above.
  `FittingChangesStayComparable` (in `RolloutProofs`) derives it for behaviours of fitting steps: every contract reached fits
  (`CompilerFits`), because each of the five kinds of change to a schema leaves one that fits (`ChangedIsWhole`, `ChangedKeeps`,
  `ChangedIsCoded`), hence a series does (`ApplyAllFits`), and two contracts that fit are comparable once no enum of a response is empty. That
  `HasEmptyEnum` finds one on each of the four levels (`SaneIsValued`) takes `MaxDepth >= 3`; that the marker `NotObject` is not
  itself a schema is `NotObjectIsNone`. In the middle of a series an enum may be empty, which is why `Sane` is not part
  of what each change preserves.
  `NoSilentChange` needs `LoggedOnly`: what of an operation the changelog does not name is as it was. One change keeps it
  (`OtherPartsStay`, `ChangeIsLogged`), hence a series of them does, by induction over its length
  (`ApplyAllIsLogged`), also when later changes undo earlier ones. As the diff finds nothing between a schema and itself
  (`NothingDiffers`), and what it finds lies in the part it was asked about (`PartDiffers`), each finding has its entry.
- `RolloutProofs`. No part writes a variable of another, except for the clock they share: every step of `Rollout` is, projected to a
  part, a step of it or a stutter (`RolloutHas...`), so the invariants and the action properties of the parts hold of the composition.
  The notifications' step depends on the impacts recorded last: that these are summaries of consumers with a recipient follows from the
  types of the records (`LevelsAreSummaries`) and `RolloutAssumption`. The compiler's step depends on them too, but nothing
  of what is proved of it does (`NoChangeIsSilent`). `ToldNoneStaysReadable` joins two parts: an analysis that is not stale says
  what one would say now, and where that is "none" the consumer reads what it uses, under names without a dot, as before; hence
  so does a consumer that was told "none" some time ago, under the terms it has today. Like `NoImpactStaysReadable` it is about
  contracts that are comparable.

Induction over data is done by sets: a set that contains 0 and with every number the next contains all
(`SetInduction`, from the least element that a well-founded order gives), so that no operator has to be passed to
a theorem. Recursive functions are shown to be what their definition says by constructing them (`ReplayExists`, `SumsExist`,
`FoldingExists`, `StepsExist`, `LevelsExist`).

Some properties are proved and not repeated by the runs: `HistoryPreserved`, `ReadsLagBehind` and the types of the ledger, `HandledIsHeld`,
`RowLocksExclusive`, `LateUpdatesOutrun` and `OutcomeIsFinal` of the queue (the last is part of `ImplementsJobLifecycle`), `LastingVerdicts`, `CurrentVerdicts` of the workflow,
`PreparedIsLatest`, `LinkComesFirst`, `TimesDiffer`, `SeenBeforeResolved` of the incidents, `NoticesIInv`, `CompilerIInv` and
`CompilerFits` of the rollout. They are the parts of the inductive
invariants that the others rest on; TLC has checked each on the instance of its module.

What some of the properties leave open, because the code does:

- `CompletedOnlyWhenDone` speaks of the flags of the life cycle. A work item or a consumer added between the second read of a completion
  and its append is overlooked; `UncontendedGuardsHold` covers it only where nobody else appends.
- `OncePerKey` speaks of retries that arrive after the answer and before a restart. Concurrent ones, and those after a restart, run the
  command again.
- `OneOpenIncident` and `ResolutionLasts` suppose that no incident is resolved twice.
- `QuietVerdictsAreSafe` excludes what the diff does not look at; it says that there is nothing else of the kind.
- `JobsSettle` rests on attempts and jobs being finite. That a stream of urgent jobs does not starve the others is neither
  claimed nor true.

Only model-checked: `JobsSettle` and `ShutdownEnds` (liveness under fairness is beyond the prover), and the violations: that
the code breaks a promise takes one behaviour, which TLC gives.

## Not modelled

- Automation: plans, patches and previews are pure, and the port to the platform that would carry them out is wired to
  nothing. The context assembler and the security helpers are pure functions whose subject is text.
- HTTP routing, health probes, views, configuration, logging: no state of their own.
- Amendments of an impact analysis: an event that nobody reads and that can only make another append to the proposal fail,
  which `RecordAnalysis` allows for anyway.
- The answers of the reading tools of the MCP server, events of principals and scopes, the adapter that sends pull requests to
  GitHub, the further amendments of context items (appends without a guard, like a challenge).
- Clocks that disagree, those of several processes and those of the API and the database.

Some pure functions of the modelled files are translated and used by no run, because no state depends on what they return:
`NotifiesNow`, `OwnerOrFallback`, `SubscriptionCovers`, `CanOverrideVerdict`, `OverallRisk`, `Allowed`, `PolicyViolates`, `RequiredReviewers`,
`ConflictingAssumptions`.
