SPECIFICATION ScenarioSpec
CONSTANTS
  p1 = p1
  e1 = e1
  d1 = d1
  team = team
  k1 = k1
  k2 = k2
  s1 = s1
  c1 = c1
  c2 = c2
  c3 = c3
  c4 = c4
  r1 = r1
  a1 = a1
  a2 = a2
  q1 = q1
  q2 = q2
  h1 = h1
  h2 = h2
  h3 = h3
  h4 = h4
  b1 = b1
  b2 = b2
  i1 = i1
  i2 = i2
  m1 = m1
  m2 = m2
  o1 = o1
  o2 = o2
  NoSecret = NoSecret
  NoSession = NoSession
  NotObject = NotObject
  NoSchema = NoSchema
  NoEnum = NoEnum
  NoField = NoField
  Dotted <- DottedNames
  NoTeam = NoTeam
  NoKey = NoKey
  None = None
  Nothing = Nothing
  Nobody = Nobody
  MaxTime = 2
  Mentions <- SameText
  Covers <- OperationText
  Includes <- OperationText
  Proposals = {p1}
  Entries = {e1}
  Decisions = {d1}
  BaseContract <- FirstContract
  Imports <- ImportedContracts
  Inputs <- CompileInputs
  Terms <- AllTerms
  MaxDepth = 3
  MaxVersions = 2
  Edges = {k1, k2}
  Offers <- DeclaredTerms
  Statements = {s1}
  Opposed = {}
  Analysts = {a1, a2}
  Diffs <- SomeDiffs
  MaxRecords = 2
  Revisions = {r1, r2}
  Consumers = {k1}
  Criticalities = {"critical"}
  ChangeKinds = {"enum-value-added"}
  MaxEvidence = 3
  Parties = {team}
  Approvers = {team}
  Provider = team
  TeamOf <- TeamOfAll
  DeadlineOf <- Deadlines
  Subscriptions <- Digests
  MaxNotices = 3
  Calls = {c1, c2, c3, c4}
  KeyOf <- CallKey
  ToolOf <- CallTool
  Scoped = {c1, c2, c3}
  Valid = {c1, c2, c3, c4}
  Human = {c1, c2, c3, c4}
  SubjectOf <- CallSubject
  Requests = {q1, q2}
  Credentials = {"credential"}
  Secrets = {"first", "second"}
  SessionIds = {"x", "y"}
  SessionTtl = 1
  TouchTtl = 2
  Attempts = {h1, h2, h3, h4}
  DeliveryOf <- AttemptOf
  Signed = {h1, h2, h4}
  Recording = {b1}
  Importers = {i1, i2}
  ImportSources = {m1, m2}
  ParsedOf <- Parsed
  RolesOf <- Roles
  Skipping = {m2}
  Services = {"service"}
SYMMETRY Interchangeable
CHECK_DEADLOCK FALSE
INVARIANTS RolloutTypeOK SuccessionsComparable QuietVerdictsAreSafe NoneMeansReadable NoSilentChange
  FreshMeansCurrent ReadinessAgreesWithGate LatestStatusWins OpenNoticesAreShown OncePerKey OkIsRecorded
  PromisedExpiryHolds AcknowledgedIsAttached ImportsAreRooted
PROPERTIES ExpiryNeverOpens EndedSessionsStayEnded
