SPECIFICATION Spec
CONSTANTS
  Components = {"retention", "backup", "accounts", "members", "proofs", "assets", "findings",
                "scope", "locations", "alerts", "reporting", "coverage"}
  \* Retention
  MaxScan = 2
  MaxReport = 2
  Purges = {p1, p2}
  Writers = {w1}
  MinKeep = 1
  Batch = 1
  Days <- MCDays
  MaxNow = 1
  \* Backup
  Runs = {r1}
  MaxSecond = 1
  Deployments <- MCDeployments
  KeepSets = 1
  RetainFor = 0
  Perishable = {"mysql"}
  MaxRot = 1
  \* Accounts
  Tokens = {t1, t2}
  AccountRequests = {q1, q2}
  MaxAttempts = 1
  NoNext = NoNext
  \* Access
  Members = {m1, m2}
  Calls = {c1, c2}
  MaxProofs = 2
  MaxDay = 1
  \* Assets
  Upserts = {"ua", "ub", "uc"}
  Report <- MCReport
  MaxObservations = 2
  \* Findings
  Fingerprints = {"f1", "f2"}
  Location <- MCLocation
  Scans = {"s1", "s2"}
  Clients = {}
  None = None
  \* ScopePolicy
  Names <- MCNames
  Ranges <- MCRanges
  Size = 5
  Private = {0, 1, 3, 4}
  Multicast = {3, 4}
  Metadata = {1}
  SiteNets <- MCSiteNets
  Answers <- MCAnswers
  MaxChanges = 1
  MaxDecisions = 2
  \* Locations
  Urls <- MCUrls
  Plain <- MCPlain
  LowerOf <- MCLowerOf
  Templates = {"t1"}
  MAX_URLS = 1
  MaxLines = 3
  \* Alerts
  Events = {"e1", "e2"}
  Counts = {1}
  EMAIL_MAX_RETRIES = 1
  MaxWindows = 1
  MaxTroubles = 1
  \* Reporting
  Occurrences = {1, 2, 3}
  IssueOf <- MCIssueOf
  PlaceOf <- MCPlaceOf
  Sightings <- MCSightings
  Detects = {"tech"}
  Inferred = {}
  CveNamed = {}
  ControlsOf <- MCCatalogue
  TechniquesOf <- MCCatalogue
  ReportScans = {"s1"}
  Clerks = {"c1"}
  Drafts = {"d1"}
  MaxIngests = 2
  \* Coverage
  Surfaces <- MCSurfaces
  Queries = {"v1"}
  RanTools = {"katana"}
  MaxRuns = 2
INVARIANTS
  TypeOK
  AccountsHold
  InferenceStaysMarked
  ScopeHolds
  OneFindingPerRequest
  OneAlertPerWindow
  SurfacesAgree
  StepsAreNewWork
PROPERTIES
  PurgeSpares
  BackupsHold
CHECK_DEADLOCK FALSE
