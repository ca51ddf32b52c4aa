SPECIFICATION Spec
CONSTANTS
  Workers = {"tenants", "schedules", "egress", "engagement", "ai", "tools"}
  \* Tenants
  Scans = {1, 2}
  Clients = {c1}
  Beats = {b1, b2}
  Deliveries = {d1}
  FreeLimit <- MCLimit
  MaxRows = 2
  MaxTime = 1
  MaxRetries = 1
  MaxCrashes = 1
  None = None
  \* Egress
  Cidrs = {"c1", "c2"}
  Pinned = TRUE
  MaxFaults = 2
  \* Engagement
  AgentTools = {0, 1, 2}
  TierOf <- MCTier
  Active = {1, 2}
  CapabilityOf <- MCCapability
  MaxSteps = 3
  MaxRounds = 2
  StallLimit = 2
  MaxAiCalls = 3
  Confirmable = 1
  MaxAttempts = 2
  \* AiCalls
  Callers = {a1, a2}
  Chain <- MCChain
  AiRetries = 1
  Budget = 1
  MaxCalls = 2
  \* ToolRuns
  Tools = {"subfinder", "amass", "whatweb", "dnsx", "httpx", "naabu", "nmap", "nuclei",
           "nuclei-dast", "katana", "ffuf", "arjun"}
  Lines <- MCLines
  Priors <- MCPriors
  MaxTargets = 2
  MaxConcurrent = 2
  Cap = 1
  MaxOut = 2
INVARIANTS
  TypeOK
  AtMostOnce
  TrafficContained
  OvershootBounded
  RecordsTellTruth
PROPERTIES
  QuotaHeld
  WorkEnds
CHECK_DEADLOCK FALSE
