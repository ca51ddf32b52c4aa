------------------------------ MODULE Coverage ------------------------------
(***************************************************************************)
(* What a scan has tested of the surface that is known, and what it should *)
(* do next: the coverage projection (scanner_engine/coverage.py), the      *)
(* selection of next steps (adaptive.py), and the two requests that        *)
(* compute them from stored rows while a scan of the target goes on        *)
(* (modules/scans/service.py).  The queries of one request are steps of    *)
(* their own.                                                              *)
(***************************************************************************)
EXTENDS Integers, Sequences, FiniteSets

CONSTANTS
  Surfaces,   \* assets of the target that can be discovered: records with
              \* [type, value, query, params, api, scoped, auth, guarded]
  Queries,    \* requests for the coverage or for the next steps
  RanTools,   \* bound: the tools of this scan whose runs settle
  MaxRuns     \* bound: settled tool runs of the scan

VARIABLES
  known,      \* asset rows of the target
  toolruns,   \* <<tool, status>> of the settled tool runs of the scan
  confirmed,  \* values of assets with a confirmed finding of this scan
  permit,     \* require_verified_target and the rules of engagement of the scan
  query       \* request -> what it has read and answered

coverageVars == <<known, toolruns, confirmed, permit, query>>

Usable == {"completed", "completed_with_errors", "partial"}
RunStatus == Usable \cup {"failed", "abandoned_revoked", "skipped"}
_UNCROSSED_AUTH_STATES == {"protected", "login_redirect"}
_DEBT_STATES == {"discovered", "attempted_failed"}
_ACTIONABLE_COVERAGE == {"discovered", "attempted_failed", "partial"}

\* The implementations of a capability, by phase.
tools_for_capability(cap) ==
  CASE cap = "web_service_discovery"  -> <<"httpx", "whatweb">>
    [] cap = "web_crawling"           -> <<"katana">>
    [] cap = "service_fingerprinting" -> <<"nmap">>
    [] cap = "parameter_discovery"    -> <<"arjun">>
    [] cap = "dast_fuzzing"           -> <<"nuclei-dast">>
    [] OTHER                          -> <<>>
CoverageTools == {"httpx", "whatweb", "katana", "nmap", "arjun", "nuclei-dast"}
ActiveTools == {"arjun", "nuclei-dast"}

ASSUME CoverageAssumption == RanTools \subseteq CoverageTools

\* What the pipeline would point at a surface next; "none" for other types.
_EXPECTED_CAPABILITY(type) ==
  CASE type = "subdomain"            -> "web_service_discovery"
    [] type = "http_service"         -> "web_crawling"
    [] type \in {"service", "port"}  -> "service_fingerprinting"
    [] type = "url"                  -> "parameter_discovery"
    [] OTHER                         -> "none"

\* A url that carries a query string is ready to be fuzzed.
_expected_capability(s) ==
  IF s.type = "url" /\ s.query THEN "dast_fuzzing" ELSE _EXPECTED_CAPABILITY(s.type)

capability_for_tool(t, cap) ==
  \E i \in DOMAIN tools_for_capability(cap) : tools_for_capability(cap)[i] = t

\* One capability ran well as soon as one of its runs did.
_capability_run_state(cap, outcomes) ==
  LET impls  == tools_for_capability(cap)
      states == {o[2] : o \in {o \in outcomes : capability_for_tool(o[1], cap)}}
  IN  IF impls = <<>> THEN "unsupported"
      ELSE IF states = {} THEN "discovered"
      ELSE IF states \cap {"completed", "completed_with_errors"} # {} THEN "covered"
      ELSE IF "partial" \in states THEN "partial"
      ELSE IF states \subseteq {"failed", "abandoned_revoked"} THEN "attempted_failed"
      ELSE "discovered"

\* The state of one surface; the tests are in this order.
SurfaceState(s, outcomes, verified) ==
  IF ~ s.scoped THEN "out_of_scope"
  ELSE IF s.value \in verified THEN "verified"
  ELSE IF s.auth \in _UNCROSSED_AUTH_STATES THEN "requires_auth"
  ELSE IF _expected_capability(s) = "none" THEN "unsupported"
  ELSE _capability_run_state(_expected_capability(s), outcomes)

\* build_coverage: every surface with its state; the debt is derived from it.
build_coverage(assets, outcomes, verified) ==
  [surfaces |-> [s \in assets |-> SurfaceState(s, outcomes, verified)],
   debt |-> {s \in assets : /\ SurfaceState(s, outcomes, verified) \in _DEBT_STATES
                            /\ s.scoped /\ _expected_capability(s) # "none"}]

\* The first implementation that has not run and that the target type, the
\* tier ceiling and the authorization allow.
resolve_capability(cap, p, already) ==
  LET impls == tools_for_capability(cap)
      fit   == {i \in DOMAIN impls : /\ impls[i] \notin already
                                     /\ impls[i] \in p.tools
                                     /\ impls[i] \in ActiveTools => p.active}
  IN  {impls[i] : i \in {i \in fit : \A j \in fit : i <= j}}

\* _url_reasons and _http_service_reasons: the capability and why.
_coverage_reason(state) ==
  CASE state = "attempted_failed" -> "attempted_failed_upstream"
    [] state = "partial" -> "partial_upstream"
    [] OTHER -> "incomplete_coverage"
_url_reasons(s, state) ==
  LET fuzz == s.params \/ s.query IN
  [capability |-> IF fuzz THEN "dast_fuzzing" ELSE "parameter_discovery",
   reasons    |-> {_coverage_reason(state)}
                    \cup (IF fuzz THEN {"discovered_parameter"} ELSE {"incomplete_coverage"})
                    \cup (IF s.api THEN {"api_surface"} ELSE {})]
_http_service_reasons(state) ==
  [capability |-> "web_crawling", reasons |-> {"live_web_service", _coverage_reason(state)}]

\* select_adaptive_candidates. The state is looked up by value, and the last
\* surface of a value in the list decides for all of them; "last" picks it.
select_adaptive_candidates(assets, outcomes, p, already, last) ==
  LET state(s) == SurfaceState(last[s.value], outcomes, {})
      step(s)  == IF s.type = "url" THEN _url_reasons(s, state(s))
                                    ELSE _http_service_reasons(state(s))
  IN  UNION {{[tool |-> t, capability |-> step(s).capability,
               target |-> s.value, reasons |-> step(s).reasons] :
                 t \in resolve_capability(step(s).capability, p, already)} :
             s \in {s \in assets : /\ state(s) \in _ACTIONABLE_COVERAGE
                                   /\ s.guarded
                                   /\ s.type \in {"url", "http_service"}}}

NoQuery == [pc |-> "idle", kind |-> "coverage", assets |-> {}, outcomes |-> {},
            already |-> {}, steps |-> {}, debt |-> {}, usable |-> {}]

ToolsWith(statuses) == {o[1] : o \in {o \in toolruns : o[2] \in statuses}}

CoverageInit ==
  /\ known = {} /\ toolruns = {} /\ confirmed = {}
  /\ permit \in [granted : BOOLEAN, active : BOOLEAN, tools : {CoverageTools, {"httpx", "katana"}}]
  /\ query = [q \in Queries |-> NoQuery]

\* The scan goes on: an asset is stored, a tool run settles, a finding at an
\* asset is confirmed, the authorization is withdrawn.
Discover(s) ==
  /\ s \in Surfaces \ known
  /\ known' = known \cup {s}
  /\ UNCHANGED <<toolruns, confirmed, permit, query>>

RunSettles(t, st) ==
  /\ <<t, st>> \notin toolruns /\ Cardinality(toolruns) < MaxRuns
  /\ toolruns' = toolruns \cup {<<t, st>>}
  /\ UNCHANGED <<known, confirmed, permit, query>>

Confirm(s) ==
  /\ s \in known /\ s.value \notin confirmed
  /\ confirmed' = confirmed \cup {s.value}
  /\ UNCHANGED <<known, toolruns, permit, query>>

Withdraw ==
  /\ permit.granted
  /\ permit' = [permit EXCEPT !.granted = FALSE]
  /\ UNCHANGED <<known, toolruns, confirmed, query>>

\* Both requests read the assets of the target first, then the tool runs of
\* the scan.
ReadAssets(q, kind) ==
  /\ query[q].pc = "idle"
  /\ query' = [query EXCEPT ![q] = [NoQuery EXCEPT !.pc = "assets", !.kind = kind,
                                      !.assets = known, !.usable = ToolsWith(Usable)]]
  /\ UNCHANGED <<known, toolruns, confirmed, permit>>

ReadOutcomes(q) ==
  /\ query[q].pc = "assets"
  /\ query' = [query EXCEPT ![q].pc = "outcomes", ![q].outcomes = toolruns]
  /\ UNCHANGED <<known, toolruns, confirmed, permit>>

\* build_scan_coverage: the confirmed findings, then the projection.
AnswerCoverage(q) ==
  /\ query[q].pc = "outcomes" /\ query[q].kind = "coverage"
  /\ query' = [query EXCEPT ![q].pc = "answered",
                 ![q].debt = build_coverage(query[q].assets, query[q].outcomes, confirmed).debt]
  /\ UNCHANGED <<known, toolruns, confirmed, permit>>

\* Mutant: a tool that only ran in part is not counted as having run.
ReadAlreadyRunWhole(q) ==
  /\ query[q].pc = "outcomes" /\ query[q].kind = "next_steps"
  /\ query' = [query EXCEPT ![q].pc = "already",
                 ![q].already = ToolsWith({"completed", "completed_with_errors"})]
  /\ UNCHANGED <<known, toolruns, confirmed, permit>>

\* build_scan_next_steps reads the tool runs once more for already_run ...
ReadAlreadyRun(q) ==
  /\ query[q].pc = "outcomes" /\ query[q].kind = "next_steps"
  /\ query' = [query EXCEPT ![q].pc = "already", ![q].already = ToolsWith(Usable)]
  /\ UNCHANGED <<known, toolruns, confirmed, permit>>

\* ... and then checks the authorization; without one there is no next step.
AnswerNextSteps(q) ==
  /\ query[q].pc = "already"
  /\ \E last \in [{s.value : s \in query[q].assets} -> query[q].assets] :
       /\ \A v \in DOMAIN last : last[v].value = v
       /\ query' = [query EXCEPT ![q].pc = "answered",
                      ![q].steps = IF permit.granted
                                   THEN select_adaptive_candidates(query[q].assets,
                                          query[q].outcomes, permit, query[q].already, last)
                                   ELSE {}]
  /\ UNCHANGED <<known, toolruns, confirmed, permit>>

CoverageNext ==
  \/ \E s \in Surfaces : Discover(s) \/ Confirm(s)
  \/ \E t \in RanTools, st \in RunStatus : RunSettles(t, st)
  \/ Withdraw
  \/ \E q \in Queries :
       \/ \E k \in {"coverage", "next_steps"} : ReadAssets(q, k)
       \/ ReadOutcomes(q) \/ AnswerCoverage(q) \/ ReadAlreadyRun(q) \/ AnswerNextSteps(q)

-----------------------------------------------------------------------------
CoverageTypeOK ==
  /\ known \subseteq Surfaces
  /\ toolruns \subseteq CoverageTools \X RunStatus
  /\ \A q \in Queries :
       /\ query[q].pc \in {"idle", "assets", "outcomes", "already", "answered"}
       /\ query[q].debt \subseteq query[q].assets /\ query[q].assets \subseteq known

\* A next step never repeats work that was done when it was asked for: its
\* tool had no usable run, in part or in full, when the request began, although
\* the request reads assets and runs at different times and one value may stand
\* for several surfaces; and it points at something in the authorized scope
\* (adaptive.py: "cannot generate the same work twice").
StepsAreNewWork ==
  \A q \in Queries : \A c \in query[q].steps :
    /\ c.tool \notin query[q].usable
    /\ \E s \in query[q].assets : s.value = c.target /\ s.guarded
=============================================================================
