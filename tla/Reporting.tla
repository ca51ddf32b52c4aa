----------------------------- MODULE Reporting -----------------------------
(***************************************************************************)
(* Reports and client risk assessments: modules/reports (classification,   *)
(* verification, scoring, data, model and the grouping half of render),    *)
(* modules/risk, modules/attack, modules/compliance, modules/dashboard and *)
(* modules/assessment.                                                     *)
(*                                                                         *)
(* A vulnerability row is one occurrence of an issue at one place; an      *)
(* issue is what issue_key names.  Every surface (score, key risks,        *)
(* finding blocks, remediation buckets, ATT&CK matrix, dashboard) groups   *)
(* the same rows with code of its own, so the question is whether they say *)
(* the same thing.  A report is gathered by several queries under READ     *)
(* COMMITTED while scans keep ingesting: the rows come from the first, the *)
(* risk scores, mappings and evidence from later ones.                     *)
(*                                                                         *)
(* CVSS and risk are in tenths, -1 is None; penalties are fixed point.     *)
(* Layout, wording and the PDF itself are left out.                        *)
(***************************************************************************)
EXTENDS Integers, FiniteSets, FiniteSetsExt

CONSTANTS
    Occurrences,    \* vulnerability ids, one per fingerprint
    IssueOf,        \* the issue key of each occurrence
    PlaceOf,        \* matched_at of each occurrence, "none" when it has none
    Sightings,      \* what a scan may see: [severity, cvss, criticality, evidence]
    Detects,        \* issues whose template looks like a detection
    Inferred,       \* issues whose template or matcher is inference based
    CveNamed,       \* issues whose template or title names a CVE
    ControlsOf,     \* compliance catalogue, by issue
    TechniquesOf,   \* ATT&CK catalogue, by issue
    ReportScans,    \* scans of the project
    Clerks,         \* concurrent report and issue requests
    Drafts,         \* assessment ids
    MaxIngests      \* bound on ingested sightings

ASSUME IngestBound == MaxIngests \in Nat

\* The severity column holds taxonomy's closed vocabulary, a CVSS score is on
\* its 0 to 10 scale, and the artefacts of a finding are of two kinds.
ASSUME SightingsAssumption ==
    /\ IsFiniteSet(Occurrences)
    /\ \A x \in Sightings :
        /\ x.severity \in {"critical", "high", "medium", "low", "info"}
        /\ x.cvss \in -1..100
        /\ x.criticality \in {"low", "medium", "high", "critical"}
        /\ x.evidence \subseteq {"shot", "output"}

VARIABLES
    vulnRows,   \* vulnerabilities: occurrence |-> row, or Absent
    risk,       \* risk_scores.final_risk_score, -1 when there is none
    evidence,   \* occurrence |-> kinds of artefact linked to it
    clerk,      \* request |-> [pc, scope, draft, rows, prev]
    figures,    \* the figures of the report stored last, or {}
    assessment, \* risk_assessments
    finished,   \* scans that completed
    ingests     \* sightings ingested so far

reportingVars == <<vulnRows, risk, evidence, clerk, figures, assessment, finished, ingests>>

Absent == [key |-> "absent"]
NoSummary == [security_score |-> -1]

ACTIVE_STATUSES == {"open", "confirmed", "reopened"}
CountedSeverities == {"critical", "high", "medium", "low", "info"}

_severity_rank(severity) ==
    CASE severity = "critical" -> 4 [] severity = "high" -> 3
      [] severity = "medium" -> 2   [] severity = "low" -> 1
      [] OTHER -> 0

Highest(values) == Max(values \cup {-1})
MaxSeverity(members) ==
    (CHOOSE m \in members : \A n \in members :
        _severity_rank(n.severity) <= _severity_rank(m.severity)).severity

Keys(rows) == {r.key : r \in rows}
MembersOf(rows, key) == {r \in rows : r.key = key}
ActiveIn(rows) == {r \in rows : r.status \in ACTIVE_STATUSES}

(***************************************************************************)
(* Classification and verification.                                        *)
(***************************************************************************)
\* A positive CVSS or a CVE makes a vulnerability of anything; otherwise the
\* template decides.  A row carries no tags.
classify(row) ==
    IF row.cvss > 0 \/ row.key \in CveNamed \/ row.key \notin Detects
    THEN "vulnerability" ELSE "detection"

scorable(row) ==
    /\ row.status \in ACTIVE_STATUSES
    /\ row.severity # "info"
    /\ classify(row) # "detection"

\* A detection template is generic for verification whatever its CVSS.
classify_verification(row) ==
    LET artefacts == row.evidence \cap {"shot", "output"}
        weak == row.key \in Detects \cup Inferred \/ classify(row) = "detection"
    IN  CASE artefacts = {} -> "unverified"
          [] artefacts = {"shot", "output"} /\ ~weak -> "verified"
          [] OTHER -> "partially_verified"

evidence_confidence(row) ==
    CASE row.key \in Inferred -> "low"
      [] row.key \notin Inferred /\ row.key \notin Detects
            /\ (row.key \in CveNamed \/ row.evidence \cap {"shot", "output"} # {}) -> "high"
      [] OTHER -> "medium"

verification_reasons(row) ==
    LET has == row.evidence \cap {"shot", "output"}
    IN  {"no_artefacts" : x \in IF has = {} THEN {1} ELSE {}}
        \cup {"response_captured" : x \in has \cap {"output"}}
        \cup {"screenshot_captured" : x \in has \cap {"shot"}}
        \cup (IF has = {"shot", "output"} THEN {"corroborated_both_artefacts"} ELSE {})
        \cup (IF row.key \in Detects THEN {"generic_match"}
              ELSE IF row.key \in CveNamed THEN {"cve_backed"} ELSE {})
        \cup (IF row.key \in Inferred THEN {"inference_match"} ELSE {})
        \cup (IF classify(row) = "detection" THEN {"detection_class"} ELSE {})

impact_certainty(verification) ==
    CASE verification = "verified" -> "confirmed"
      [] verification = "partially_verified" -> "potential"
      [] OTHER -> "unverified"

(***************************************************************************)
(* Risk and score.                                                         *)
(***************************************************************************)
CRITICALITY_WEIGHT ==
    [c \in {"low", "medium", "high", "critical"} |->
        CASE c = "low" -> 5 [] c = "medium" -> 10 [] c = "high" -> 15 [] OTHER -> 20]

compute_risk(cvss, criticality) ==
    IF cvss = -1 THEN -1 ELSE Min({100, (cvss * CRITICALITY_WEIGHT[criticality]) \div 10})

_cvss_factor(cvss) == IF cvss = -1 THEN 100 ELSE 75 + (cvss \div 2)
_risk_factor(score) == IF score = -1 THEN 100 ELSE 85 + (3 * score) \div 10

\* 1 + 0.35 ln n in thousandths; the instances have at most three places.
_location_factor(n) == CASE n = 1 -> 1000 [] n = 2 -> 1243 [] OTHER -> 1385

_BASE_PENALTY(severity) ==
    CASE severity = "critical" -> 40 [] severity = "high" -> 25
      [] severity = "medium" -> 10 [] OTHER -> 4

\* One scored issue; the penalty is in hundredths of a point, at most 65 points.
ScoredIssue(rows, key) ==
    LET members == MembersOf(rows, key)
        places == Cardinality({m.at : m \in members} \ {"none"})
                    + Cardinality({m \in members : m.at = "none"})
        severity == MaxSeverity(members)
        cvss == Highest({m.cvss : m \in members})
        score == Highest({m.risk : m \in members})
    IN  [key |-> key, severity |-> severity, places |-> places,
         cvss |-> cvss, risk |-> score,
         penalty |-> Min({6500,
            (_BASE_PENALTY(severity) * _cvss_factor(cvss) * _risk_factor(score)
                * _location_factor(places)) \div 100000})]

group_issues(rows) ==
    LET counted == {r \in rows : scorable(r)}
    IN  {ScoredIssue(counted, k) : k \in Keys(counted)}

score_from_issues(issues) ==
    LET Remaining(issue, left) == (left * (10000 - issue.penalty)) \div 10000
    IN  (FoldSet(Remaining, 10000, issues) + 50) \div 100

compute_security_score(rows) == score_from_issues(group_issues(rows))

_score_band(score) ==
    IF score >= 90 THEN "Strong" ELSE IF score >= 70 THEN "Fair"
    ELSE IF score >= 40 THEN "Weak" ELSE "Critical"

(***************************************************************************)
(* Groupings.                                                              *)
(***************************************************************************)
\* Executive key risks: every active issue, scored or not.
_top_risk_groups(rows) ==
    LET active == ActiveIn(rows)
    IN  {LET members == MembersOf(active, k)
         IN  [key |-> k, endpoint_count |-> Cardinality(members),
              max_risk |-> Highest({m.risk : m \in members}),
              max_cvss |-> Highest({m.cvss : m \in members}),
              severity |-> MaxSeverity(members)] : k \in Keys(active)}

\* Mutant: the representative is the most severe occurrence, whatever its risk.
SeverityLeads(a, b) ==
    \/ _severity_rank(a.severity) < _severity_rank(b.severity)
    \/ a.severity = b.severity /\ a.risk <= b.risk
\* The order in which the representative of a group is chosen.
RepAtMost(a, b) ==
    \/ a.risk < b.risk
    \/ /\ a.risk = b.risk
       /\ \/ _severity_rank(a.severity) < _severity_rank(b.severity)
          \/ a.severity = b.severity /\ a.cvss <= b.cvss

Representative(members) ==
    LET pool == IF ActiveIn(members) # {} THEN ActiveIn(members) ELSE members
    IN  CHOOSE m \in pool : \A n \in pool : RepAtMost(n, m)

Strongest(states) ==
    CASE "verified" \in states -> "verified"
      [] "verified" \notin states /\ "partially_verified" \in states -> "partially_verified"
      [] OTHER -> "unverified"
Weakest(bands) ==
    CASE "low" \in bands -> "low"
      [] "low" \notin bands /\ "medium" \in bands -> "medium"
      [] OTHER -> "high"

\* A finding block: figures of the representative, the worst severity, the
\* strongest verification, the weakest confidence, the union of the rest.
FindingGroup(rows, key) ==
    LET members == MembersOf(rows, key)
        rep == Representative(members)
    IN  [key |-> key, finding_id |-> rep.id, status |-> rep.status,
         severity |-> MaxSeverity(members),
         cvss |-> rep.cvss, risk |-> rep.risk,
         classification |-> IF \E m \in members : classify(m) = "vulnerability"
                            THEN "vulnerability" ELSE "detection",
         verification |-> Strongest({classify_verification(m) : m \in members}),
         confidence |-> Weakest({evidence_confidence(m) : m \in members}),
         occurrence_count |-> Cardinality(members),
         controls |-> UNION {m.controls : m \in members},
         evidence |-> UNION {m.evidence : m \in members}]

_finding_groups(rows) == {FindingGroup(rows, k) : k \in Keys(rows)}

Tally(rows, severity) == Cardinality({r \in rows : r.severity = severity})

_verification_summary(rows) ==
    [state \in {"verified", "partially_verified", "unverified"} |->
        Cardinality({r \in ActiveIn(rows) : classify_verification(r) = state})]

\* Control |-> the findings that made it appear.
compliance_coverage(rows) ==
    LET counted == {r \in rows : scorable(r)}
    IN  [c \in UNION {r.controls : r \in counted} |-> {r.id : r \in {x \in counted : c \in x.controls}}]

\* Technique |-> distinct issues, as gather_report_data counts them.
ReportedTechniques(rows) ==
    LET counted == {r \in rows : scorable(r)}
    IN  [t \in UNION {r.techniques : r \in counted} |->
            Cardinality({r.key : r \in {x \in counted : t \in x.techniques}})]

\* Themes take the finding blocks, whose severity and count span every status.
_key_themes(rows) ==
    {[key |-> g.key, finding_count |-> g.occurrence_count] :
        g \in {h \in _finding_groups(rows) :
                /\ h.status \in ACTIVE_STATUSES
                /\ h.severity # "info"
                /\ h.cvss > 0 \/ h.key \in CveNamed \/ h.key \notin Detects}}

_recommendations(rows) ==
    LET active == ActiveIn(rows)
        blocks == _finding_groups(active)
    IN  {[severity |-> s, findings |-> Tally(active, s),
          issues |-> Cardinality({g \in blocks : g.severity = s})] :
            s \in {x \in CountedSeverities \ {"info"} : Tally(active, x) > 0}}

build_report_model(rows, scope) ==
    LET active == ActiveIn(rows)
    IN  [scope |-> scope,
         security_score |-> compute_security_score(rows),
         score_band |-> _score_band(compute_security_score(rows)),
         total_issues |-> Cardinality(Keys(rows)), total_findings |-> Cardinality(rows),
         active_issues |-> Cardinality(Keys(active)), active_findings |-> Cardinality(active),
         scorable_issues |-> Cardinality(group_issues(rows)),
         scorable_findings |-> Cardinality({r \in rows : scorable(r)}),
         severity |-> [s \in CountedSeverities |-> Tally(active, s)],
         findings |-> _finding_groups(rows),
         active_blocks |-> _finding_groups(active),
         key_risks |-> _top_risk_groups(rows),
         verification |-> _verification_summary(rows),
         compliance |-> compliance_coverage(rows),
         attack |-> ReportedTechniques(rows),
         themes |-> _key_themes(rows),
         recommendations |-> _recommendations(rows)]
(***************************************************************************)
(* The rows a report is made of.                                           *)
(***************************************************************************)
\* Techniques are mapped without the CVSS, so a detection template gets none.
techniques_for(key) == IF key \in Detects \ CveNamed THEN {} ELSE TechniquesOf[key]

VulnRow(row) ==
    [id |-> row.id, key |-> row.key, at |-> row.at, severity |-> row.severity,
     status |-> row.status, cvss |-> row.cvss,
     risk |-> risk[row.id], evidence |-> evidence[row.id],
     controls |-> ControlsOf[row.key], techniques |-> techniques_for(row.key)]

StoredRows == {vulnRows[o] : o \in {x \in Occurrences : vulnRows[x] # Absent}}
LiveRows == {VulnRow(r) : r \in StoredRows}

\* ATT&CK matrix of modules/attack, a tally of its own over the live rows.
count_issues_by_technique ==
    LET counted == {r \in LiveRows : scorable(r) /\ r.techniques # {}}
    IN  [t \in UNION {r.techniques : r \in counted} |->
            Cardinality(Keys({r \in counted : t \in r.techniques}))]

\* Dashboard: active rows by severity, straight from the table.
get_summary == [s \in CountedSeverities |->
    Cardinality({r \in StoredRows : r.status \in ACTIVE_STATUSES /\ r.severity = s})]

(***************************************************************************)
(* Scans keep writing.                                                     *)
(***************************************************************************)
NoClerk == [pc |-> "idle", scope |-> {}, draft |-> "none", rows |-> {}, prev |-> "none"]
NoAssessment == [status |-> "absent", summary |-> NoSummary, frozen |-> 0,
                 prev |-> "none", at |-> 0, trend |-> "none", advice |-> {}, report |-> FALSE]

ReportingInit ==
    /\ vulnRows = [o \in Occurrences |-> Absent]
    /\ risk = [o \in Occurrences |-> -1]
    /\ evidence = [o \in Occurrences |-> {}]
    /\ clerk = [c \in Clerks |-> NoClerk]
    /\ figures = {}
    /\ assessment = [d \in Drafts |-> NoAssessment]
    /\ finished = {}
    /\ ingests = 0

\* A sighting refreshes the row, upserts its risk and links its artefacts.
Sight(o, s, x) ==
    /\ ingests < MaxIngests /\ s \notin finished
    /\ ingests' = ingests + 1
    /\ vulnRows' = [vulnRows EXCEPT ![o] =
            [id |-> o, key |-> IssueOf[o], at |-> PlaceOf[o], seen |-> s,
             severity |-> x.severity, cvss |-> x.cvss,
             status |-> IF @ = Absent THEN "open"
                        ELSE IF @.status = "fixed" THEN "reopened" ELSE @.status]]
    /\ risk' = [risk EXCEPT ![o] = compute_risk(x.cvss, x.criticality)]
    /\ evidence' = [evidence EXCEPT ![o] = @ \cup x.evidence]
    /\ UNCHANGED <<clerk, figures, assessment, finished>>

Triage(o, status) ==
    /\ vulnRows[o] # Absent /\ vulnRows[o].status \in ACTIVE_STATUSES
    /\ vulnRows' = [vulnRows EXCEPT ![o].status = status]
    /\ UNCHANGED <<risk, evidence, clerk, figures, assessment, finished, ingests>>

FinishScan(s) ==
    /\ s \notin finished
    /\ finished' = finished \cup {s}
    /\ UNCHANGED <<vulnRows, risk, evidence, clerk, figures, assessment, ingests>>

(***************************************************************************)
(* create_report: gather, render, store.                                   *)
(***************************************************************************)
RowsIn(scope) == {r \in StoredRows : scope = {} \/ r.seen \in scope}

GatherRows(c, scope) ==
    /\ clerk[c].pc = "idle" /\ finished # {}
    /\ clerk' = [clerk EXCEPT ![c] =
            [NoClerk EXCEPT !.pc = "rows", !.scope = scope, !.rows = RowsIn(scope)]]
    /\ UNCHANGED <<vulnRows, risk, evidence, figures, assessment, finished, ingests>>

Issued(besides) == {d \in Drafts \ {besides} : assessment[d].status = "issued"}
LastIssued(besides) ==
    IF Issued(besides) = {} THEN "none"
    ELSE CHOOSE d \in Issued(besides) :
            \A e \in Issued(besides) : assessment[e].at <= assessment[d].at

\* The later queries: risk, mappings and evidence of the rows already read;
\* an issue request also reads the previous issued assessment.
GatherRest(c) ==
    /\ clerk[c].pc = "rows"
    /\ clerk' = [clerk EXCEPT ![c].pc = "data",
                              ![c].rows = {VulnRow(r) : r \in @},
                              ![c].prev = LastIssued(clerk[c].draft)]
    /\ UNCHANGED <<vulnRows, risk, evidence, figures, assessment, finished, ingests>>

StoreReport(c) ==
    /\ clerk[c].pc = "data" /\ clerk[c].draft = "none"
    /\ figures' = {build_report_model(clerk[c].rows, clerk[c].scope)}
    /\ clerk' = [clerk EXCEPT ![c] = NoClerk]
    /\ UNCHANGED <<vulnRows, risk, evidence, assessment, finished, ingests>>

\* Rendering or the object store fails: the row was never committed.
ReportFails(c) ==
    /\ clerk[c].pc \in {"rows", "data"} /\ clerk[c].draft = "none"
    /\ clerk' = [clerk EXCEPT ![c] = NoClerk]
    /\ UNCHANGED <<vulnRows, risk, evidence, figures, assessment, finished, ingests>>

(***************************************************************************)
(* Client risk assessments.                                                *)
(***************************************************************************)
create_assessment(d) ==
    /\ assessment[d].status = "absent"
    /\ assessment' = [assessment EXCEPT ![d].status = "draft"]
    /\ UNCHANGED <<vulnRows, risk, evidence, clerk, figures, finished, ingests>>

\* The status is read without a lock and not looked at again.
IssueRead(c, d) ==
    /\ clerk[c].pc = "idle" /\ assessment[d].status = "draft"
    /\ clerk' = [clerk EXCEPT ![c] =
            [NoClerk EXCEPT !.pc = "rows", !.draft = d, !.rows = RowsIn({})]]
    /\ UNCHANGED <<vulnRows, risk, evidence, figures, assessment, finished, ingests>>

_build_snapshot(rows) ==
    [security_score |-> compute_security_score(rows),
     score_band |-> _score_band(compute_security_score(rows)),
     active |-> [s \in CountedSeverities |-> Tally(ActiveIn(rows), s)],
     unresolved |-> Cardinality(group_issues(rows)),
     top_risks |-> _top_risk_groups(rows)]

compare(current, previous) ==
    CASE previous = NoSummary -> "none"
      [] previous # NoSummary /\ current.security_score > previous.security_score -> "improved"
      [] previous # NoSummary /\ current.security_score < previous.security_score -> "declined"
      [] OTHER -> "unchanged"

\* The numbered management actions, one word each.
build_narrative(s) ==
    LET worst == s.active["critical"] + s.active["high"]
        named == {sev \in {"critical", "high"} : s.active[sev] > 0}
                 \cup (IF s.active["medium"] > 0 /\ worst = 0 THEN {"medium"} ELSE {})
    IN  IF named = {} THEN {"maintain"} ELSE named

FrozenRows(rows) == {r \in rows : scorable(r)}

\* Snapshot, frozen rows, status and audit event commit together.
IssueCommit(c) ==
    LET d == clerk[c].draft
        summary == _build_snapshot(clerk[c].rows)
        before == clerk[c].prev
    IN  /\ clerk[c].pc = "data" /\ d # "none"
        /\ assessment' = [assessment EXCEPT ![d] =
                [@ EXCEPT !.status = "issued", !.summary = summary, !.prev = before,
                          !.frozen = assessment[d].frozen + Cardinality(FrozenRows(clerk[c].rows)),
                          !.at = 1 + Max({assessment[e].at : e \in Drafts}),
                          !.trend = compare(summary, IF before = "none" THEN NoSummary
                                                     ELSE assessment[before].summary),
                          !.advice = build_narrative(summary)]]
        /\ clerk' = [clerk EXCEPT ![c].pc = "render"]
        /\ UNCHANGED <<vulnRows, risk, evidence, figures, finished, ingests>>

\* The PDF prints the frozen summary; its failure leaves the issue in place.
RenderAssessment(c, stored) ==
    /\ clerk[c].pc = "render"
    /\ assessment' = [assessment EXCEPT ![clerk[c].draft].report = @ \/ stored]
    /\ clerk' = [clerk EXCEPT ![c] = NoClerk]
    /\ UNCHANGED <<vulnRows, risk, evidence, figures, finished, ingests>>

ReportingNext ==
    \/ \E o \in Occurrences, s \in ReportScans, x \in Sightings : Sight(o, s, x)
    \/ \E o \in Occurrences, st \in {"fixed", "false_positive"} : Triage(o, st)
    \/ \E s \in ReportScans : FinishScan(s)
    \/ \E c \in Clerks :
        \/ \E scope \in SUBSET ReportScans : GatherRows(c, scope)
        \/ GatherRest(c) \/ StoreReport(c) \/ ReportFails(c) \/ IssueCommit(c)
        \/ \E d \in Drafts : IssueRead(c, d)
        \/ \E stored \in BOOLEAN : RenderAssessment(c, stored)
    \/ \E d \in Drafts : create_assessment(d)

(***************************************************************************)
(* Properties.                                                             *)
(***************************************************************************)
ReportingTypeOK ==
    /\ \A o \in Occurrences :
        /\ vulnRows[o] # Absent => vulnRows[o].key = IssueOf[o] /\ vulnRows[o].seen \in ReportScans
        /\ risk[o] \in -1..100
        /\ evidence[o] \subseteq {"shot", "output"}
        /\ vulnRows[o] = Absent => risk[o] = -1 /\ evidence[o] = {}
    /\ \A c \in Clerks : clerk[c].pc \in {"idle", "rows", "data", "render"}
    /\ \A d \in Drafts :
        /\ assessment[d].status \in {"absent", "draft", "issued"}
        /\ assessment[d].status = "issued" <=> assessment[d].summary # NoSummary
    /\ finished \subseteq ReportScans
    /\ ingests \in 0..MaxIngests

\* What the parts of one report say about an issue.
Coherent(m) ==
    /\ {k.key : k \in m.key_risks} = {g.key : g \in m.active_blocks}
    /\ Cardinality(m.key_risks) = m.active_issues
    /\ Cardinality(m.findings) = m.total_issues
    /\ \A k \in m.key_risks :
        /\ \A g \in m.active_blocks : g.key = k.key =>
                g.risk = k.max_risk /\ g.severity = k.severity
        /\ \A g \in m.findings : g.key = k.key => g.risk = k.max_risk
    /\ \A c \in DOMAIN m.compliance : m.compliance[c] # {}
    /\ \A t \in DOMAIN m.attack : m.attack[t] <= m.scorable_issues
    /\ m.security_score = 100 <=> m.scorable_issues = 0
    /\ \A g \in m.findings : impact_certainty(g.verification) = "confirmed" =>
            {"shot", "output"} \subseteq g.evidence

\* The executive and the technical half of a report print the same risk and
\* severity for an issue, whatever mixture of scored, unscored, fixed and
\* active occurrences it has and whichever commits fell between the queries
\* of gather_report_data; the score is 100 exactly when no issue is scored,
\* and only an issue with both artefacts is called confirmed.  The ATT&CK
\* matrix and the dashboard, which count by themselves, agree with a report
\* made of the same rows, and the reasons printed beside a verification
\* state are the ones that led to it.
SurfacesAgree ==
    /\ \A m \in figures : Coherent(m)
    /\ LET now == build_report_model(LiveRows, {})
       IN  /\ Coherent(now)
           /\ now.attack = count_issues_by_technique
           /\ now.severity = get_summary
    /\ \A r \in LiveRows :
        LET reasons == verification_reasons(r)
        IN  /\ classify_verification(r) = "unverified" <=> "no_artefacts" \in reasons
            /\ classify_verification(r) = "verified" <=>
                    /\ "corroborated_both_artefacts" \in reasons
                    /\ reasons \cap {"generic_match", "inference_match", "detection_class"} = {}

\* "from then on every mutating service function refuses to touch it": the
\* snapshot of an issued assessment is written once.
IssuedIsImmutable ==
    [][\A d \in Drafts : assessment[d].status = "issued" =>
            /\ assessment'[d].summary = assessment[d].summary
            /\ assessment'[d].frozen = assessment[d].frozen]_reportingVars
=============================================================================
