----------------------------- MODULE Retention -----------------------------
(***************************************************************************)
(* The retention purge of one workspace (retention/service.py, repo.py)    *)
(* beside the report generator (modules/reports/service.py).               *)
(*                                                                         *)
(* A purge is one transaction: reports, then scans with their evidence,    *)
(* then the age-only tables, the audit table last; object storage is       *)
(* cleaned after the commit.  A report is read, rendered, stored and only  *)
(* then committed.                                                         *)
(***************************************************************************)
EXTENDS Naturals, FiniteSets

CONSTANTS
    MaxScan,      \* scans are numbered 1 .. MaxScan, in order of their id
    MaxReport,    \* reports likewise
    Purges,       \* purge runs, which may overlap (beat and command line)
    Writers,      \* report requests in flight
    MinKeep,      \* retention_min_keep
    Batch,        \* retention_batch_size
    Days,         \* resource -> retention window
    MaxNow        \* bound on time

ASSUME RetentionAssumption ==
    /\ MaxScan \in Nat /\ MaxReport \in Nat /\ MaxNow \in Nat
    /\ MinKeep \in Nat /\ Batch \in Nat
    /\ Days \in [{"report", "scan", "audit"} -> Nat]

VARIABLES
    clock,    \* time, in days
    rscan,    \* scan -> its row: status and completion time
    report,   \* report -> its row
    objects,  \* reports with a stored PDF
    audit,    \* audit events: who wrote them, about what, when
    purge,    \* purge run -> its session
    writer    \* report request -> its progress

retentionVars == <<clock, rscan, report, objects, audit, purge, writer>>

ScanIds == 1 .. MaxScan
ReportIds == 1 .. MaxReport
Resting == [at |-> "idle"]
NoReport == [st |-> "absent", ts |-> 0, cites |-> {}, flagged |-> FALSE]

-----------------------------------------------------------------------------
(* Eligibility, over rows given as a function from ids to timestamps       *)

_cutoff(from, resource) == IF from >= Days[resource] THEN from - Days[resource] ELSE 0

\* ORDER BY ts DESC, id DESC
Newer(ts, a, b) == ts[a] > ts[b] \/ (ts[a] = ts[b] /\ a > b)

\* Mutant: off by one, the last row to keep is eligible.
RankedLoose(ts) ==
    {i \in DOMAIN ts : Cardinality({j \in DOMAIN ts : Newer(ts, j, i)}) + 1 >= MinKeep}

\* rn > :min_keep -- all but the newest min_keep rows.
Ranked(ts) ==
    {i \in DOMAIN ts : Cardinality({j \in DOMAIN ts : Newer(ts, j, i)}) >= MinKeep}

\* The rows a pass may delete, and the oldest batch of them.
eligible(ts, cutoff) == {i \in Ranked(ts) : ts[i] < cutoff}
select_eligible(ts, cutoff) ==
    LET e == eligible(ts, cutoff) IN
    {i \in e : Cardinality({j \in e : Newer(ts, i, j)}) < Batch}

ReportTimes == [r \in {q \in ReportIds : report[q].st = "present"} |-> report[r].ts]
\* Only finished scans are ever eligible.
ScanTimes == [s \in {q \in ScanIds : rscan[q].st = "done"} |-> rscan[s].ts]

-----------------------------------------------------------------------------
(* The purge                                                               *)

\* run_purge fixes every cutoff from one reading of the clock.
PurgeStart(p) ==
    /\ purge[p] = Resting
    /\ purge' = [purge EXCEPT ![p] =
                    [at |-> "report", from |-> clock, reports |-> {}, scans |-> {},
                     flags |-> {}, wrote |-> {}]]
    /\ UNCHANGED <<clock, rscan, report, objects, audit, writer>>

\* Rows another purge has deleted and not yet committed are locked.
Unlocked(p, ids, field) ==
    \A q \in Purges \ {p} : purge[q] # Resting => ids \cap purge[q][field] = {}

\* _audit: one event per purged resource, in the same transaction.
Event(p, what) == [by |-> p, what |-> what, ts |-> clock]
Wrote(p, what, ids) == IF ids = {} THEN {} ELSE {Event(p, what)}

\* The object references are captured, then the report rows are deleted.
PurgeReports(p) ==
    /\ purge[p] # Resting /\ purge[p].at = "report"
    /\ LET ids == select_eligible(ReportTimes, _cutoff(purge[p].from, "report")) IN
          /\ Unlocked(p, ids, "reports")
          /\ purge' = [purge EXCEPT ![p] =
                          [purge[p] EXCEPT !.at = "scan", !.reports = ids,
                                    !.wrote = purge[p].wrote \cup Wrote(p, "report", ids)]]
    /\ UNCHANGED <<clock, rscan, report, objects, audit, writer>>

\* mark_reports_with_purged_scans: the committed reports, less the ones this
\* session has deleted, that cite a scan about to go.
mark_reports(p, ids) ==
    {r \in ReportIds \ purge[p].reports :
        report[r].st = "present" /\ ~report[r].flagged /\ report[r].cites \cap ids # {}}

PurgeScans(p) ==
    /\ purge[p] # Resting /\ purge[p].at = "scan"
    /\ LET ids == select_eligible(ScanTimes, _cutoff(purge[p].from, "scan")) IN
          /\ Unlocked(p, ids, "scans")
          /\ Unlocked(p, mark_reports(p, ids), "reports")
          /\ Unlocked(p, mark_reports(p, ids), "flags")
          /\ purge' = [purge EXCEPT ![p] =
                          [purge[p] EXCEPT !.at = "audit", !.scans = ids,
                                    !.flags = mark_reports(p, ids),
                                    !.wrote = purge[p].wrote \cup Wrote(p, "scan", ids)]]
    /\ UNCHANGED <<clock, rscan, report, objects, audit, writer>>

\* Audit rows as the session sees them.
AuditSeen(p) == audit \cup purge[p].wrote

\* The newest min_keep of them; ids, which are random, break ties.
NewestAudit(p) ==
    {newest \in SUBSET AuditSeen(p) :
        /\ \A e \in newest, f \in AuditSeen(p) \ newest : e.ts >= f.ts
        /\ \/ newest = AuditSeen(p) /\ Cardinality(newest) <= MinKeep
           \/ Cardinality(newest) = MinKeep}

\* What an audit pass may leave.
KeptAudit(p, cutoff) ==
    {{e \in AuditSeen(p) : e.ts >= cutoff} \cup newest : newest \in NewestAudit(p)}

\* The audit pass uses the cutoff fixed at the start of the run.
AuditCutoff(p) == _cutoff(purge[p].from, "audit")

\* The audit pass, LAST, and the commit of the workspace's transaction.
PurgeCommit(p) ==
    /\ purge[p] # Resting /\ purge[p].at = "audit"
    /\ report' = [r \in ReportIds |->
                     IF r \in purge[p].reports THEN [NoReport EXCEPT !.st = "purged"]
                     ELSE IF r \in purge[p].flags THEN [report[r] EXCEPT !.flagged = TRUE]
                     ELSE report[r]]
    /\ rscan' = [s \in ScanIds |->
                   IF s \in purge[p].scans THEN [rscan[s] EXCEPT !.st = "purged"] ELSE rscan[s]]
    /\ audit' \in KeptAudit(p, AuditCutoff(p))
    /\ purge' = [purge EXCEPT ![p].at = "cleanup"]
    /\ UNCHANGED <<clock, objects, writer>>

\* A failure, or the task's soft time limit: the transaction is rolled back.
PurgeFails(p) ==
    /\ purge[p] # Resting
    /\ purge' = [purge EXCEPT ![p] = Resting]
    /\ UNCHANGED <<clock, rscan, report, objects, audit, writer>>

\* _cleanup_storage, after the commit; a storage failure is only logged.
PurgeCleanup(p) ==
    /\ purge[p] # Resting /\ purge[p].at = "cleanup"
    /\ \E kept \in SUBSET purge[p].reports : objects' = objects \ (purge[p].reports \ kept)
    /\ purge' = [purge EXCEPT ![p] = Resting]
    /\ UNCHANGED <<clock, rscan, report, audit, writer>>

-----------------------------------------------------------------------------
(* Reports                                                                 *)

\* create_report: some scan of the project finished, which a risk assessment
\* does not ask for; every cited scan is there when it is looked up.
ReportRead(w) ==
    /\ writer[w] = Resting
    /\ \E report_type \in {"risk_assessment", "technical"} :
          report_type # "risk_assessment" => \E s \in ScanIds : rscan[s].st = "done"
    /\ \E cites \in {{}} \cup {{s} : s \in {t \in ScanIds : rscan[t].st \in {"running", "done"}}} :
          writer' = [writer EXCEPT ![w] = [at |-> "render", id |-> 0, cites |-> cites]]
    /\ UNCHANGED <<clock, rscan, report, objects, audit, purge>>

\* The row is flushed for its id and the rendered PDF is stored under it.
ReportStore(w) ==
    /\ writer[w] # Resting /\ writer[w].at = "render"
    /\ \E r \in ReportIds :
          /\ report[r].st = "absent" /\ r \notin objects
          /\ objects' = objects \cup {r}
          /\ writer' = [writer EXCEPT ![w] = [@ EXCEPT !.at = "commit", !.id = r]]
    /\ UNCHANGED <<clock, rscan, report, audit, purge>>

ReportCommit(w) ==
    /\ writer[w] # Resting /\ writer[w].at = "commit"
    /\ report' = [report EXCEPT ![writer[w].id] =
                    [st |-> "present", ts |-> clock, cites |-> writer[w].cites, flagged |-> FALSE]]
    /\ writer' = [writer EXCEPT ![w] = Resting]
    /\ UNCHANGED <<clock, rscan, objects, audit, purge>>

ScanEnds(s) ==
    /\ rscan[s].st = "running"
    /\ rscan' = [rscan EXCEPT ![s] = [st |-> "done", ts |-> clock]]
    /\ UNCHANGED <<clock, report, objects, audit, purge, writer>>

Day ==
    /\ clock < MaxNow
    /\ clock' = clock + 1
    /\ UNCHANGED <<rscan, report, objects, audit, purge, writer>>

-----------------------------------------------------------------------------
RetentionInit ==
    /\ clock = 0
    /\ rscan = [s \in ScanIds |-> [st |-> "running", ts |-> 0]]
    /\ report = [r \in ReportIds |-> NoReport]
    /\ objects = {} /\ audit = {}
    /\ purge = [p \in Purges |-> Resting]
    /\ writer = [w \in Writers |-> Resting]

RetentionNext ==
    \/ \E p \in Purges :
          \/ PurgeStart(p) \/ PurgeReports(p) \/ PurgeScans(p)
          \/ PurgeCommit(p) \/ PurgeFails(p) \/ PurgeCleanup(p)
    \/ \E w \in Writers : ReportRead(w) \/ ReportStore(w) \/ ReportCommit(w)
    \/ \E s \in ScanIds : ScanEnds(s)
    \/ Day

-----------------------------------------------------------------------------
(* Properties                                                              *)

RetentionTypeOK ==
    /\ clock \in 0 .. MaxNow
    /\ rscan \in [ScanIds -> [st : {"running", "done", "purged"}, ts : 0 .. MaxNow]]
    /\ report \in [ReportIds -> [st : {"absent", "present", "purged"}, ts : 0 .. MaxNow,
                                 cites : SUBSET ScanIds, flagged : BOOLEAN]]
    /\ objects \subseteq ReportIds

\* A report that is listed can be downloaded: however a purge fails or two of
\* them overlap, an object is only deleted once its row is gone for good
\* (retention/service.py: capture before, cleanup after the commit).
ListedIsStored == \A r \in ReportIds : report[r].st = "present" => r \in objects

\* A purge removes a report only when it is older than the window and at
\* least min_keep newer ones survive it, also while reports are being written
\* and another purge runs (repo.py, _ranked_cte); every committed deletion
\* leaves its own audit event behind, whatever the audit window (service.py,
\* step 6); and what is listed stays stored.
PurgeSpares ==
    [][/\ \A r \in ReportIds : report[r].st = "present" /\ report'[r].st = "purged" =>
             /\ report[r].ts + Days["report"] < clock
             /\ MinKeep <= Cardinality({q \in ReportIds :
                               report'[q].st = "present" /\ report'[q].ts >= report[r].ts})
       /\ \A p \in Purges : PurgeCommit(p) => purge[p].wrote \subseteq audit'
       /\ ListedIsStored']_retentionVars

\* repo.py, mark_reports_with_purged_scans: "a report can never observably
\* exist with a stale, un-flagged reference even for one committed instant".
CitedScansFlagged ==
    \A r \in ReportIds :
        (report[r].st = "present" /\ \E s \in report[r].cites : rscan[s].st = "purged")
            => report[r].flagged
=============================================================================
