------------------------------ MODULE Findings ------------------------------
(***************************************************************************)
(* The vulnerability rows of one project: ingestion of tool findings with  *)
(* dedup, lineage and regression, and the analyst's status endpoint.       *)
(* (modules/vulnerabilities, scanner_engine/orchestrator.py).              *)
(*                                                                         *)
(* A tool run ingests its findings in one transaction.  The engine runs at *)
(* READ COMMITTED: a read sees what is committed plus the session's own    *)
(* writes, a written row is locked until the session commits.  Every       *)
(* handler that reads a row and writes it later is therefore two steps.    *)
(***************************************************************************)
EXTENDS Naturals, FiniteSets

CONSTANTS
    Fingerprints,   \* the fingerprints the tools report, all of one template
    Location,       \* fingerprint -> normalized location ("" when there is none)
    Scans,          \* the scans of the project
    Clients,        \* API requests in flight
    None            \* an absent row or reference

ASSUME LocationAssumption == Location \in [Fingerprints -> STRING]

VARIABLES
    vulns,   \* fingerprint -> the committed row, or None
    scan,    \* scan -> status, and whether a detection tool completed usefully
    saw,     \* history: the findings whose ingestion a scan committed
    tx,      \* scan -> its ingest session
    op       \* client -> the request it is serving

Settable == {"open", "confirmed", "false_positive", "fixed", "accepted_risk"}
VulnStatuses == Settable \cup {"reopened"}
Sticky == {"false_positive", "accepted_risk"}
Active == {"open", "confirmed", "reopened"}

Row == [status : VulnStatuses, last : Scans, ancestor : Fingerprints \cup {None}]

\* NULL is not a row.
ASSUME NoRowAssumption == None \notin Row

\* The statuses an analyst may set from s.
legal_status_targets(s) ==
    CASE s \in {"open", "confirmed"} -> Settable \ {s}
      [] s = "reopened"              -> Settable
      [] OTHER                       -> {"open", "confirmed"}

\* A finding that counts: active, and of a template that is no mere detection.
is_scorable(r) == r # None /\ r.status \in Active

Idle == [at |-> "idle"]
Holds(s, f) == f \in DOMAIN tx[s].pend
Locked(f) == \E s \in Scans : Holds(s, f)
Visible(s, f) == IF Holds(s, f) THEN tx[s].pend[f] ELSE vulns[f]

Empty == [g \in {} |-> None]
Rest(pend) == [at |-> "idle", f |-> None, seen |-> None, ver |-> 0, pend |-> pend]
Written(s, row) ==
    [g \in DOMAIN tx[s].pend \cup {tx[s].f} |-> IF g = tx[s].f THEN row ELSE tx[s].pend[g]]

-----------------------------------------------------------------------------
(* Ingestion                                                               *)

\* The session selects the row of the next finding it was handed.
IngestRead(s, f) ==
    /\ scan[s].st = "running" /\ tx[s].at = "idle"
    /\ tx' = [tx EXCEPT ![s] = [@ EXCEPT !.at = "write", !.f = f, !.seen = Visible(s, f)]]
    /\ UNCHANGED <<vulns, scan, saw, op>>

\* The one other row that is certainly the same issue: same template, same
\* normalized location.  None when there is no such row, or more than one.
Matches(s, f) ==
    {g \in Fingerprints \ {f} :
        Visible(s, g) # None /\ Location[f] # "" /\ Location[g] = Location[f]}

find_ancestor(s, f) ==
    IF Cardinality(Matches(s, f)) = 1 THEN CHOOSE g \in Matches(s, f) : TRUE ELSE None

\* Mutant: a new row does not say which scan saw it.
NewRowUnstamped(s, f) == [status |-> "open", last |-> None, ancestor |-> None]

\* A new row is open, or takes over its ancestor's sticky verdict.
NewRow(s, f) ==
    LET a == find_ancestor(s, f) IN
    [status |-> IF a # None /\ Visible(s, a).status \in Sticky
                  THEN Visible(s, a).status ELSE "open",
     last |-> s, ancestor |-> a]

IngestCreate(s) ==
    LET f == tx[s].f IN
    /\ tx[s].at = "write" /\ tx[s].seen = None
    /\ \A t \in Scans \ {s} : ~Holds(t, f)
    /\ vulns[f] = None
    /\ tx' = [tx EXCEPT ![s] = Rest(Written(s, NewRow(s, f)))]
    /\ UNCHANGED <<vulns, scan, saw, op>>

\* The unique key refuses a second row: the transaction is lost, the attempt
\* fails and its retry starts again.
IngestCollides(s) ==
    LET f == tx[s].f IN
    /\ tx[s].at = "write" /\ tx[s].seen = None
    /\ vulns[f] # None /\ ~Holds(s, f)
    /\ tx' = [tx EXCEPT ![s] = Rest(Empty)]
    /\ UNCHANGED <<vulns, scan, saw, op>>

\* A recurring finding: only the columns the session changed are written, so
\* the status is written only when the row was read as fixed.
Refreshed(s) ==
    LET cur == Visible(s, tx[s].f) IN
    [cur EXCEPT !.last = s,
                !.status = IF tx[s].seen.status = "fixed" THEN "reopened" ELSE @]

IngestRefresh(s) ==
    LET f == tx[s].f IN
    /\ tx[s].at = "write" /\ tx[s].seen # None
    /\ \A t \in Scans \ {s} : ~Holds(t, f)
    /\ tx' = [tx EXCEPT ![s] =
                 [Rest(Written(s, Refreshed(s))) EXCEPT
                     !.at = IF tx[s].seen.status = "fixed" THEN "item" ELSE "idle"]]
    /\ UNCHANGED <<vulns, scan, saw, op>>

\* A recurrence of a fixed finding for which no remediation item exists.
IngestNoItem(s) ==
    /\ tx[s].at = "item"
    /\ tx' = [tx EXCEPT ![s] = Rest(@.pend)]
    /\ UNCHANGED <<vulns, scan, saw, op>>

\* What the rows and the history become when session s commits.
CommitRows(s) ==
    /\ vulns' = [f \in Fingerprints |-> Visible(s, f)]
    /\ saw' = [saw EXCEPT ![s] = @ \cup DOMAIN tx[s].pend]

\* The tool run is closed and its transaction committed.
CommitBatch(s) ==
    /\ tx[s].at = "idle" /\ DOMAIN tx[s].pend # {}
    /\ CommitRows(s)
    /\ tx' = [tx EXCEPT ![s] = Rest(Empty)]
    /\ UNCHANGED <<scan, op>>

\* The scan reaches a terminal status; some detection tool completed, or none.
EndScan(s) ==
    /\ scan[s].st = "running" /\ tx[s].at = "idle" /\ DOMAIN tx[s].pend = {}
    /\ \E cov \in BOOLEAN :
          /\ saw[s] # {} => cov
          /\ scan' = [scan EXCEPT ![s] = [st |-> "done", cov |-> cov]]
    /\ UNCHANGED <<vulns, saw, tx, op>>

-----------------------------------------------------------------------------
(* The analyst's status endpoint                                           *)

StatusRead(c, f, new) ==
    /\ op[c] = Idle
    /\ vulns[f] # None /\ new \in legal_status_targets(vulns[f].status)
    /\ op' = [op EXCEPT ![c] = [at |-> "status", f |-> f, new |-> new]]
    /\ UNCHANGED <<vulns, scan, saw, tx>>

StatusWrite(c) ==
    LET f == op[c].f IN
    /\ op[c].at = "status" /\ ~Locked(f)
    /\ vulns' = [vulns EXCEPT ![f].status = op[c].new]
    /\ op' = [op EXCEPT ![c] = Idle]
    /\ UNCHANGED <<scan, saw, tx>>

-----------------------------------------------------------------------------

FindingsTypeOK ==
    /\ vulns \in [Fingerprints -> Row \cup {None}]
    /\ scan \in [Scans -> [st : {"running", "done"}, cov : BOOLEAN]]
    /\ saw \in [Scans -> SUBSET Fingerprints]
    /\ \A s \in Scans :
          /\ tx[s].at \in {"idle", "write", "item", "cas"}
          /\ DOMAIN tx[s].pend \subseteq Fingerprints
          /\ \A f \in DOMAIN tx[s].pend : tx[s].pend[f] \in Row

FindingsInit ==
    /\ vulns = [f \in Fingerprints |-> None]
    /\ scan = [s \in Scans |-> [st |-> "running", cov |-> FALSE]]
    /\ saw = [s \in Scans |-> {}]
    /\ tx = [s \in Scans |-> Rest(Empty)]
    /\ op = [c \in Clients |-> Idle]

FindingsNext ==
    \/ \E s \in Scans :
          \/ \E f \in Fingerprints : IngestRead(s, f)
          \/ IngestCreate(s)
          \/ IngestCollides(s)
          \/ IngestRefresh(s)
          \/ CommitBatch(s)
          \/ EndScan(s)
    \/ \E c \in Clients :
          \/ \E f \in Fingerprints, new \in Settable : StatusRead(c, f, new)
          \/ StatusWrite(c)

\* The rows of a project that has no remediation items.
FindingsAlone == FindingsNext \/ \E s \in Scans : IngestNoItem(s)
=============================================================================
