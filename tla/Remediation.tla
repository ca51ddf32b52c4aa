---------------------------- MODULE Remediation ----------------------------
(***************************************************************************)
(* The remediation work item of an issue: its lifecycle under an optimistic*)
(* version lock, verification by retest, risk acceptance, and the way a    *)
(* regression found by a scan revives it (modules/remediation).            *)
(*                                                                         *)
(* All fingerprints of Findings share one template, hence one issue key,   *)
(* hence (unique key) one item.  Clients send versions they were shown.    *)
(***************************************************************************)
EXTENDS Findings

CONSTANTS
    Requests,     \* verification request rows
    Acceptances,  \* risk acceptance rows
    MaxVersion    \* bound: item versions explored

ASSUME MaxVersionAssumption == MaxVersion \in Nat \ {0}

VARIABLES
    item,    \* the work item, or None
    req,     \* request -> row, or None
    acc      \* acceptance -> row, or None

vars == <<vulns, scan, saw, tx, op, item, req, acc>>
rows == <<vulns, scan, saw, tx>>

OpenStatuses == {"proposed", "accepted", "in_progress", "awaiting_verification", "reopened"}
Resolved == {"verified", "closed", "risk_accepted"}
ItemStatuses == OpenStatuses \cup Resolved \cup {"rejected"}

\* The rows of the three tables.
ItemRow == [status : ItemStatuses, version : 1 .. MaxVersion,
            resolved : BOOLEAN, verified : BOOLEAN]
ReqRow == [st : {"pending", "claimed", "completed"}, scan : Scans \cup {None},
           result : {None, "passed", "failed", "incomplete_coverage"}]
AccRow == [f : Fingerprints, st : {"active", "expired", "revoked"}]

ASSUME NullAssumption == None \notin ItemRow /\ None \notin ReqRow /\ None \notin AccRow

\* Mutant: the transition endpoint may write verified.
GuardedTargetsOpen == {"risk_accepted"}
GuardedTargets == {"verified", "risk_accepted"}

is_legal(from, to) ==
    to \in CASE from = "proposed"              -> {"accepted", "risk_accepted", "rejected"}
             [] from = "accepted"              -> {"in_progress", "risk_accepted", "rejected"}
             [] from = "in_progress"           -> {"awaiting_verification", "risk_accepted"}
             [] from = "awaiting_verification" -> {"verified", "in_progress"}
             [] from = "verified"              -> {"closed", "reopened"}
             [] from = "closed"                -> {"reopened"}
             [] from = "reopened"              -> {"accepted", "in_progress", "risk_accepted"}
             [] from = "risk_accepted"         -> {"reopened", "in_progress"}
             [] OTHER                          -> {"proposed"}

\* Mutant: the UPDATE does not ask for the version.
VersionUnfenced(ver) == item # None
\* The conditional UPDATE on the version.
VersionHolds(ver) == item # None /\ item.version = ver

\* _apply_transition: version, status and the two stamps change together.
Moved(to) ==
    [status   |-> to,
     version  |-> item.version + 1,
     resolved |-> IF to \in Resolved THEN TRUE
                  ELSE IF to \in OpenStatuses THEN FALSE ELSE item.resolved,
     verified |-> IF to = "verified" THEN TRUE
                  ELSE IF to \in OpenStatuses \ {"awaiting_verification"} THEN FALSE
                  ELSE item.verified]

Room == item # None /\ item.version < MaxVersion
Done(c) == op' = [op EXCEPT ![c] = Idle]

-----------------------------------------------------------------------------
(* The item                                                                *)

\* sync_items_for_project: an item for the issue once it has a scorable row.
SyncItem ==
    /\ item = None /\ \E f \in Fingerprints : is_scorable(vulns[f])
    /\ item' = [status |-> "proposed", version |-> 1, resolved |-> FALSE, verified |-> FALSE]
    /\ UNCHANGED <<rows, op, req, acc>>

\* A human transition reads the item and checks it, then writes under the lock.
TransitionRead(c, to) ==
    /\ op[c] = Idle /\ Room
    /\ to \notin GuardedTargets /\ is_legal(item.status, to)
    /\ op' = [op EXCEPT ![c] = [at |-> "transition", to |-> to, ver |-> item.version]]
    /\ UNCHANGED <<rows, item, req, acc>>

TransitionApply(c) ==
    /\ op[c].at = "transition" /\ VersionHolds(op[c].ver) /\ Room
    /\ item' = Moved(op[c].to) /\ Done(c)
    /\ UNCHANGED <<rows, req, acc>>

\* update_item: owner, due date, priority or notes; the version moves on.
UpdateItem ==
    /\ Room
    /\ item' = [item EXCEPT !.version = @ + 1]
    /\ UNCHANGED <<rows, op, req, acc>>

\* The lock refuses a request that read an older version.
StaleVersion(c) ==
    /\ op[c].at \in {"transition", "verify", "decided", "accept"}
    /\ op[c].ver # 0 /\ ~VersionHolds(op[c].ver)
    /\ Done(c)
    /\ UNCHANGED <<rows, item, req, acc>>

-----------------------------------------------------------------------------
(* A regression revives the item inside the ingest session                 *)

RegressionRead(s) ==
    /\ tx[s].at = "item"
    /\ tx' = [tx EXCEPT ![s] =
                 IF item = None \/ ~is_legal(item.status, "reopened")
                   THEN Rest(@.pend)
                   ELSE [@ EXCEPT !.at = "cas", !.ver = item.version]]
    /\ UNCHANGED <<vulns, scan, saw, op, item, req, acc>>

\* The transition commits the session, the findings ingested so far included.
RegressionApply(s) ==
    /\ tx[s].at = "cas" /\ VersionHolds(tx[s].ver) /\ Room
    /\ item' = Moved("reopened")
    /\ CommitRows(s)
    /\ tx' = [tx EXCEPT ![s] = Rest(Empty)]
    /\ UNCHANGED <<scan, op, req, acc>>

\* The lost race rolls the whole session back, the row's flip included.
RegressionStale(s) ==
    /\ tx[s].at = "cas" /\ ~VersionHolds(tx[s].ver)
    /\ tx' = [tx EXCEPT ![s] = Rest(Empty)]
    /\ UNCHANGED <<vulns, scan, saw, op, item, req, acc>>

-----------------------------------------------------------------------------
(* Verification by retest                                                  *)

Outstanding == {r \in Requests : req[r] # None /\ req[r].st \in {"pending", "claimed"}}

\* A scan may be linked only when it has finished; linking one is optional.
Linkable(s) == scan[s].st = "done"

RequestRead(c, s) ==
    /\ op[c] = Idle /\ Room
    /\ is_legal(item.status, "awaiting_verification")
    /\ s # None => Linkable(s)
    /\ Outstanding = {}
    /\ op' = [op EXCEPT ![c] = [at |-> "verify", scan |-> s, ver |-> item.version]]
    /\ UNCHANGED <<rows, item, req, acc>>

RequestApply(c) ==
    /\ op[c].at = "verify" /\ VersionHolds(op[c].ver) /\ Room
    /\ \E r \in Requests :
          /\ req[r] = None
          /\ req' = [req EXCEPT ![r] = [st |-> "pending", scan |-> op[c].scan, result |-> None]]
    /\ item' = Moved("awaiting_verification") /\ Done(c)
    /\ UNCHANGED <<rows, acc>>

\* A worker claims a pending request with one conditional UPDATE.
claim_verification(r) ==
    /\ req[r] # None /\ req[r].st = "pending"
    /\ req' = [req EXCEPT ![r].st = "claimed"]
    /\ UNCHANGED <<rows, op, item, acc>>

CompleteRead(c, r) ==
    /\ op[c] = Idle
    /\ r \in Outstanding /\ req[r].scan # None
    /\ op' = [op EXCEPT ![c] = [at |-> "complete", r |-> r]]
    /\ UNCHANGED <<rows, item, req, acc>>

\* The rows the scan touched last and that still count.
_live_locations(s) == {f \in Fingerprints : is_scorable(vulns[f]) /\ vulns[f].last = s}

UsableCoverage(s) == scan[s].cov

Verdict(s) ==
    IF ~UsableCoverage(s)           THEN "incomplete_coverage"
    ELSE IF _live_locations(s) = {} THEN "passed"
    ELSE "failed"

CompleteDecide(c) ==
    LET v == Verdict(req[op[c].r].scan) IN
    /\ op[c].at = "complete"
    /\ op' = [op EXCEPT ![c] = [at |-> "decided", r |-> op[c].r, verdict |-> v,
                 to  |-> IF v = "passed" THEN "verified" ELSE "in_progress",
                 ver |-> IF /\ v # "incomplete_coverage"
                            /\ is_legal(item.status, IF v = "passed" THEN "verified"
                                                                      ELSE "in_progress")
                           THEN item.version ELSE 0]]
    /\ UNCHANGED <<rows, item, req, acc>>

Completed(c) == req' = [req EXCEPT ![op[c].r].st = "completed", ![op[c].r].result = op[c].verdict]

CompleteApply(c) ==
    /\ op[c].at = "decided" /\ op[c].ver # 0 /\ VersionHolds(op[c].ver) /\ Room
    /\ item' = Moved(op[c].to) /\ Completed(c) /\ Done(c)
    /\ UNCHANGED <<rows, acc>>

\* No usable coverage, or the item has moved on: only the outcome is recorded.
CompleteRecord(c) ==
    /\ op[c].at = "decided" /\ op[c].ver = 0
    /\ Completed(c) /\ Done(c)
    /\ UNCHANGED <<rows, item, acc>>

-----------------------------------------------------------------------------
(* Risk acceptance                                                         *)

ActiveFor(f) == {a \in Acceptances : acc[a] # None /\ acc[a].f = f /\ acc[a].st = "active"}

AcceptRead(c, f, linked) ==
    /\ op[c] = Idle
    /\ vulns[f] # None /\ ActiveFor(f) = {}
    /\ linked => Room /\ is_legal(item.status, "risk_accepted")
    /\ op' = [op EXCEPT ![c] = [at |-> "accept", f |-> f,
                                ver |-> IF linked THEN item.version ELSE 0]]
    /\ UNCHANGED <<rows, item, req, acc>>

AcceptApply(c) ==
    /\ op[c].at = "accept"
    /\ \E a \in Acceptances :
          /\ acc[a] = None
          /\ acc' = [acc EXCEPT ![a] = [f |-> op[c].f, st |-> "active"]]
    /\ IF op[c].ver = 0 THEN UNCHANGED item
                        ELSE /\ VersionHolds(op[c].ver) /\ Room
                             /\ item' = Moved("risk_accepted")
    /\ Done(c)
    /\ UNCHANGED <<rows, req>>

RevokeRead(c, a) ==
    /\ op[c] = Idle
    /\ acc[a] # None /\ acc[a].st = "active"
    /\ op' = [op EXCEPT ![c] = [at |-> "revoke", a |-> a]]
    /\ UNCHANGED <<rows, item, req, acc>>

RevokeWrite(c) ==
    /\ op[c].at = "revoke"
    /\ acc' = [acc EXCEPT ![op[c].a].st = "revoked"] /\ Done(c)
    /\ UNCHANGED <<rows, item, req>>

\* The sweep expires the acceptances whose time has passed, in one UPDATE.
expire_due_acceptances(due) ==
    /\ due # {} /\ \A a \in due : acc[a] # None /\ acc[a].st = "active"
    /\ acc' = [a \in Acceptances |-> IF a \in due THEN [acc[a] EXCEPT !.st = "expired"] ELSE acc[a]]
    /\ UNCHANGED <<rows, op, item, req>>

-----------------------------------------------------------------------------

Init == FindingsInit /\ item = None
        /\ req = [r \in Requests |-> None] /\ acc = [a \in Acceptances |-> None]

Next ==
    \/ FindingsNext /\ UNCHANGED <<item, req, acc>>
    \/ SyncItem \/ UpdateItem
    \/ \E s \in Scans : RegressionRead(s) \/ RegressionApply(s) \/ RegressionStale(s)
    \/ \E r \in Requests : claim_verification(r)
    \/ \E due \in SUBSET Acceptances : expire_due_acceptances(due)
    \/ \E c \in Clients :
          \/ \E to \in ItemStatuses : TransitionRead(c, to)
          \/ TransitionApply(c) \/ StaleVersion(c)
          \/ \E s \in Scans \cup {None} : RequestRead(c, s)
          \/ RequestApply(c)
          \/ \E r \in Requests : CompleteRead(c, r)
          \/ CompleteDecide(c) \/ CompleteApply(c) \/ CompleteRecord(c)
          \/ \E f \in Fingerprints, linked \in BOOLEAN : AcceptRead(c, f, linked)
          \/ AcceptApply(c)
          \/ \E a \in Acceptances : RevokeRead(c, a)
          \/ RevokeWrite(c)

Spec == Init /\ [][Next]_vars

-----------------------------------------------------------------------------
(* Properties                                                              *)

\* Every table holds rows of its type, and resolved_at and verified_at are set
\* exactly while the work is finished, whatever path of reopenings led here
\* (_apply_transition).
TypeOK ==
    /\ FindingsTypeOK
    /\ item \in ItemRow \cup {None}
    /\ item # None => /\ item.resolved <=> item.status \in Resolved
                      /\ item.verified <=> item.status \in {"verified", "closed"}
    /\ req \in [Requests -> ReqRow \cup {None}]
    /\ acc \in [Acceptances -> AccRow \cup {None}]

\* The committed status of an item only ever moves along LEGAL_TRANSITIONS,
\* although every writer checks legality on a row it read earlier: people,
\* retest completions, risk acceptances and scans interleave, and the version
\* lock of _bump_version is what keeps a stale check from being applied.
LegalLifecycle ==
    [][item # None /\ item'.status # item.status => is_legal(item.status, item'.status)]_vars

\* An item has at most one outstanding verification request, although the
\* check for another one and the insert are separate statements
\* (request_verification): the insert shares the transition's transaction.
OneOutstanding == Cardinality(Outstanding) <= 1

\* An item becomes verified only by a completion that decided on this very
\* version of it, together with the request it completes, which passes on the
\* word of a retest that had ended and whose detection tools had run to a
\* usable end (complete_verification); no other path leads there.  The request
\* itself may have been completed in the meantime: its UPDATE is unconditional.
VerifiedByRetest ==
    [][item # None /\ item'.status = "verified" /\ item.status # "verified" =>
          \E c \in Clients :
              /\ op[c].at = "decided" /\ op[c].ver = item.version
              /\ req[op[c].r] # None /\ req'[op[c].r].result = "passed"
              /\ scan[req[op[c].r].scan] = [st |-> "done", cov |-> TRUE]]_vars

\* "PASSED -- the retest scan observed ZERO active (scorable) findings for this
\* issue_key": a completion that passes never follows a retest that committed a
\* finding of the issue which is still active (verification.py).
PassedMeansUnseen ==
    [][\A r \in Requests :
          req[r] # None /\ req[r].result # "passed" /\ req'[r].result = "passed" =>
              \A f \in saw[req[r].scan] : ~is_scorable(vulns[f])]_vars
=============================================================================
