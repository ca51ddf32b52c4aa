------------------------------- MODULE ScanRow -------------------------------
(***************************************************************************)
(* One row of the `scans` table and the conditional UPDATE statements that *)
(* change it.  Every statement names one row by its id, so one row is all  *)
(* that a scan's executors, the API and the beat sweeps share.             *)
(*                                                                         *)
(* A timestamp column is modelled by its age, counted in ticks of an       *)
(* unspecified length and saturating at MaxAge; a NULL column is None.     *)
(* "column < now() - threshold" is then "age > threshold".                 *)
(***************************************************************************)
EXTENDS Integers

CONSTANTS StaleAfter,   \* scan_stale_heartbeat_seconds
          OrphanAfter,  \* scan_orphan_timeout_seconds
          RelayAfter,   \* scan_queued_relay_seconds
          MaxAge        \* where ages saturate

ASSUME AgeAssumption ==
    /\ StaleAfter \in Nat /\ OrphanAfter \in Nat
    /\ RelayAfter \in Nat /\ MaxAge \in Nat
    /\ StaleAfter < MaxAge /\ OrphanAfter < MaxAge /\ RelayAfter < MaxAge

None == -1

Statuses == {"queued", "running", "completed", "completed_with_errors",
             "failed", "cancelled"}

\* _TERMINAL_STATUSES.
Terminal == {"completed", "completed_with_errors", "failed", "cancelled"}

\* What _claim_scan accepts: a first run or a retry.
Claimable == {"queued", "failed"}

\* Terminal and no longer claimable.
Settled == Terminal \ Claimable

Ages == 0 .. MaxAge
AgeOrNull == Ages \cup {None}

(***************************************************************************)
(* status, execution_token, last_heartbeat_at, started_at, queued_at and   *)
(* whether celery_task_id is set.                                          *)
(***************************************************************************)
Rows == [status : Statuses, token : Nat \cup {None}, hb : AgeOrNull,
         started : AgeOrNull, queued : Ages, task : BOOLEAN]

\* The row create_scan commits.
NewRow == [status |-> "queued", token |-> None, hb |-> None,
           started |-> None, queued |-> 0, task |-> FALSE]

-----------------------------------------------------------------------------
(* Plausible mistakes in these statements.  No specification uses them; they*)
(* show which property would notice.                                       *)

\* A claim that only excludes a running scan.
CanClaimMutant(r) == r.status # "running"
\* A terminal write fenced on the status alone.
OwnsMutant(r, t) == r.status = "running"
\* A reaper that waits for a heartbeat that never came.
SilentMutant(r) == r.status = "running" /\ r.hb # None /\ r.hb > StaleAfter
\* A reaper that does not revoke.
ReapRowMutant(r) == [r EXCEPT !.status = "failed"]
\* A requeue that leaves the task id in place.
RequeueRowMutant(r) ==
    IF r.status = "running"
    THEN [r EXCEPT !.status = "queued", !.started = None, !.token = None,
                   !.queued = 0]
    ELSE r
\* The terminal check before F2-03, without completed_with_errors.
CanCancelMutant(r) == r.status \notin {"completed", "failed", "cancelled"}
\* A partial tool makes the scan partial.
AggregateMutant(statuses) ==
    IF "partial" \in statuses THEN "partial" ELSE "completed"

-----------------------------------------------------------------------------
\* _claim_scan.  The heartbeat of an earlier execution is not cleared.
CanClaim(r) == r.status \in Claimable
ClaimRow(r, t) ==
    [r EXCEPT !.status = "running", !.started = 0, !.token = t]

\* The WHERE clause of _finalize_status and _stamp_heartbeat.
Owns(r, t) == r.status = "running" /\ r.token = t
FinalizeRow(r, st) == [r EXCEPT !.status = st, !.token = None]
HeartbeatRow(r) == [r EXCEPT !.hb = 0]

\* reap_orphaned_scans: judged on silence, or on age if it never heartbeat.
Silent(r) ==
    /\ r.status = "running"
    /\ \/ r.hb # None /\ r.hb > StaleAfter
       \/ r.hb = None /\ r.started > OrphanAfter
ReapRow(r) == [r EXCEPT !.status = "failed", !.token = None]

\* requeue_scan: conditional on the status only.
RequeueRow(r) ==
    IF r.status = "running"
    THEN [r EXCEPT !.status = "queued", !.started = None, !.task = FALSE,
                   !.token = None, !.queued = 0]
    ELSE r

\* cancel_scan.
CanCancel(r) == r.status \notin Terminal
CancelRow(r) == [r EXCEPT !.status = "cancelled", !.token = None]

\* _execution_stop_reason; "none" stands for the code's None.
StopReason(r, t) ==
    CASE r.status = "cancelled" -> "cancelled"
      [] r.status # "cancelled" /\ ~Owns(r, t) -> "revoked"
      [] OTHER -> "none"

\* The aggregation over the statuses of the tools that executed.
Aggregate(statuses) ==
    IF statuses = {"failed"} THEN "failed"
    ELSE IF statuses \cap {"failed", "partial"} # {} THEN "completed_with_errors"
    ELSE "completed"

\* The passage of one tick.  started_at is read only while the scan runs and
\* queued_at only while it is queued, and entering those states resets them;
\* the age of a heartbeat is carried from one execution to the next.
Older(a) == IF a = None \/ a = MaxAge THEN a ELSE a + 1
AgeRow(r) == [r EXCEPT !.hb = Older(@),
                       !.started = IF r.status = "running" THEN Older(@) ELSE @,
                       !.queued = IF r.status = "queued" THEN Older(@) ELSE @]

=============================================================================
