----------------------------- MODULE WorkerFleet -----------------------------
(***************************************************************************)
(* The lifecycle of the remote scanner workers: their rows in              *)
(* scanner_workers, the processes that heartbeat and lease through the     *)
(* manager, the operator commands (drain, reactivate, revoke), the         *)
(* stale-worker sweep with its startup grace, and outages of the platform. *)
(*                                                                         *)
(* The platform (database, manager, beat and worker-default) goes down and *)
(* comes back as a whole, as in a host restart; uptime is the age of the   *)
(* process that sweeps.  A `revoked` status stands for revoked_at and the  *)
(* destroyed credentials that are written with it.                         *)
(***************************************************************************)
EXTENDS Integers

CONSTANTS Workers,      \* registered workers
          Private,      \* those bound to a private site
          StaleAfter,   \* worker_stale_after_seconds, in ticks
          MaxAge,       \* where ages saturate
          MaxOutages    \* bound on platform outages

\* The stale window is longer than the interval of beats, hence no less than
\* a tick (600 s against 30 s; test_p8f_worker_stale_reaper.py).
ASSUME FleetAssumption ==
    /\ Private \subseteq Workers
    /\ StaleAfter \in Nat \ {0} /\ MaxAge \in Nat /\ StaleAfter < MaxAge
    /\ MaxOutages \in Nat

VARIABLES
    status,    \* scanner_workers.status
    seen,      \* age of COALESCE(last_seen_at, created_at)
    proc,      \* is the worker's process running
    beat,      \* outcome of its latest beat since start or reactivation
    asking,    \* a lease request passed its checks and is being answered
    busy,      \* the worker holds a leased scan
    open,      \* the worker's site may be scanned: active, no emergency switch
    up,        \* the platform is up
    uptime,    \* process_uptime_seconds of the sweeping process
    sweep,     \* reap_stale_workers: "idle" | "selected"
    doomed,    \* workers its SELECT returned
    audit,     \* reaped_stale rows the latest sweep wrote
    outages    \* outages still allowed

wvars == <<status, seen, proc, beat, asking, busy>>
pvars == <<up, uptime, outages>>
svars == <<sweep, doomed, audit>>
vars == <<wvars, open, pvars, svars>>

Statuses == {"pending", "active", "draining", "suspended", "revoked"}
Ages == 0 .. MaxAge
Older(a) == IF a = MaxAge THEN a ELSE a + 1

\* WORKING_STATUSES and LEASE_ELIGIBLE_STATUSES.
Working == {"active", "draining"}
LeaseEligible == {"active"}

\* assert_worker_active, asked at authentication; assert_worker_may_lease.
MayAct(w) == status[w] \in Working
MayLease(w) == MayAct(w) /\ status[w] \in LeaseEligible

\* A worker is in touch when its process runs and the platform answers.
InTouch(w) == up /\ proc[w]

\* Registration is done outside this code: a row starts approved or pending.
Init ==
    /\ status \in [Workers -> {"pending", "active"}]
    /\ seen = [w \in Workers |-> 0]
    /\ proc = [w \in Workers |-> FALSE]
    /\ beat = [w \in Workers |-> "none"]
    /\ asking = [w \in Workers |-> FALSE]
    /\ busy = [w \in Workers |-> FALSE]
    /\ open = [w \in Workers |-> TRUE]
    /\ up = TRUE /\ uptime = 0 /\ outages = MaxOutages
    /\ sweep = "idle" /\ doomed = {} /\ audit = {}

-----------------------------------------------------------------------------
(* The worker process and the manager's endpoints.                         *)

Start(w) ==
    /\ ~proc[w]
    /\ proc' = [proc EXCEPT ![w] = TRUE]
    /\ beat' = [beat EXCEPT ![w] = "none"]
    /\ UNCHANGED <<status, seen, asking, busy, open, pvars, svars>>

Die(w) ==
    /\ proc[w]
    /\ proc' = [proc EXCEPT ![w] = FALSE]
    /\ asking' = [asking EXCEPT ![w] = FALSE]
    /\ busy' = [busy EXCEPT ![w] = FALSE]
    /\ UNCHANGED <<status, seen, beat, open, pvars, svars>>

\* POST /v1/heartbeat, at startup, when idle and while a scan runs.
Beat(w) ==
    /\ InTouch(w) /\ MayAct(w)
    /\ busy[w] => open[w]
    /\ seen' = [seen EXCEPT ![w] = 0]
    /\ beat' = [beat EXCEPT ![w] = "accepted"]
    /\ UNCHANGED <<status, proc, asking, busy, open, pvars, svars>>

\* A beat that names a scan whose site is closed: record_heartbeat has only
\* been flushed when _authorize_scan_for_worker raises, and is rolled back.
BeatRolledBack(w) ==
    /\ InTouch(w) /\ MayAct(w)
    /\ busy[w] /\ ~open[w]
    /\ beat' = [beat EXCEPT ![w] = "rolled_back"]
    /\ UNCHANGED <<status, seen, proc, asking, busy, open, pvars, svars>>

\* POST /v1/lease up to the claim: the worker's row is read once.
LeaseAsk(w) ==
    /\ InTouch(w) /\ ~busy[w] /\ ~asking[w]
    /\ MayLease(w)
    /\ asking' = [asking EXCEPT ![w] = TRUE]
    /\ UNCHANGED <<status, seen, proc, beat, busy, open, pvars, svars>>

\* A 403 ends the lease loop and the process with it.
LeaseRefused(w) ==
    /\ InTouch(w) /\ ~busy[w] /\ ~asking[w]
    /\ ~MayLease(w)
    /\ proc' = [proc EXCEPT ![w] = FALSE]
    /\ UNCHANGED <<status, seen, beat, asking, busy, open, pvars, svars>>

\* The rest of POST /v1/lease: a scan is claimed, if there is one.
LeaseAnswer(w) ==
    /\ up /\ asking[w]
    /\ asking' = [asking EXCEPT ![w] = FALSE]
    /\ \E got \in {FALSE, open[w]} : busy' = [busy EXCEPT ![w] = got]
    /\ UNCHANGED <<status, seen, proc, beat, open, pvars, svars>>

\* POST /v1/lease/complete.
Report(w) ==
    /\ InTouch(w) /\ busy[w]
    /\ MayAct(w) /\ open[w]
    /\ busy' = [busy EXCEPT ![w] = FALSE]
    /\ UNCHANGED <<status, seen, proc, beat, asking, open, pvars, svars>>

\* A refused report is left for the orphan reaper of the scans.
ReportRefused(w) ==
    /\ InTouch(w) /\ busy[w]
    /\ ~(MayAct(w) /\ open[w])
    /\ busy' = [busy EXCEPT ![w] = FALSE]
    /\ UNCHANGED <<status, seen, proc, beat, asking, open, pvars, svars>>

\* Three attempts meet transport failures, the platform being down or out of
\* the worker's reach: _safe_complete gives up, and the process goes on
\* without the scan, which is left for the orphan reaper.
ReportUnreachable(w) ==
    /\ proc[w] /\ busy[w]
    /\ busy' = [busy EXCEPT ![w] = FALSE]
    /\ UNCHANGED <<status, seen, proc, beat, asking, open, pvars, svars>>

-----------------------------------------------------------------------------
(* Operators.                                                              *)

\* Mutant: the terminal name of the state instead of its own.
DrainMutant(w) ==
    /\ up /\ status[w] = "active"
    /\ status' = [status EXCEPT ![w] = "drained"]
    /\ UNCHANGED <<seen, proc, beat, asking, busy, open, pvars, svars>>
Drain(w) ==
    /\ up /\ status[w] = "active"
    /\ status' = [status EXCEPT ![w] = "draining"]
    /\ UNCHANGED <<seen, proc, beat, asking, busy, open, pvars, svars>>

\* last_seen_at is deliberately not written.
Reactivate(w) ==
    /\ up /\ status[w] = "suspended"
    /\ status' = [status EXCEPT ![w] = "active"]
    /\ beat' = [beat EXCEPT ![w] = "none"]
    /\ UNCHANGED <<seen, proc, asking, busy, open, pvars, svars>>

\* Unconditional.
Revoke(w) ==
    /\ up
    /\ status' = [status EXCEPT ![w] = "revoked"]
    /\ UNCHANGED <<seen, proc, beat, asking, busy, open, pvars, svars>>

\* The site is suspended or the emergency switch thrown, or either undone.
SwitchSite(w) ==
    /\ up /\ w \in Private
    /\ open' = [open EXCEPT ![w] = ~@]
    /\ UNCHANGED <<wvars, pvars, svars>>

-----------------------------------------------------------------------------
(* reap_stale_workers, the platform and time.                              *)

Stale(w) == status[w] = "active" /\ seen[w] > StaleAfter

\* Mutants: the gate is not there; its anchor is taken anew by every forked
\* child, so that it never expires.
WithinStartupGraceMutant == FALSE
WithinStartupGraceRearmed == 0 < StaleAfter
\* The grace reuses worker_stale_after_seconds.
WithinStartupGrace == uptime < StaleAfter

\* The SELECT that names the workers for the audit; it may fail.
SweepSelect ==
    /\ up /\ sweep = "idle"
    /\ ~WithinStartupGrace
    /\ sweep' = "selected"
    /\ doomed' \in {{w \in Workers : Stale(w)}, {}}
    /\ audit' = {}
    /\ UNCHANGED <<wvars, open, pvars>>

\* Mutant: the workers the SELECT named are suspended by their id.
SweepUpdateMutant ==
    /\ up /\ sweep = "selected"
    /\ status' = [w \in Workers |-> IF w \in doomed THEN "suspended" ELSE status[w]]
    /\ audit' = doomed
    /\ sweep' = "idle" /\ doomed' = {}
    /\ UNCHANGED <<seen, proc, beat, asking, busy, open, pvars>>
\* The UPDATE, and one audit row per worker the SELECT named provided that
\* the UPDATE matched any row at all.
SweepUpdate ==
    /\ up /\ sweep = "selected"
    /\ LET suspended == {w \in Workers : Stale(w)}
       IN  /\ status' = [w \in Workers |->
                            IF w \in suspended THEN "suspended" ELSE status[w]]
           /\ audit' = IF suspended # {} THEN doomed ELSE {}
    /\ sweep' = "idle" /\ doomed' = {}
    /\ UNCHANGED <<seen, proc, beat, asking, busy, open, pvars>>

PlatformDown ==
    /\ up /\ outages > 0
    /\ up' = FALSE /\ uptime' = 0 /\ outages' = outages - 1
    /\ asking' = [w \in Workers |-> FALSE]
    /\ sweep' = "idle" /\ doomed' = {} /\ audit' = {}
    /\ UNCHANGED <<status, seen, proc, beat, busy, open>>

PlatformUp ==
    /\ ~up
    /\ up' = TRUE
    /\ UNCHANGED <<wvars, open, uptime, outages, svars>>

\* A sweep takes less than a tick.  A tick is longer than the beat interval
\* (30 s), and than the attempts at a lease or a report with their back-offs
\* (60 s at most): a worker that is in touch and may act has beaten since the
\* last one.
Tick ==
    /\ sweep = "idle"
    /\ \A w \in Workers : InTouch(w) /\ MayAct(w) =>
          seen[w] = 0 \/ (busy[w] /\ ~open[w] /\ beat[w] = "rolled_back")
    /\ seen' = [w \in Workers |-> Older(seen[w])]
    /\ uptime' = IF up THEN Older(uptime) ELSE 0
    /\ UNCHANGED <<status, proc, beat, asking, busy, open, up, outages, svars>>

-----------------------------------------------------------------------------
Step(w) ==
    \/ Start(w) \/ Die(w) \/ Beat(w) \/ BeatRolledBack(w)
    \/ LeaseAsk(w) \/ LeaseRefused(w) \/ LeaseAnswer(w)
    \/ Report(w) \/ ReportRefused(w) \/ ReportUnreachable(w)
    \/ Drain(w) \/ Reactivate(w) \/ Revoke(w) \/ SwitchSite(w)

Next ==
    \/ \E w \in Workers : Step(w)
    \/ SweepSelect \/ SweepUpdate \/ PlatformDown \/ PlatformUp \/ Tick

(***************************************************************************)
(* Fairness: the platform comes back, beat keeps dispatching the sweep,    *)
(* and, however often processes restart, workers beat (at every start,     *)
(* before they poll, and then every 30 s) and time goes on.  Nothing an    *)
(* operator does is required.                                              *)
(***************************************************************************)
Fairness ==
    /\ WF_vars(PlatformUp) /\ WF_vars(SweepSelect) /\ WF_vars(SweepUpdate)
    /\ \A w \in Workers : SF_vars(Beat(w)) /\ WF_vars(BeatRolledBack(w))
    /\ SF_vars(Tick)

Spec == Init /\ [][Next]_vars
FairSpec == Spec /\ Fairness

-----------------------------------------------------------------------------
(* Properties.                                                             *)

\* Every variable stays in its type.
TypeOK ==
    /\ status \in [Workers -> Statuses]
    /\ seen \in [Workers -> Ages]
    /\ proc \in [Workers -> BOOLEAN]
    /\ beat \in [Workers -> {"none", "accepted", "rolled_back"}]
    /\ asking \in [Workers -> BOOLEAN] /\ busy \in [Workers -> BOOLEAN]
    /\ open \in [Workers -> BOOLEAN]
    /\ up \in BOOLEAN /\ uptime \in Ages /\ outages \in Nat
    /\ sweep \in {"idle", "selected"}
    /\ doomed \in SUBSET Workers /\ audit \in SUBSET Workers

\* What drain, revoke, reactivate and the sweep may do to a worker, whichever
\* of them meet between a read and its write.  Lease authority is only ever
\* restored by an operator and only to a suspended worker: a revoked worker
\* stays revoked, a draining one is only ever revoked.  A draining worker with
\* nothing in hand and no request being answered is never given work, so it can
\* be switched off; and draining does not cost the scan in hand: unless its
\* site is closed, the manager never refuses the report of a draining worker
\* (the worker may still die with it, or fail to reach the manager).
OrderlyAuthority ==
    [][\A w \in Workers :
          /\ status[w] = "revoked" => status'[w] = "revoked"
          /\ status[w] = "pending" => status'[w] \in {"pending", "revoked"}
          /\ status[w] = "suspended" /\ status'[w] = "active" => Reactivate(w)
          /\ status[w] = "draining" =>
                /\ status'[w] \in {"draining", "revoked"}
                /\ ~busy[w] /\ ~asking[w] => ~busy'[w] /\ ~asking'[w]
                /\ open[w] => ~ReportRefused(w)]_vars

\* The sweep never suspends a worker that is alive and whose beats were
\* accepted, however long the platform was down: a full window must pass
\* after an outage before anybody is judged.
LiveNotReaped ==
    [][\A w \in Workers :
          status[w] = "active" /\ status'[w] = "suspended"
              => ~proc[w] \/ beat[w] # "accepted"]_vars

\* The gap the reaper closes: a worker whose process is gone does not stay
\* leasable for ever, outages and startup grace notwithstanding.
DeadSuspended ==
    \A w \in Workers :
        status[w] = "active" /\ ~proc[w] ~> status[w] # "active" \/ proc[w]

(***************************************************************************)
(* Statements of the code's comments that the code does not keep.          *)
(***************************************************************************)

\* "Suspend workers that have stopped heartbeating": a worker that is
\* running and has sent its beat is not suspended.
SilenceMeansDead ==
    [][\A w \in Workers :
          status[w] = "active" /\ status'[w] = "suspended"
              => ~proc[w] \/ beat[w] = "none"]_vars

\* "one durable audit row per ACTUALLY-suspended worker": no audit row names
\* a worker this sweep did not suspend.
AuditTellsTruth ==
    [][SweepUpdate => \A w \in audit' :
          status[w] = "active" /\ status'[w] = "suspended"]_vars

=============================================================================
