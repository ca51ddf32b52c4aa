------------------------------ MODULE Tenants ------------------------------
(***************************************************************************)
(* The life of one workspace: plan quotas, project / target / scan         *)
(* creation, recurring schedules and the staged deletion of the tenant     *)
(* (modules/workspaces, modules/billing, modules/projects,                 *)
(* modules/schedules, celery_app/tasks/tenant_tasks.py).                   *)
(*                                                                         *)
(* Several requests, several beat ticks and several deliveries of the      *)
(* deletion task run at once, at READ COMMITTED: only a row lock (SELECT   *)
(* ... FOR UPDATE on the workspace) or a conditional UPDATE orders them.   *)
(***************************************************************************)
EXTENDS Naturals, FiniteSets

CONSTANTS
    Scans,        \* scan identifiers, numbered in the order of creation
    Clients,      \* API requests in flight
    Beats,        \* runs of schedules.enqueue_due, which may overlap
    Deliveries,   \* messages of the tenant.delete task
    FreeLimit,    \* the free plan's limit for every kind of row
    MaxRows,      \* bound: rows of a kind
    MaxTime,      \* bound: schedule intervals that pass
    MaxRetries,   \* delete_workspace_task.max_retries
    MaxCrashes,   \* bound: worker crashes
    None

ASSUME LimitAssumption ==
    /\ "scan" \in DOMAIN FreeLimit /\ DOMAIN FreeLimit \subseteq {"project", "target", "scan"}
    /\ \A k \in DOMAIN FreeLimit : FreeLimit[k] \in Nat /\ FreeLimit[k] <= MaxRows
    /\ MaxRetries \in Nat /\ Scans \subseteq Nat
    /\ MaxRows \in Nat /\ MaxTime \in Nat /\ None \notin Clients \cup Beats

Kinds == DOMAIN FreeLimit

VARIABLES
    ws,       \* the workspace row: its status and plan; gone after the DELETE
    holder,   \* the session that holds the row lock on the workspace
    used,     \* rows of each kind (scans: those of this month)
    scans,    \* scan -> "live" (queued or running) or "cancelled"; "none" before
              \* its creation, "gone" after the cascade
    busy,     \* scans whose executor has a tool in flight
    store,    \* scans with evidence objects in object storage
    now,      \* time, in schedule intervals
    sched,    \* the recurring schedule, or None
    fired,    \* history: occurrence -> how often it was dispatched
    op,       \* what each request and each beat tick is doing
    task,     \* delivery -> the deletion task's progress
    crashes   \* worker crashes so far

rows == <<ws, holder, used>>
work == <<scans, busy, store>>
tick == <<now, sched, fired>>
tear == <<task, crashes>>
tenantVars == <<rows, work, tick, op, tear>>

Actors == Clients \cup Beats
Idle == [at |-> "idle"]
Ends(a) == op' = [op EXCEPT ![a] = Idle]
Released(a) == IF holder = a THEN None ELSE holder

-----------------------------------------------------------------------------
(* Quotas and creation                                                     *)

\* The limit a plan sets for a kind of row; a missing or unlimited plan sets
\* none, and MaxRows bounds the instance instead.
get_plan(k) == IF ws.st # "gone" /\ ws.plan = "free" THEN FreeLimit[k] ELSE MaxRows

_over(k) == used[k] >= get_plan(k)

\* The workspace gate of get_workspace_context: a mutating request enters only
\* while the workspace is active.
Gate(c) == op[c] = Idle /\ ws.st = "active"

CreateGate(c, k) ==
    /\ Gate(c)
    /\ op' = [op EXCEPT ![c] = [at |-> "quota", kind |-> k]]
    /\ UNCHANGED <<rows, work, tick, tear>>

\* Mutant: the plan is read without the lock.
PlanUnlocked(a) == holder' = holder

\* The plan is read under a row lock that the session keeps to its commit.
_plan_for_update(a) == holder = None /\ holder' = a

\* The count is compared with the plan; the caller goes on to its INSERT.
enforce_quota(a) ==
    /\ op[a].at = "quota" /\ ws.st # "gone"
    /\ ~_over(op[a].kind)
    /\ _plan_for_update(a)
    /\ op' = [op EXCEPT ![a].at = "insert"]
    /\ UNCHANGED <<ws, used, work, tick, tear>>

\* 402 at the limit, 404 once the workspace is gone.  A tick notes the
\* error on its schedule row (a text, not kept here) and goes on.
Refused(a) ==
    /\ op[a].at = "quota"
    /\ ws.st = "gone" \/ (holder = None /\ _over(op[a].kind))
    /\ Ends(a)
    /\ UNCHANGED <<rows, work, tick, tear>>

\* The row is inserted and committed, which releases the lock.
Insert(a) ==
    /\ op[a].at = "insert" /\ ws.st # "gone"
    /\ used' = [used EXCEPT ![op[a].kind] = @ + 1]
    /\ IF op[a].kind = "scan"
         THEN \E s \in Scans : /\ scans[s] = "none" /\ \A t \in Scans : t < s => scans[t] # "none"
                               /\ scans' = [scans EXCEPT ![s] = "live"]
         ELSE scans' = scans
    /\ holder' = Released(a)
    /\ Ends(a)
    /\ UNCHANGED <<ws, busy, store, tick, tear>>

\* A request or a tick dies: its transaction is rolled back.
Abort(a) ==
    /\ op[a] # Idle
    /\ holder' = Released(a)
    /\ Ends(a)
    /\ UNCHANGED <<ws, used, work, tick, tear>>

\* set_plan writes the workspace row, so it waits for the row lock.
set_plan(c, tier) ==
    /\ Gate(c) /\ holder = None
    /\ ws' = [ws EXCEPT !.plan = tier]
    /\ UNCHANGED <<holder, used, work, tick, op, tear>>

-----------------------------------------------------------------------------
(* Schedules                                                               *)

\* An interval passes; a new month restarts the monthly scan count.
Tick ==
    /\ now < MaxTime
    /\ now' = now + 1
    /\ \E month \in BOOLEAN : used' = IF month THEN [used EXCEPT !["scan"] = 0] ELSE used
    /\ UNCHANGED <<ws, holder, work, sched, fired, op, tear>>

compute_next_run(from) == from + 1

ScheduleGate(c, what) ==
    /\ op[c] = Idle /\ ws.st # "gone"
    /\ what # "delete" => ws.st = "active"
    /\ (what = "create") = (sched = None)
    /\ op' = [op EXCEPT ![c] = [at |-> "schedule", what |-> what]]
    /\ UNCHANGED <<rows, work, tick, tear>>

\* create / update / delete: the row is committed, if it and its workspace
\* are still there.
ScheduleWrite(c) ==
    /\ op[c].at = "schedule"
    /\ sched' =
         CASE ws.st = "gone" -> sched
           [] ws.st # "gone" /\ op[c].what = "create" ->
                IF sched = None
                  THEN [enabled |-> TRUE, next |-> compute_next_run(now)]
                  ELSE sched
           [] ws.st # "gone" /\ op[c].what = "delete" -> None
           [] OTHER ->
                IF sched = None THEN None
                ELSE [sched EXCEPT !.enabled = (op[c].what = "enable"),
                                   !.next = IF op[c].what = "enable"
                                              THEN compute_next_run(now) ELSE @]
    /\ Ends(c)
    /\ UNCHANGED <<rows, work, now, fired, tear>>

\* run_due_schedules selects the due schedules of workspaces not being deleted.
BeatSelect(b) ==
    /\ op[b] = Idle
    /\ sched # None /\ sched.enabled /\ sched.next <= now
    /\ ws.st = "active"
    /\ op' = [op EXCEPT ![b] = [at |-> "claim", now |-> now]]
    /\ UNCHANGED <<rows, work, tick, tear>>

\* Mutant: the claim does not ask whether the schedule is still due.
ClaimAny(b) == sched # None /\ sched.enabled

\* WHERE id = :id AND enabled AND next_run_at <= :now
StillDue(b) == sched # None /\ sched.enabled /\ sched.next <= op[b].now

\* The conditional UPDATE advances the schedule: one runner wins.
BeatClaim(b) ==
    /\ op[b].at = "claim"
    /\ IF StillDue(b)
         THEN /\ fired' = [fired EXCEPT ![sched.next] = @ + 1]
              /\ sched' = [sched EXCEPT !.next = compute_next_run(op[b].now)]
              /\ op' = [op EXCEPT ![b] = [at |-> "quota", kind |-> "scan"]]
         ELSE /\ Ends(b)
              /\ UNCHANGED <<sched, fired>>
    /\ UNCHANGED <<rows, work, now, tear>>

-----------------------------------------------------------------------------
(* The scans of the workspace, as far as the deletion meets them           *)

StartTool(s) ==
    /\ scans[s] = "live" /\ s \notin busy /\ s \notin store
    /\ busy' = busy \cup {s}
    /\ UNCHANGED <<rows, scans, store, tick, op, tear>>

\* A tool that is in flight stores its evidence whatever became of its scan.
StoreEvidence(s) ==
    /\ s \in busy
    /\ busy' = busy \ {s}
    /\ store' = store \cup {s}
    /\ UNCHANGED <<rows, scans, tick, op, tear>>

-----------------------------------------------------------------------------
(* Deletion                                                                *)

RequestRead(c) ==
    /\ op[c] = Idle /\ ws.st = "active"
    /\ op' = [op EXCEPT ![c] = [at |-> "request"]]
    /\ UNCHANGED <<rows, work, tick, tear>>

\* The flip commits, with its audit row.
RequestWrite(c) ==
    /\ op[c].at = "request" /\ ws.st # "gone" /\ holder = None
    /\ ws' = [ws EXCEPT !.st = "deleting"]
    /\ op' = [op EXCEPT ![c].at = "enqueue"]
    /\ UNCHANGED <<holder, used, work, tick, task, crashes>>

\* The task is handed to the broker after the commit.
RequestEnqueue(c) ==
    /\ op[c].at = "enqueue"
    /\ \E d \in Deliveries :
          /\ task[d].at = "unsent"
          /\ task' = [task EXCEPT ![d].at = "queued"]
    /\ Ends(c)
    /\ UNCHANGED <<rows, work, tick, crashes>>

\* perform_workspace_deletion finds no workspace: an earlier run was here.
DeleteConverges(d) ==
    /\ task[d].at = "queued" /\ ws.st = "gone"
    /\ task' = [task EXCEPT ![d].at = "done"]
    /\ UNCHANGED <<rows, work, tick, op, crashes>>

\* _deactivate_and_revoke, in a transaction of its own.
_deactivate_and_revoke(d) ==
    /\ task[d].at = "queued" /\ ws.st # "gone"
    /\ sched' = IF sched = None THEN None ELSE [sched EXCEPT !.enabled = FALSE]
    /\ scans' = [s \in Scans |->
                    IF scans[s] = "live" THEN "cancelled" ELSE scans[s]]
    /\ task' = [task EXCEPT ![d].at = "quiet"]
    /\ UNCHANGED <<rows, busy, store, now, fired, op, crashes>>

\* The object references are read before the rows vanish: one prefix for
\* every tool run there is, so what a scan in the table has stored.
_capture_storage_targets(d) ==
    /\ task[d].at = "quiet"
    /\ task' = [task EXCEPT ![d] =
                   [@ EXCEPT !.at = "captured",
                             !.targets = {s \in Scans : scans[s] \notin {"none", "gone"}}]]
    /\ UNCHANGED <<rows, work, tick, op, crashes>>

\* The audit row and the DELETE with its cascade commit together.
DeleteCommit(d) ==
    /\ task[d].at = "captured" /\ holder = None
    /\ ws' = [ws EXCEPT !.st = "gone"]
    /\ scans' = [s \in Scans |-> IF scans[s] = "none" THEN "none" ELSE "gone"]
    /\ used' = [k \in Kinds |-> 0]
    /\ sched' = None
    /\ task' = [task EXCEPT ![d].at = "cleanup"]
    /\ UNCHANGED <<holder, busy, store, now, fired, op, crashes>>

\* _cleanup_storage: best effort, a failure leaves the object behind.
_cleanup_storage(d) ==
    /\ task[d].at = "cleanup"
    /\ \E kept \in SUBSET (task[d].targets \cap store) :
          store' = (store \ task[d].targets) \cup kept
    /\ task' = [task EXCEPT ![d].at = "done"]
    /\ UNCHANGED <<rows, scans, busy, tick, op, crashes>>

Running(d) == task[d].at \in {"quiet", "captured", "cleanup"}

\* Mutant: one retry too many.
RetriedOnceMore(d) ==
    [task EXCEPT ![d] =
        [@ EXCEPT !.at = IF task[d].tries <= MaxRetries THEN "queued" ELSE "failed",
                  !.tries = IF task[d].tries <= MaxRetries THEN task[d].tries + 1 ELSE task[d].tries,
                  !.targets = {}]]

\* What Celery's retry makes of a failed delivery.
Retried(d) ==
    [task EXCEPT ![d] =
        [@ EXCEPT !.at = IF task[d].tries < MaxRetries THEN "queued" ELSE "failed",
                  !.tries = IF task[d].tries < MaxRetries THEN task[d].tries + 1 ELSE task[d].tries,
                  !.targets = {}]]

\* An exception: audited on a fresh session, then retried.
DeleteFails(d) ==
    /\ task[d].at \in {"quiet", "captured"}
    /\ task' = Retried(d)
    /\ UNCHANGED <<rows, work, tick, op, crashes>>

\* The worker dies: acks_late redelivers the message.
DeleteCrash(d) ==
    /\ Running(d) /\ crashes < MaxCrashes
    /\ crashes' = crashes + 1
    /\ task' = [task EXCEPT ![d] = [@ EXCEPT !.at = "queued", !.targets = {}]]
    /\ UNCHANGED <<rows, work, tick, op>>

-----------------------------------------------------------------------------
TenantsInit ==
    /\ ws = [st |-> "active", plan |-> "free"]
    /\ holder = None
    /\ used = [k \in Kinds |-> 0]
    /\ scans = [s \in Scans |-> "none"]
    /\ busy = {} /\ store = {}
    /\ now = 0
    /\ sched = [enabled |-> TRUE, next |-> 0]
    /\ fired = [t \in 0 .. MaxTime + 1 |-> 0]
    /\ op = [a \in Actors |-> Idle]
    /\ task = [d \in Deliveries |-> [at |-> "unsent", tries |-> 0, targets |-> {}]]
    /\ crashes = 0

Creation(a) == enforce_quota(a) \/ Refused(a) \/ Insert(a)

Deletion(d) ==
    \/ DeleteConverges(d)
    \/ _deactivate_and_revoke(d)
    \/ _capture_storage_targets(d)
    \/ DeleteCommit(d)
    \/ _cleanup_storage(d)

\* Requests and the beats of the scheduler, time and the scans' tools.
DailyNext(beats) ==
    \/ \E a \in Clients \cup beats : Creation(a) \/ Abort(a)
    \/ \E c \in Clients :
          \/ \E k \in Kinds : CreateGate(c, k)
          \/ \E tier \in {"free", "enterprise"} : set_plan(c, tier)
          \/ \E what \in {"create", "enable", "disable", "delete"} : ScheduleGate(c, what)
          \/ ScheduleWrite(c)
    \/ \E b \in beats : BeatSelect(b) \/ BeatClaim(b)
    \/ Tick
    \/ \E s \in Scans : StartTool(s) \/ StoreEvidence(s)

DeletionNext ==
    \/ \E c \in Clients : RequestRead(c) \/ RequestWrite(c) \/ RequestEnqueue(c)
    \/ \E d \in Deliveries : Deletion(d) \/ DeleteFails(d) \/ DeleteCrash(d)

\* A request that has begun ends or is dropped; a delivered task is carried on.
TenantsFairness ==
    /\ \A a \in Actors : WF_tenantVars(Creation(a) \/ Abort(a))
    /\ \A d \in Deliveries : WF_tenantVars(Deletion(d))

-----------------------------------------------------------------------------
(* Properties                                                              *)

TenantsTypeOK ==
    /\ ws \in [st : {"active", "deleting", "gone"}, plan : {"free", "enterprise"}]
    /\ holder \in Actors \cup {None}
    /\ used \in [Kinds -> 0 .. MaxRows]
    /\ sched = None \/ sched \in [enabled : BOOLEAN, next : 0 .. MaxTime + 1]
    /\ \A d \in Deliveries : task[d].tries \in 0 .. MaxRetries

\* Concurrent creations never take a workspace past its plan: a row is only
\* added below the limit of the plan the workspace has at that moment
\* (billing/service.py, _plan_for_update).
QuotaHeld ==
    [][\A k \in Kinds : used'[k] > used[k] => used'[k] <= get_plan(k)]_tenantVars

\* Overlapping beat ticks and redelivered ones dispatch a due occurrence at
\* most once (schedules/service.py, run_due_schedules).
OccurrenceOnce == \A t \in DOMAIN fired : fired[t] <= 1

\* A deletion has reached the broker; it is carried out, or was given up.
DeletionBegun == ws.st = "deleting" /\ \E d \in Deliveries : task[d].at = "queued"
DeletionOver == ws.st = "gone" \/ \E d \in Deliveries : task[d].at = "failed"

\* A deletion that reached the broker removes the workspace, through crashes
\* and retries, unless every retry was used up (tenant_tasks.py).
DeletionCompletes == DeletionBegun ~> DeletionOver

\* schedules/service.py: "a schedule is never dispatched for a workspace
\* being torn down".
NotDispatchedInTeardown ==
    [][(\E t \in DOMAIN fired : fired'[t] > fired[t]) => ws.st = "active"]_tenantVars
=============================================================================
