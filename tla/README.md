# MBS.CS: a TLA+ verification project

MBS.CS is a multi-tenant security-scanning platform. A user creates a *scan* of a
target they are authorised to test; a pipeline of external tools runs against the
target, and its output becomes evidence, assets and vulnerabilities. This directory
models the parts of the platform where correctness depends on the order of events:
who executes a scan and who may write its outcome; what happens when a worker, a
message or an answer is lost; how the fleet of scanner workers is governed and its
network contained; and what the stores behind the API (findings, remediation,
tenants, accounts, retention, backups, reports) promise when requests overlap.

All paths below are relative to `src/apps/api/`.

## 1. The system

| Part | State | Operations | Talks to |
|---|---|---|---|
| Scan API (`modules/scans`) | `scans` row | create, cancel, coverage, next steps | broker, database |
| Celery executor (`celery_app/tasks/scan_tasks.py`, `scanner_engine/orchestrator.py`) | position in the tool loop, execution token | claim, run tools, heartbeat, finalize, retry, dead-letter | database, broker, Redis list |
| Agent-driven engagement (`orchestrator.py`, `ai_agent`, `safety.py`) | engagement, tool runs, agent steps | decide, gate, run, confirm, another round | AI providers, database |
| Tool runners (`scanner_engine/tool_runners`) | child processes, pipes, limits | choose targets, run, kill, classify, parse | external programs |
| Graceful shutdown (`celery_app/shutdown.py`) | active set, deadline | requeue unfinished scans on SIGTERM | database |
| Beat sweeps (`scan_tasks.py`) | none | orphan reaper, tool-run reconciler, queued relay, stale-worker reaper | database, broker |
| Dead-letter tooling (`celery_app/dlq.py`) | Redis list | inspect, remove, replay, purge | broker |
| Scanner manager (`scanner_manager/app.py`) | none of its own | lease, complete, scan-status, heartbeat, tool-started, tool-results, evidence | database; HTTP from the workers |
| Lease worker (`scanner_worker`) | job in hand, refusal latch | poll, validate, run tools, report | the manager only: it has no database |
| Tunnels and egress (`scanner_worker/egress_setup.py`, `tunnel_setup.py`, `scanner_engine/vpn_egress.py`, `wireguard.py`) | interface, routes, rules, firewall chain, cached exit address | set up, preflight, watch | the kernel |
| Worker fleet (`modules/scanner_workers`, `ops`) | worker status, last seen | authenticate, drain, reactivate, revoke, reap | database |
| Scope and network policy (`net_policy.py`, `net_guard.py`, `scope_guard.py`, `modules/private_sites`, `core/runtime_flags.py`) | site rows, per-scan policy and lookup cache | admit a target, resolve a host, decide what is in scope | DNS, database |
| Authorization and members (`modules/authorization_scope`, `modules/workspaces/service.py`) | proofs, roles | submit, verify, check; invite, demote, remove | scan creation and execution |
| Findings (`modules/vulnerabilities`, `location_normalize.py`) | `vulnerabilities` rows | ingest with dedup and lineage, set status | remediation, reports |
| Assets (`modules/assets`) | one metadata document per asset | concurrent upserts that merge | coverage |
| Coverage and next steps (`coverage.py`, `adaptive.py`) | none: computed | project, select | reads assets, tool runs, findings |
| Remediation (`modules/remediation`) | work item with version, retest requests, risk acceptances | transition, request, claim, complete, accept, revoke, expire, reopen | findings, scans |
| Tenants, quotas, schedules (`modules/workspaces/tenant_service.py`, `modules/billing`, `modules/schedules`) | workspace, plan, counts, schedule, deletion task | create under quota, due runs, staged deletion | broker, database, object store |
| Retention (`retention`) | reports, scans, audit, objects | purge, cleanup | database, object store |
| Disaster recovery (`dr`) | backup sets | back up, encrypt, verify, copy, prune, restore, drill | MySQL, object store, disk |
| Accounts (`modules/auth`, `modules/users`, `modules/api_keys`) | user, refresh tokens, second factor, keys | log in, rotate, enrol, lock out, erase | Redis, database |
| Reports and assessments (`modules/reports`, `modules/assessment`, `modules/risk`, `compliance`, `attack`, `dashboard`) | reports, assessments | gather, group, score, issue | findings, object store |
| Notifications (`modules/notifications`, `notification_tasks.py`) | notifications, mails, dedup keys | notify, enqueue, deduplicate, send, retry | Redis, mail server |
| AI calls (`ai_agent/providers`, `budget.py`, `usage_repo.py`) | spend, usage rows | check budget, try providers, record | AI providers, Redis |

There are two execution planes for a scan. `celery_scan_dispatch_enabled` selects the
Celery plane; by default it is off, the `queued` row itself is the queue, and remote
workers lease it over HTTP. Both planes use the same conditional UPDATE statements on
the `scans` row, and that row is what their models share.

What is hard here: a message may be delivered twice; a worker may be revoked while it
is alive; a cancellation, a shutdown requeue, the reaper and the executor's terminal
write race for one row; heartbeats survive the execution that sent them; a per-tool
POST may be lost, refused or stored after its execution was superseded; a platform
outage looks like the silence of every worker. Behind the API the database runs at READ
COMMITTED: a request that reads, checks and writes is atomic only where it locks the
row or writes conditionally, and the code does that in some places and not in others.
`PROJECT.json` lists these hazards at their lines with the properties that watch them.

## 2. Modules

| Module | Models |
|---|---|
| `ScanRow` | one `scans` row and the statements that change it: claim, finalize, heartbeat, reap, requeue, cancel, stop reason, aggregation |
| `ScanOwnership` | the abstract promise of the execution token |
| `ScanExecution` | the Celery plane for one scan |
| `LeaseExecution` | the lease plane for one scan, with its tool runs and evidence |
| `WorkerFleet` | the status machine of the workers and the stale-worker sweep |
| `Findings` | ingestion and triage of the vulnerability rows of one template |
| `Remediation` | the work item of an issue; it EXTENDS `Findings`, whose scans it retests and whose regressions reopen it |
| `Tenants` | quotas, creation, schedules and the deletion of one workspace |
| `Engagement` | the agent-driven loop of one scan |
| `ToolRuns` | one tool run: its targets, its processes, its status |
| `AiCalls` | AI calls of one workspace against its budget |
| `Egress` | the network of one worker, VPN or private site |
| `Retention` | the purge of a workspace beside the report generator |
| `Backup` | backup sets from dump to restore |
| `Accounts` | one account: sessions, second factor, keys, erasure |
| `Access` | members of a workspace; proofs of authorization of a target |
| `Assets` | one asset row under concurrent upserts |
| `ScopePolicy` | which addresses a scan may reach and which hosts it keeps |
| `Locations` | normal forms of locations, and the findings identified by them |
| `Alerts` | in-app notifications and e-mail alerts |
| `Reporting` | grouping, scoring and issuing of reports and assessments |
| `Coverage` | coverage projection and next steps |
| `MC...` | instances for TLC |
| `...Proofs` | theorems: `ScanRowProofs` (the statements on the row, used by both planes), `ScanExecutionProofs`, `LeaseExecutionProofs`, `WorkerFleetProofs`, `RemediationProofs`, `OperationsProofs` (the components of `MCOperations`), `StorageProofs` (`Retention` and `Backup`), `PlatformProofs` (the other components of `MCPlatform`, and all of them together) |

**ScanRow.** A timestamp column is an age in ticks that saturates at `MaxAge`; NULL is
`None`. A comparison with a cutoff is then a comparison of ages, and the thresholds
`StaleAfter`, `OrphanAfter`, `RelayAfter` are constants. Columns no statement reads in a
condition (error texts, JSON of the recovery record) are left out.

**ScanExecution.** One delivery of a message is one execution. `exec[e].pc` follows
`run_scan_task` and `run_scan`: claim, the check at the top of the tool loop, the
inserted tool run, the last-moment gate, the tool, the terminal write, the
announcement, the exception paths, and the end of the task where Celery acknowledges,
retries or dead-letters. One step is one database statement, one broker operation or
one local decision. `msgs` counts the deliverable messages by `request.retries`; an
unacknowledged message is carried by the executor (`acks_late`) and comes back if the
worker is lost (`reject_on_worker_lost`) or the visibility timeout passes. `api`,
`relay` and `draining` are the program counters of `create_scan` after its commit, of
`_relay_queued`, and of the shutdown watchdog. The handler of the soft time limit runs
`_fail_scan` and only then writes the dead-letter entry, so a database error in it
(`FailScanRaises`) leaves the handler past every sibling `except`: a transient one is
retried while retries are left, and otherwise the message is acknowledged with no entry
(`AckUnrecorded`, remembered in `unrecorded`). Two timing assumptions stand where the
code relies on durations: `ApiDone` (the relay looks at rows older than 300 s, longer
than the rest of `create_scan`) and `NoStampPending` (the 90 s shutdown deadline is
longer than the statement that stores a task id). Tokens are `uuid4`; the model reuses
a token only when it is written nowhere.

**LeaseExecution.** `wk[w]` follows `LeaseLoop._handle_job` and `execute_leased_job`.
A per-tool POST is admitted (authorisation and token check) in one step and stored in
another, because the handler does not fence the write itself; a POST whose answer is
lost may still be stored. A tool result takes three: after its admission it reads the
`tool_runs` row (`ReadRun`, `saw` is what it found), and its commit goes by that reading
(`Record`), so the reconciler may close the row in between. A result that found no row
inserts one, and fails on the primary key if the row has appeared meanwhile (`Clash`).
The evidence table is not state: what matters of it is whether its INSERT finds the row
it references (`HasRun`). The sink's own retries of one POST are one POST. A refused
POST (401, 403, 409) sets the refusal latch, an outage does not. Verdicts follow the
aggregation at the end of `execute_leased_job`, which differs from the Celery plane in
one case: no tool at all is `failed` here and `completed` there.

**WorkerFleet.** A report ends in the manager's answer, in a refusal, or, after three
transport failures, in nothing at all (`ReportUnreachable`): the worker drops the job
and lives on. `seen` is the age of `last_seen_at`, `uptime` that of the sweeping
process. The sweep is two steps, SELECT and UPDATE. A tick is longer than the beat
interval and the longest back-off, so a worker that is in touch and allowed to act has
beaten before the next tick; that is the only timing assumption.

**Findings and Remediation.** A tool run ingests in one transaction (`tx`): it reads the
row of a fingerprint, creates, refreshes or collides with it, and commits the batch;
written rows are locked till then. Every endpoint that reads a row and writes it later
is two steps with the row it read in `op`. All fingerprints share one template, hence
one issue and, by the unique key, one work item. A client sends the version it was
shown; `VersionHolds` is the conditional UPDATE of `_bump_version`. `saw` remembers
which findings a scan committed, which the code itself does not.

**Tenants.** `op` holds requests between their gate and their commit, `holder` the row
lock of the workspace, `beat` the overlapping runs of the schedule task, `task` the
deliveries of the deletion task with its retries. The stages of
`perform_workspace_deletion` are separate steps, each of which may be the last before a
crash; scans go on storing evidence meanwhile.

**Engagement.** `engagement`, `toolRuns` and `steps` are committed rows; `agent` is the
coroutine's local state and is lost when it dies. The model's answer is any proposal;
the code's validation (registry, scope, rules of engagement, tier, already run) decides
what becomes of it. A retry finds the engagement row and does not enter the loop again.

**ToolRuns.** `TargetsOf` chooses what each runner starts from the findings so far; the
children, their pipes, the time, output and memory limits and the caller's cancellation
are concurrent; `classify_run` and the runners' own aggregation give the status. A child
promises nothing: it may write, block on a full pipe, exit with any code, or not react
to being killed (then it is given up, as `terminate_and_reap` does). The end of its
output is not its exit (`EndOfOutput`, `WaitEnds`): the time limit is on the reading
alone, so a child that closes both streams and lives on is waited for without limit.
arjun's probes write a file each instead of a pipe, and a file is worth something only
if it is whole (`CloseFile`, `Documents`): one that was cut short does not parse, and a
run with nothing else is recorded as failed.

**AiCalls.** A call checks the budget, tries its providers in order with their retries,
and records its usage; an answer costs one unit. An outage is retried and then passed
on, an unpaid account (402) is passed on at once, another refusal ends the call. Redis may be down: the check fails
open, and `blind` counts the checks that did.

**Egress.** Each command of the set-up is a step that may fail. `Path` says what the
kernel does with a packet to the target: tunnel, dropped or direct. Up to `MaxFaults`
parts may be lost while a scan runs. The watchdog runs on VPN workers only, as in the
code.

**Retention, Backup, Accounts, Access, Assets.** Each request or run is a sequence of
reads and writes at READ COMMITTED, with the values it read in its own record. A backup
set is a directory named by its second, so two runs may share one; its files may be
partial, encrypted or rotten, and `verify_backup` looks at what the code looks at.
Pruning does not ask whether a run is still at work in a directory: a pruned directory
comes back with the next component that is opened, while a file or a manifest written
into a missing directory is an error. Audit rows of one instant are ranked by random
ids: `KeptAudit` is every set the purge may leave. `shared` remembers the directories that two runs
used or that were pruned under their run, about which nothing is promised.

**ScopePolicy, Locations, Coverage, Reporting.** These translate pure code as operators
and put them in the setting in which they are used: name servers and the operator
change things between two decisions of a scan; the lines of a tool's output arrive one
by one; assets, runs and confirmations are committed between the queries of a request.
Only http and https URLs with an authority are normalized, as in `normalize_url`.
An exclude entry is a name, which takes the names below it along, or an address.
Addresses are numbers, a host name is its labels, a URL is its parts with a percent
escape as one token; CVSS and risk are in tenths, penalties in fixed point.

**Alerts.** A mail is a Celery task: taken, deduplicated on the first attempt only,
sent, retried or redelivered when its worker dies. `passed` records who went on to the
mail server on Redis' word.

**MCPlatform and MCOperations** put components side by side that share no state: a
behaviour exercises the component `part` names and the others keep their initial state,
so the state spaces are added and not multiplied. A property of one component is checked
in all behaviours of that component.

Definitions whose comment names a mistake (`...Mutant`, `VersionUnfenced`,
`RankedLoose`, `decrypt_bytesUnauthenticated` and so on) are plausible bugs, kept beside
the definition they would replace. No specification uses them.

## 3. What is checked

| Run | Instance | Shows |
|---|---|---|
| `scan_execution` | 2 executors, 1 tool, 1 retry, 1 fault | exclusive ownership (`HolderIsClaimant`, `TokenIffRunning`), refinement of `ScanOwnership` (`OwnershipKept`), `SettledIsFinal`, `ReportsStayTrue`, `FailureAccounted` (no failure is forgotten, except by a soft-timeout handler that raises on the last attempt) |
| `scan_liveness` | 1 executor, 1 tool, 1 retry, 2 faults, fair | `RunningEnds`, `QueuedServed` (with the same exception) |
| `worker_fleet` | 1 private worker, 2 outages, fair | `OrderlyAuthority`, `LiveNotReaped`, `DeadSuspended` |
| `lease_execution` | 2 workers, 2 executions, 1 tool, 1 fault | `CompletedIsStored`, `ReportedRunsFinal` (what a tool run reported is never rewritten; a `failed` it never reported is, by its own result), `OwnershipKept` |
| `lease_liveness` | 1 worker, 2 executions, fair | `LeaseEnds`, `RunsSettle` |
| `remediation` | 1 finding, 1 scan, 2 clients, 2 requests, 1 acceptance, item versions up to 5 | `LegalLifecycle`, `OneOutstanding`, `VerifiedByRetest` (the item is verified only by a completion that read this version of it, together with its request, which passes on a retest that had ended with usable coverage) |
| `platform` | twelve components, 1 to 3 actors each | `TypeOK` and the nine properties below |
| `operations` | six components, 1 or 2 actors each, fair | `TypeOK` and the six properties below |

`platform`: `AccountsHold` (an erased account stays out, the lockout overshoots by at
most the number of concurrent requests), `InferenceStaysMarked` (merging never promotes
a guess to an observation), `ScopeHolds` (a private address handed to a tool lies in the
site's networks, of a multicast range the first address; verdicts of one scan do not
flip), `OneFindingPerRequest`
(normalization neither splits nor merges endpoints), `OneAlertPerWindow`,
`SurfacesAgree` (all surfaces of a report print the same figures from the rows they were
given, over mixtures of active, fixed and unscored ones), `StepsAreNewWork`, `PurgeSpares` (the newest reports, the audit of
the purge and the objects of listed reports survive overlapping purges), `BackupsHold`
(what a run stamped successful restores, if that run alone used the directory, restores
fail closed, pruning keeps the newest sets).

`operations`: `QuotaHeld` (concurrent creations stay under the plan), `AtMostOnce` (a
due occurrence is dispatched once, a tool of an engagement launched once),
`TrafficContained` (no single loss makes a VPN worker's traffic leave directly; a
private tunnel never carries a default route), `OvershootBounded` (the AI budget is
overshot by at most one answer per concurrent caller, plus the checks made while Redis
was down), `RecordsTellTruth` (the status of a tool run tells what it covered and what it
still has, and each run of an engagement is explained by one step), `WorkEnds` (a
deletion, an engagement, a tool's processes and a scan that lost its tunnel all end, save
a process that closed its streams and is waited for).

Bounds. Two executors or workers are enough for one execution to be superseded by
another while it is alive; a third adds no new relation to the row. The same holds for
two requests that read before either writes, two purges, two beats, two callers. The
backups of `platform` have one run, which a crash lets start again beside the pruning
command and a restore; `BackupTheorem` covers any number of runs. Ages
need only tell "within" from "past" a threshold. Faults (crashes, duplicates, losses,
operator actions) are bounded by a budget so that the state space is finite; every
action fires within it. The rows of two workers are independent in `WorkerFleet`. Item
versions up to 5 allow an item to be verified, reopened and worked on again. Some
components start later in their life (`RetentionLater`, `BackupLater`, `FindingsLater`)
so that the bounds are spent on what comes after. Deadlock is not checked where a bound
or the end of the work stops the system. Symmetry is used only in `remediation`,
`scan_execution` and `lease_execution`, never with liveness.

Fairness. Executors, workers and the manager go on with what they began (every tool and
request has a timeout), beat dispatches its sweeps, time passes, and an idle Celery
worker takes messages. In `WorkerFleet` beats and ticks are strongly fair, because a
worker beats at every start before anything else. In `operations` a request that has
begun ends or is dropped, a delivered deletion task is carried on, the watchdog's timer
fires again, the engagement's coroutine keeps running and the broker redelivers, and the
event loop runs its timers; the children of a tool are not fair. No fault, poll,
cancellation or operator action is ever required.

### Where the code and its comments disagree

Four are runs that TLC must find violated; `PROJECT.json` quotes the lines.

* `replacement_at_risk`: a re-claimed scan keeps the old heartbeat and can be reaped at
  once.
* `passed_means_unseen`: a finding the retest saw, and another scan saw again, no longer
  carries the retest's id; the retest passes with the finding still active.
* `issued_is_immutable`: two requests that issue one draft both write; the second
  replaces the snapshot of an issued assessment.
* `starts_authorized`: on the lease plane the authorization of a target is not looked at
  again between creation and start.

### Known divergences without a run of their own

Each formula below is in its module with the line it quotes. Add it to the named
configuration (with the bound it names) to see TLC refute it.

| Formula | Configuration | What happens |
|---|---|---|
| `ScanExecution!RevokedNotDeadLettered` | `ScanExecution.cfg` | the soft-time-limit branch (`scan_tasks.py:235`) dead-letters an execution the reaper has revoked; `orchestrator.py:132` says it "is not dead-lettered" |
| `ScanExecution!NeverForgotten` | `ScanExecution.cfg` | a database error in `_fail_scan` skips the dead-letter entry (`scan_tasks.py:232`), against "record it to the DLQ for inspection" (line 227) |
| `WorkerFleet!SilenceMeansDead` | `WorkerFleet.cfg` | a beat that names a scan of a closed site is rolled back with its 403 (`app.py:651`), and the worker is suspended although it never stopped beating (`scan_tasks.py:459`) |
| `WorkerFleet!AuditTellsTruth` | `WorkerFleet.cfg` with `Workers <- TwoWorkers` | the sweep audits every worker it read once any was suspended (`service.py:742`), against "one durable audit row per ACTUALLY-suspended worker" (line 734) |
| `LeaseExecution!OwnFailureNotReleased` | `LeaseExecution.cfg` with `MaxExecutions = 3` | the recovery key of a reaped scan is never cleared, so its later failures are leased again (`app.py:1059`, against line 1054) |
| `LeaseExecution!StatusWriteOnce` | `LeaseExecution.cfg` | a result that read the run as running writes over the `failed` the reconciler has committed since (`app.py:1385` to 1486), against "the first terminal status wins and is never silently replaced" (line 1361) |
| `LeaseExecution!StartIsCosmetic` | `LeaseExecution.cfg` | a lost tool-started POST costs the tool's evidence, whose foreign key needs the row; `app.py:1265` says "Nothing downstream depends on this row existing" |
| `LeaseExecution!TruncatedNotClean` | `LeaseExecution.cfg` with two tools and two faults | a temporary 403 truncates the pipeline and the scan is reported completed (`executor.py:450`, against line 382) |
| `Access!AtLeastOneOwner` | `StartsAuthorized.cfg` | two owners remove each other: each request counts two (`workspaces/service.py`, "Workspace must have at least one owner") |
| `Tenants!NotDispatchedInTeardown` | `Operations.cfg` | a beat that selected a schedule before the deletion request still dispatches it (`schedules/service.py`) |
| `ToolRuns!NoUnboundedWait` | `Operations.cfg` | the wait for the exit of a child that closed its streams is outside the time limit (`base.py:463`), against "no orphans and no unbounded waits" (line 178) |
| `Retention!CitedScansFlagged` | `Platform.cfg` | a report that is being written while its scan is purged is committed without the flag (`retention/repo.py`) |
| `Backup!LastGoodKept` | `Platform.cfg` | pruning counts sets without a manifest among the newest, so failed runs can push out the last good one (`dr/service.py`) |
| `Locations!NormalizeIdempotent` | `Platform.cfg` | a second normalization changes some plain locations (`location_normalize.py`) |

Others are visible in the models without a formula. A crash of the deletion task between
its commit and its cleanup leaves the captured objects behind, because the retry finds no
workspace. A schedule claimed before a crash loses its occurrence (at most once, not at
least once). Two rotations of one refresh token fork its family, and reuse detection
follows one branch. Requests that read an active account may still write credentials
after its erasure. Concurrent upserts of one asset lose an observation.
A completion of a retest does not fence its own "already completed" check. Only the ends
of a public address range are examined (`net_guard.py:330`), and of a multicast range,
although `_assert_network_within_policy` requires "the WHOLE range" (`net_guard.py:218`). Arjun's run counts as
completed when one probe was clean. Private-site scans have no watchdog
(`lease_loop.py:661`).

## 4. What is proved

A theorem below holds for every value of the constants that satisfies the assumptions
named; the run that checks the same property shows it on a small instance.

| Theorem | States, for the specification of | Assumes |
|---|---|---|
| `ScanExecutionProofs!TypeCorrect`, `TokenTheorem`, `HolderTheorem` | the Celery plane: `TypeOK`, `TokenIffRunning`, `HolderIsClaimant` | `AgeAssumption`, `ExecAssumption` |
| `...!SettledTheorem`, `ReportsTheorem` | no step changes a settled status; what was announced stays true | same |
| `...!AccountedTheorem` | `FailureAccounted` | same |
| `...!OwnershipTheorem` | it implements `ScanOwnership` | same |
| `LeaseExecutionProofs!LeaseTypeTheorem`, `StoredTheorem`, `RunsFinalTheorem` | the lease plane: `TypeOK`, `CompletedIsStored`, `ReportedRunsFinal` | `AgeAssumption`, `LeaseAssumption` |
| `...!LeaseOwnershipTheorem` | it implements `ScanOwnership` too | same |
| `WorkerFleetProofs!FleetTypeTheorem`, `LiveTheorem`, `AuthorityTheorem` | the fleet: `TypeOK`, `LiveNotReaped`, `OrderlyAuthority` | `FleetAssumption` |
| `RemediationProofs!RemTypeTheorem`, `OutstandingTheorem`, `LifecycleTheorem`, `VerifiedTheorem` | the remediation workflow: `TypeOK`, `OneOutstanding`, `LegalLifecycle`, `VerifiedByRetest` | `NullAssumption`, `NoRowAssumption`, `MaxVersionAssumption`, `LocationAssumption` |
| `OperationsProofs!QuotaTheorem` | tenants: `QuotaHeld` | `LimitAssumption` |
| `...!AtMostOnceTheorem` | tenants and engagements: `AtMostOnce` | and `EngagementAssumption` |
| `...!ExplainedTheorem` | engagements: `RunsExplained`, a part of `RecordsTellTruth` | `EngagementAssumption` |
| `...!ContainedTheorem` | one worker's network: `TrafficContained` | `EgressAssumption` |
| `...!OvershootTheorem` | AI calls: `OvershootBounded` | `AiAssumption` |
| `...!CoveredTheorem` | a tool run: `CompletedIsCovered`, on which the next rests | `ToolAssumption` |
| `...!RecordsTheorem` | tool runs and engagements: `RecordsTellTruth` | `ToolAssumption`, `EngagementAssumption` |
| `...!OperationsTypeTheorem` | the composed specification of `MCOperations`: `TypeOK` | all of these, and at least one beat |
| `...!SideBySide` | the safety results of `OperationsProofs`, for the same composition | same |
| `PlatformProofs!AlertTheorem` | alerts: `OneAlertPerWindow` | none is used |
| `...!MarkedTheorem` | an asset: `InferenceStaysMarked` | `AssetsAssumption` |
| `...!NewWorkTheorem` | coverage: `StepsAreNewWork` | none is used |
| `...!AccountsTheorem` | an account: `AccountsHold` | `AccountsAssumption` |
| `...!ScopeTheorem` | the scope of a scan: `ScopeHolds` | `ScopeAssumption` |
| `...!LocationsTheorem` | locations: `OneFindingPerRequest` | `LocationsAssumption` |
| `StorageProofs!PurgeTheorem` | retention: `PurgeSpares` | `RetentionAssumption` |
| `StorageProofs!BackupTheorem` | backups: `BackupsHold` | `BackupAssumption` |
| `PlatformProofs!SurfacesTheorem` | reports: `SurfacesAgree` and `ReportingTypeOK` | `IngestBound`, `SightingsAssumption` |
| `...!PlatformTheorem` | the nine results above, for the composed specification of `MCPlatform` | all of these |
| `...!PlatformTypeTheorem` | the same composition: `TypeOK`, of all twelve components | and `CoverageAssumption`, `PlatformAssumption` |

The assumptions say that bounds, thresholds and limits are naturals in their order (a
stale threshold is below the age at which ages saturate, and no free plan allows more
rows than the bound on rows), that requests and callers are finitely many where a count
of them bounds an overshoot, that the null value is no row, that ranges and DNS answers
lie in the address space, and what the data are: an `Assets` report marks
every key that some reporter infers whenever it carries it as inferred (`is_api` and its
like are set by the same heuristics everywhere), lower-casing leaves "http" and
"https" alone and never gives the empty text, tools come from the registry, severities
and criticalities from their closed vocabularies, a CVSS score lies on its scale, and
what a run was given before it is a sequence. "At least one beat" is the deployment's
Celery beat: without one the scheduler's counter has no values to range over.

**Inductive invariants.** Few of the properties are inductive as they stand.

* `OwnInv` (Celery plane). A claim must know that its token is not the token of another
  live execution, and a finalization that the execution holding the row has not already
  won. The invariant adds that an idle executor carries nothing, that the tokens of busy
  executors are pairwise different, that an execution whose token is on the row has
  claimed and not won, and that one before its claim has no stake. Refinement follows:
  each action changes phase, owner and winners as one of `Grant`, `Conclude`, `Revoke`,
  `Cancel` or `Announce`, or leaves them alone. The statements on the row are dealt with
  once, in `ScanRowProofs`, for both planes.
* `AccInv`. A scan that is failed because it was reaped is not one whose exception must
  be accounted for, so every claim has to clear the flag, and whoever writes `failed`
  after an exception has to carry it until it is retried, dead-lettered, or let go by a
  handler that raised (`unrecorded`).
* `LeaseInv`. What a worker will report is not what is stored. `Backed` relates the two
  for the owner of the row: tools it has not reached left nothing anywhere; tools behind
  it are clean as long as it has neither seen nor lost an unclean result; a POST still on
  its way cannot turn a clean tool unclean. `Reports` says that a tool run has one result on
  its way at most, so that only the reconciler can overtake what the result has read. `Tokens` says that the token on the row is the
  last one minted and that no two workers hold the same one.
* `FleetInv`. A sweep that has selected is past the start-up grace, and a live worker
  whose beat was accepted has been heard within a tick of the platform's return.
* `RemInv`. Every request in flight holds a version, and *if that version still holds*
  the move it is about to make is legal (`OpOK`, `TxOK`); the version lock then carries
  legality from the read to the write. One outstanding request needs the same of the
  request rows.
* `TenantInv`. Who holds the row lock with a count below the limit keeps it until it has
  inserted (`RoomHeld`), and an occurrence that was dispatched lies before the next one
  (`Occurrences`).
* `EngInv`, `EgressInv`, `ToolInv`. The engagement's open step accounts for its latest
  run; the VPN guard is up except for the parts in `faults`; what a child wrote was read
  or is still in its pipe as long as the pump runs (of a probe, is in its file), and a child that ended well was read
  to the end. `ToolInv` also says that no target is given twice and that a run called
  failed had an empty output, and both cross operators on data. The targets are chosen
  by position (`At`): a sequence cut down to a finite set of its positions keeps its order
  and its elements, so removing duplicates leaves none (`AtOK`, `DedupeOK`). The output is
  a fold over the children, and an empty one means that nothing was kept of any child
  (`ReadOK`).
* `AiInv`, `AccountInv`. The spend (the failures) plus the number of those admitted
  (past the lockout) and not yet counted stays below the limit plus the number of
  callers: the overshoot is reserved at admission, and finite cardinalities do the rest.
* `RetentionInv`. Two purges may each rank the same rows, and a report above the cut may
  be going in the other session. `KeptBehind` says that every doomed row has `MinKeep`
  newer rows that *no* session takes. A new session keeps it by a minimal
  counterexample: among the rows it takes, consider the newest one that would lose its
  keepers (`KeptAbove`).
* `BackupInv`. A directory used by one run alone follows that run (`WorkOK`), is useless
  until its manifest and then is what its manifest says (`SetOK`); a restore works from
  such a set or from one pruned since (`RestoreOK`).
* `ScopeInv`, `LocationsInv`. A verdict is what the cache says, and the cache of a scan
  is only added to. Normal forms of http and https URLs are equal exactly when the
  requests are (`NormalIsRequest`), so the parser's set of fingerprints has one entry
  per request.
* `ReportsInv`. A report is gathered by two queries with other transactions between
  them, and every figure in it is computed from the rows of the first with the risks of
  the second. The invariant therefore says only that a request holds rows of the right
  shape (`RowsRead`, then `RowsOK`), and that the figures stored last agree. That *any*
  such rows give figures that agree is a lemma about the operators: the representative
  of a finding carries the highest risk of its active occurrences
  (`RepresentativeLeads`), the rows of the dashboard are in bijection with those of the
  report (`SummaryOK`), and the score, a fold, is full exactly when nothing is scored
  (`ScoreOK`).
* `PlatformTypes`, for `TypeOK`. Beside the invariants above, the documents a merge can
  produce (`DocOK`), what a statement on a finding may still do to its row (`OpOK`,
  `TxOK` of findings), a mail's key and retries (`AlertTypes`), and what a resolver can
  answer (`ScopeTypes`).

The library states no induction that the provers can instantiate, because its theorems
take a predicate as a parameter. Where a fold has to be reasoned about, the project's
own `EveryNumber` does it for a *set* of good numbers: it follows from the fact that "less
than" on the naturals is well founded, and the fold's function is shown to exist on the
sets of at most `n` elements for every `n` (`LeftExists`, `ReadOK`).

Safety of a composition follows from that of its parts: a step of it is a step of each
component or leaves it alone (`SideStepOK`, `PlatformSteps`), and it starts each where
the component's invariant holds, retention and backups at a later point of their life
(`BackupLaterOK`).

Proving settled points that the small instances leave open: what becomes of a directory
that is pruned under its run, and why nothing can be promised about it (`shared`); that
the request a completion passes may have been completed in the meantime, so that
`VerifiedByRetest` speaks of the verdict and the version and not of an open request; and
that a URL without authority is left as it is.

**Only model-checked.**

* Liveness (`RunningEnds`, `QueuedServed`, `DeadSuspended`, `LeaseEnds`, `RunsSettle`,
  `WorkEnds`): fairness and ENABLED are out of the prover's reach.
* The findings the runs `PassedMeansUnseen`, `IssuedIsImmutable`, `ReplacementAtRisk` and
  `StartsAuthorized` report: they refute a statement on one instance, which is enough.
* Values of the parsers and of the scoring beyond what the theorems say of them: TLC
  computes them on the instances' inputs.

## 5. Not modelled, and the plan

* the tenancy filter (`core/tenancy.py`): whether a row of another tenant is visible
  depends on the SQL of each query, which the models abstract to the rows it returns;
* `scanner_engine/egress_guard.py`: nothing outside its tests calls it;
* layout and wording of reports (`render.py`, `narrative.py`), prompts and the parsing of
  AI answers, command lines of the tools and the fields of their output;
* cryptography, DNS and HTTP challenges, WireGuard and iptables themselves: external;
* screenshots, metrics, health endpoints, settings validation (`core/config.py`), the web
  front end, infrastructure and migrations;
* a queue of several scans: the lease query's `LIMIT` before its filter, and head-of-line
  starvation behind it, are listed as a hazard without a property;
* both planes working on one row at once: a deployment runs one of them.

Redis is taken not to lose a message it accepted; a message lost after `celery_task_id`
was stored would leave the scan queued for ever, because the relay looks only at rows
without one.

Every safety property of the passing runs is a theorem. What is left to add is behaviour:
the queue of several scans, and the operations of the components that are partly modelled.
