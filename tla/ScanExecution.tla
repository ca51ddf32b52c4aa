---------------------------- MODULE ScanExecution ----------------------------
(***************************************************************************)
(* The Celery execution path of one scan: the API that commits and         *)
(* dispatches it, the broker, the worker processes that run                *)
(* run_scan_task, the beat sweep (orphan reaper and queued relay), the     *)
(* graceful-shutdown watchdog, cancellation and the dead-letter queue.     *)
(*                                                                         *)
(* An executor is a worker process.  One delivery of a message is one      *)
(* execution, and mints one execution token.  A step of this module is one *)
(* database statement, one broker operation or one local decision; the     *)
(* sub-steps of a tool run that no other process can see are one step.     *)
(***************************************************************************)
EXTENDS ScanRow, FiniteSets

CONSTANTS Executors,   \* worker processes
          Tokens,      \* execution tokens
          NumTools,    \* length of the deterministic pipeline
          MaxRetries,  \* max_retries of run_scan_task
          MaxFaults    \* bound on crashes, duplicates and operator actions

ASSUME ExecAssumption ==
    /\ NumTools \in Nat /\ MaxRetries \in Nat /\ MaxFaults \in Nat
    /\ Tokens \subseteq Nat

VARIABLES
    row,       \* the scans row
    api,       \* create_scan after its commit: "committed" | "sent" | "done"
    relay,     \* _relay_queued on this row: "idle" | "selected" | "sent"
    msgs,      \* msgs[n]: deliverable messages whose request.retries is n
    exec,      \* what each executor is doing
    draining,  \* the shutdown watchdog: "no" | "waiting" | "requeued"
    dlq,       \* the scan has an entry in dlq:scans.run_scan
    faults     \* faults still allowed

VARIABLES      \* history, read by the properties only
    raised,    \* the present failure is an exception or the soft time limit
    reports,   \* settled statuses announced by ScanCompleted
    dropped,   \* a dead-letter entry was lost or thrown away
    unrecorded \* since the last claim, a last attempt ended by the soft limit
               \* was acknowledged with nothing recorded

hist == <<raised, reports, dropped, unrecorded>>
vars == <<row, api, relay, msgs, exec, draining, dlq, faults, hist>>

Attempts == 0 .. MaxRetries

Pcs == {"idle",     \* waiting for a message
        "start",    \* task started, claim not yet attempted
        "check",    \* at the top of the tool loop
        "gate",     \* tool_run inserted, before the last-moment gate
        "tool",     \* tool process running
        "final",    \* new_status computed
        "raise",    \* in run_scan's `except Exception`
        "report",   \* terminal write won, outcome not yet published
        "expired",  \* SoftTimeLimitExceeded reached run_scan_task
        "end",      \* asyncio.run returned or raised
        "unhandled"} \* _fail_scan raised inside the handler

Outcomes == {"ok", "transient", "permanent", "timeout"}

ToolStatuses == {"completed", "partial", "failed"}

(***************************************************************************)
(* The point reached, the token, request.retries, the tools left and the   *)
(* statuses of those that ran, the exception in flight, and how far the    *)
(* execution got with the row: it never claimed it, it claimed it, or it   *)
(* won the terminal write.                                                 *)
(***************************************************************************)
Execs == [pc : Pcs, tok : Tokens \cup {None}, att : Attempts,
          left : 0 .. NumTools, ran : SUBSET ToolStatuses, exc : Outcomes,
          stake : {"none", "claimed", "won"}]

Idle == [pc |-> "idle", tok |-> None, att |-> 0, left |-> 0, ran |-> {},
         exc |-> "ok", stake |-> "none"]

Busy(e) == exec[e].pc # "idle"

\* Mutant: every execution of the scan uses one token.
FreshTokensMutant == Tokens
\* uuid4 never repeats a token that is still written anywhere.  Tokens that
\* are no longer written anywhere are used again, to keep the model finite.
FreshTokens == Tokens \ ({row.token} \cup {exec[e].tok : e \in Executors})

Init ==
    /\ row = NewRow
    /\ api = "committed"
    /\ relay = "idle"
    /\ msgs = [n \in Attempts |-> 0]
    /\ exec = [e \in Executors |-> Idle]
    /\ draining = [e \in Executors |-> "no"]
    /\ dlq = FALSE
    /\ faults = MaxFaults
    /\ raised = FALSE /\ reports = {} /\ dropped = FALSE /\ unrecorded = FALSE

Fault == faults > 0 /\ faults' = faults - 1
Enqueued(n) == [msgs EXCEPT ![n] = @ + 1]
Goto(e, r) == exec' = [exec EXCEPT ![e] = r]

\* Timing: the relay's threshold (300 s) is longer than the last statements of
\* create_scan, and the shutdown deadline (90 s) is longer than what create_scan
\* and the relay take to record the task id of a message they have sent.
ApiDone == api = "done"
NoStampPending == api # "sent" /\ relay # "sent"

-----------------------------------------------------------------------------
(* create_scan, after the row is committed.                                *)

ApiSend ==
    /\ api = "committed"
    /\ msgs' = Enqueued(0)
    /\ api' = "sent"
    /\ UNCHANGED <<row, relay, exec, draining, dlq, faults, hist>>

\* apply_async raises: the row stays queued with no task id.
ApiSendFails ==
    /\ api = "committed"
    /\ api' = "done"
    /\ UNCHANGED <<row, relay, msgs, exec, draining, dlq, faults, hist>>

\* The final commit writes celery_task_id, whatever the row has become.
ApiStamp ==
    /\ api = "sent"
    /\ row' = [row EXCEPT !.task = TRUE]
    /\ api' = "done"
    /\ UNCHANGED <<relay, msgs, exec, draining, dlq, faults, hist>>

ApiCrash ==
    /\ api = "sent"
    /\ Fault
    /\ api' = "done"
    /\ UNCHANGED <<row, relay, msgs, exec, draining, dlq, hist>>

-----------------------------------------------------------------------------
(* run_scan_task and run_scan.                                             *)

\* A worker receives a message; acks_late keeps it unacknowledged until the
\* task ends, so the executor carries it.
Deliver(e) ==
    /\ ~Busy(e) /\ draining[e] = "no"
    /\ FreshTokens # {}
    /\ \E n \in Attempts :
          /\ msgs[n] > 0
          /\ msgs' = [msgs EXCEPT ![n] = @ - 1]
          /\ Goto(e, [Idle EXCEPT !.pc = "start", !.att = n,
                                  !.tok = CHOOSE t \in FreshTokens : TRUE])
    /\ UNCHANGED <<row, api, relay, draining, dlq, faults, hist>>

Claim(e) ==
    /\ exec[e].pc = "start"
    /\ CanClaim(row)
    /\ row' = ClaimRow(row, exec[e].tok)
    /\ Goto(e, [exec[e] EXCEPT !.pc = "check", !.left = NumTools,
                               !.stake = "claimed"])
    /\ raised' = FALSE /\ unrecorded' = FALSE
    /\ UNCHANGED <<api, relay, msgs, draining, dlq, faults, reports, dropped>>

\* scan.skip_not_claimable: the task returns, which acknowledges the message.
SkipNotClaimable(e) ==
    /\ exec[e].pc = "start"
    /\ ~CanClaim(row)
    /\ Goto(e, Idle)
    /\ UNCHANGED <<row, api, relay, msgs, draining, dlq, faults, hist>>

\* No tool is left, or the loop breaks because the user cancelled.
FinishTools(e) ==
    /\ exec[e].pc = "check"
    /\ exec[e].left = 0 \/ StopReason(row, exec[e].tok) = "cancelled"
    /\ Goto(e, [exec[e] EXCEPT !.pc = "final", !.left = 0])
    /\ UNCHANGED <<row, api, relay, msgs, draining, dlq, faults, hist>>

\* ExecutionRevoked, from the loop or from the last-moment gate: nothing is
\* written, recorded or published, and the task acknowledges.
StopRevoked(e) ==
    /\ \/ exec[e].pc = "check" /\ exec[e].left > 0
       \/ exec[e].pc = "gate"
    /\ StopReason(row, exec[e].tok) = "revoked"
    /\ Goto(e, Idle)
    /\ UNCHANGED <<row, api, relay, msgs, draining, dlq, faults, hist>>

\* A tool that does not apply to the target, or that is not authorised.
SkipTool(e) ==
    /\ exec[e].pc = "check" /\ exec[e].left > 0
    /\ StopReason(row, exec[e].tok) = "none"
    /\ Goto(e, [exec[e] EXCEPT !.left = @ - 1])
    /\ UNCHANGED <<row, api, relay, msgs, draining, dlq, faults, hist>>

\* _run_single_tool commits its tool_run row before the gate.
BeginTool(e) ==
    /\ exec[e].pc = "check" /\ exec[e].left > 0
    /\ StopReason(row, exec[e].tok) = "none"
    /\ Goto(e, [exec[e] EXCEPT !.pc = "gate", !.left = @ - 1])
    /\ UNCHANGED <<row, api, relay, msgs, draining, dlq, faults, hist>>

\* The gate stops a revoked execution only.
LaunchTool(e) ==
    /\ exec[e].pc = "gate"
    /\ StopReason(row, exec[e].tok) # "revoked"
    /\ Goto(e, [exec[e] EXCEPT !.pc = "tool"])
    /\ UNCHANGED <<row, api, relay, msgs, draining, dlq, faults, hist>>

\* _stamp_heartbeat, every 30 s while the tool runs; fenced on the token.
Heartbeat(e) ==
    /\ exec[e].pc = "tool"
    /\ Owns(row, exec[e].tok)
    /\ row' = HeartbeatRow(row)
    /\ UNCHANGED <<api, relay, msgs, exec, draining, dlq, faults, hist>>

ToolEnds(e) ==
    /\ exec[e].pc = "tool"
    /\ \E st \in ToolStatuses :
          Goto(e, [exec[e] EXCEPT !.pc = "check", !.ran = @ \cup {st}])
    /\ UNCHANGED <<row, api, relay, msgs, draining, dlq, faults, hist>>

\* Anything inside run_scan's `try` raises: a refused target (permanent), a
\* database fault (transient), or the soft time limit reaching the coroutine.
Raises(e) ==
    /\ exec[e].pc \in {"check", "gate", "tool"}
    /\ \E how \in Outcomes \ {"ok"} :
          Goto(e, [exec[e] EXCEPT !.pc = "raise", !.exc = how, !.left = 0,
                                  !.ran = {}])
    /\ UNCHANGED <<row, api, relay, msgs, draining, dlq, faults, hist>>

\* The fenced terminal write of the success path.
Finalize(e) ==
    /\ exec[e].pc = "final"
    /\ Owns(row, exec[e].tok)
    /\ row' = FinalizeRow(row, Aggregate(exec[e].ran))
    /\ Goto(e, [exec[e] EXCEPT !.pc = "report", !.stake = "won", !.ran = {}])
    /\ UNCHANGED <<api, relay, msgs, draining, dlq, faults, hist>>

\* The fenced terminal write of the exception path.
FinalizeFailed(e) ==
    /\ exec[e].pc = "raise"
    /\ Owns(row, exec[e].tok)
    /\ row' = FinalizeRow(row, "failed")
    /\ Goto(e, [exec[e] EXCEPT !.pc = "report", !.stake = "won"])
    /\ raised' = TRUE
    /\ UNCHANGED <<api, relay, msgs, draining, dlq, faults, reports, dropped, unrecorded>>

\* The terminal write matched no row: cancelled, requeued, re-claimed or
\* reaped.  Either path returns normally and says nothing.
LoseFinalize(e) ==
    /\ exec[e].pc \in {"final", "raise"}
    /\ ~Owns(row, exec[e].tok)
    /\ Goto(e, Idle)
    /\ UNCHANGED <<row, api, relay, msgs, draining, dlq, faults, hist>>

\* _finalize_status refreshes the row after its commit; the metric and
\* ScanCompleted carry the status read back.
Report(e) ==
    /\ exec[e].pc = "report"
    /\ reports' = reports \cup ({row.status} \cap Settled)
    /\ Goto(e, [exec[e] EXCEPT !.pc = "end"])
    /\ UNCHANGED <<row, api, relay, msgs, draining, dlq, faults, raised, dropped, unrecorded>>

\* The database is unreachable at _load_scan or at the terminal write or its
\* refresh: nothing of run_scan catches it.
DbFault(e) ==
    /\ exec[e].pc \in {"start", "final", "raise", "report"}
    /\ Fault
    /\ Goto(e, [exec[e] EXCEPT !.pc = "end", !.exc = "transient", !.ran = {}])
    /\ UNCHANGED <<row, api, relay, msgs, draining, dlq, hist>>

\* The soft time limit surfaces out of asyncio.run.
SoftTimeout(e) ==
    /\ exec[e].pc \in {"start", "check", "gate", "tool", "final", "raise", "report"}
    /\ exec[e].exc # "timeout"
    /\ Goto(e, [exec[e] EXCEPT !.pc = "expired", !.exc = "timeout", !.left = 0,
                               !.ran = {}])
    /\ UNCHANGED <<row, api, relay, msgs, draining, dlq, faults, hist>>

\* _fail_scan: the same fenced write, and no ScanCompleted.
FailScan(e) ==
    /\ exec[e].pc = "expired"
    /\ IF Owns(row, exec[e].tok)
       THEN /\ row' = FinalizeRow(row, "failed")
            /\ raised' = TRUE
            /\ Goto(e, [exec[e] EXCEPT !.pc = "end", !.stake = "won"])
       ELSE /\ Goto(e, [exec[e] EXCEPT !.pc = "end"])
            /\ UNCHANGED <<row, raised>>
    /\ UNCHANGED <<api, relay, msgs, draining, dlq, faults, reports, dropped, unrecorded>>

\* A statement of _fail_scan raises, before its terminal write or after that
\* write's commit (the refresh, the dispose).  The exception leaves the
\* handler: it skips _record_dlq, and no sibling `except` catches it.
FailScanRaises(e) ==
    /\ exec[e].pc = "expired"
    /\ Fault
    /\ \E how \in {"transient", "permanent"} :
          \/ /\ Goto(e, [exec[e] EXCEPT !.pc = "unhandled", !.exc = how])
             /\ UNCHANGED <<row, raised>>
          \/ /\ Owns(row, exec[e].tok)
             /\ row' = FinalizeRow(row, "failed")
             /\ raised' = TRUE
             /\ Goto(e, [exec[e] EXCEPT !.pc = "unhandled", !.exc = how,
                                        !.stake = "won"])
    /\ UNCHANGED <<api, relay, msgs, draining, dlq, reports, dropped, unrecorded>>

Ack(e) ==
    /\ exec[e].pc = "end" /\ exec[e].exc = "ok"
    /\ Goto(e, Idle)
    /\ UNCHANGED <<row, api, relay, msgs, draining, dlq, faults, hist>>

\* autoretry_for = TRANSIENT_ERRORS, wrapped around the whole task body.
WillRetry(x) ==
    x.pc \in {"end", "unhandled"} /\ x.exc = "transient" /\ x.att < MaxRetries

Retry(e) ==
    /\ WillRetry(exec[e])
    /\ msgs' = Enqueued(exec[e].att + 1)
    /\ Goto(e, Idle)
    /\ UNCHANGED <<row, api, relay, draining, dlq, faults, hist>>

\* Mutant: a soft timeout is not dead-lettered.
DeadLetterMutant(e) ==
    /\ exec[e].pc = "end" /\ exec[e].exc # "ok"
    /\ exec[e].exc = "transient" => exec[e].att = MaxRetries
    /\ Goto(e, Idle)
    /\ dlq' = (dlq \/ exec[e].exc # "timeout")
    /\ UNCHANGED <<row, api, relay, msgs, draining, faults, hist>>

\* _record_dlq is best effort: the push may fail.
DeadLetter(e) ==
    /\ exec[e].pc = "end"
    /\ \/ exec[e].exc \in {"permanent", "timeout"}
       \/ exec[e].exc = "transient" /\ exec[e].att = MaxRetries
    /\ Goto(e, Idle)
    /\ \/ dlq' = TRUE /\ UNCHANGED <<dropped, faults>>
       \/ Fault /\ dropped' = TRUE /\ UNCHANGED dlq
    /\ UNCHANGED <<row, api, relay, msgs, draining, raised, reports, unrecorded>>

\* The handler's own exception is not retried: the task fails, which
\* acknowledges its message, and there is no dead-letter entry.
AckUnrecorded(e) ==
    /\ exec[e].pc = "unhandled" /\ ~WillRetry(exec[e])
    /\ Goto(e, Idle)
    /\ unrecorded' = TRUE
    /\ UNCHANGED <<row, api, relay, msgs, draining, dlq, faults, raised, reports, dropped>>

-----------------------------------------------------------------------------
(* Worker loss, duplicate delivery and graceful shutdown.                  *)

\* reject_on_worker_lost: the message of a lost worker is delivered again.
\* A worker lost just after it published a retry leaves both messages.
Crash(e) ==
    /\ Busy(e)
    /\ Fault
    /\ Goto(e, Idle)
    /\ draining' = [draining EXCEPT ![e] = "no"]
    /\ \/ msgs' = Enqueued(exec[e].att)
       \/ /\ WillRetry(exec[e])
          /\ msgs' = [Enqueued(exec[e].att) EXCEPT ![exec[e].att + 1] = @ + 1]
    /\ UNCHANGED <<row, api, relay, dlq, hist>>

\* The broker's visibility timeout passes while the executor is alive.
Redeliver(e) ==
    /\ Busy(e)
    /\ Fault
    /\ msgs' = Enqueued(exec[e].att)
    /\ UNCHANGED <<row, api, relay, exec, draining, dlq, hist>>

\* worker_shutting_down starts a watchdog if a scan is in flight.
Sigterm(e) ==
    /\ Busy(e) /\ draining[e] = "no"
    /\ Fault
    /\ draining' = [draining EXCEPT ![e] = "waiting"]
    /\ UNCHANGED <<row, api, relay, msgs, exec, dlq, hist>>

\* The deadline passes with the scan still in the active set; the UPDATE is
\* not fenced on the token.
RequeueOnShutdown(e) ==
    /\ Busy(e) /\ draining[e] = "waiting"
    /\ NoStampPending
    /\ draining' = [draining EXCEPT ![e] = "requeued"]
    /\ row' = RequeueRow(row)
    /\ UNCHANGED <<api, relay, msgs, exec, dlq, faults, hist>>

\* stop_grace_period ends: SIGKILL, and the message is delivered again.
Sigkill(e) ==
    /\ Busy(e) /\ draining[e] = "requeued"
    /\ msgs' = Enqueued(exec[e].att)
    /\ Goto(e, Idle)
    /\ draining' = [draining EXCEPT ![e] = "no"]
    /\ UNCHANGED <<row, api, relay, dlq, faults, hist>>

\* The task ended inside the window: the worker exits and is replaced.
WorkerExits(e) ==
    /\ ~Busy(e) /\ draining[e] # "no"
    /\ draining' = [draining EXCEPT ![e] = "no"]
    /\ UNCHANGED <<row, api, relay, msgs, exec, dlq, faults, hist>>

-----------------------------------------------------------------------------
(* cancel_scan, the beat sweep, the dead-letter tooling and time.          *)

\* A scan with a task id is also revoked with terminate=True, which kills
\* whichever processes are running that task; their messages are gone.
Cancel ==
    /\ CanCancel(row)
    /\ row' = CancelRow(row)
    /\ \E killed \in SUBSET {e \in Executors : Busy(e)} :
          /\ ~row.task => killed = {}
          /\ exec' = [e \in Executors |-> IF e \in killed THEN Idle ELSE exec[e]]
    /\ UNCHANGED <<api, relay, msgs, draining, dlq, faults, hist>>

Reap ==
    /\ Silent(row)
    /\ row' = ReapRow(row)
    /\ UNCHANGED <<api, relay, msgs, exec, draining, dlq, faults, hist>>

\* The SELECT of _relay_queued.
RelaySelect ==
    /\ relay = "idle" /\ ApiDone
    /\ row.status = "queued" /\ ~row.task /\ row.queued > RelayAfter
    /\ relay' = "selected"
    /\ UNCHANGED <<row, api, msgs, exec, draining, dlq, faults, hist>>

RelaySend ==
    /\ relay = "selected"
    /\ msgs' = Enqueued(0)
    /\ relay' = "sent"
    /\ UNCHANGED <<row, api, exec, draining, dlq, faults, hist>>

\* The conditional UPDATE that marks the row dispatched.
RelayStamp ==
    /\ relay = "sent"
    /\ row' = [row EXCEPT !.task = @ \/ row.status = "queued"]
    /\ relay' = "idle"
    /\ UNCHANGED <<api, msgs, exec, draining, dlq, faults, hist>>

\* The broker refuses the message, or the sweep dies before its UPDATE.
RelayFails ==
    /\ relay # "idle"
    /\ Fault
    /\ relay' = "idle"
    /\ UNCHANGED <<row, api, msgs, exec, draining, dlq, hist>>

\* dlq.replay enqueues first and removes afterwards; the operator's command
\* may be interrupted in between.
Replay ==
    /\ dlq
    /\ Fault
    /\ msgs' = Enqueued(0)
    /\ dlq' \in BOOLEAN
    /\ UNCHANGED <<row, api, relay, exec, draining, hist>>

\* dlq.remove, dlq.purge, or the cap of 1000 entries reached by other scans.
DropEntry ==
    /\ dlq
    /\ Fault
    /\ dlq' = FALSE
    /\ dropped' = TRUE
    /\ UNCHANGED <<row, api, relay, msgs, exec, draining, raised, reports, unrecorded>>

Tick ==
    /\ row' = AgeRow(row)
    /\ UNCHANGED <<api, relay, msgs, exec, draining, dlq, faults, hist>>

-----------------------------------------------------------------------------
Api == ApiSend \/ ApiSendFails \/ ApiStamp
Relay == RelaySelect \/ RelaySend \/ RelayStamp

\* The steps by which an execution moves towards its end.
Progress(e) ==
    \/ Claim(e) \/ SkipNotClaimable(e) \/ FinishTools(e) \/ StopRevoked(e)
    \/ SkipTool(e) \/ BeginTool(e) \/ LaunchTool(e) \/ ToolEnds(e) \/ Raises(e)
    \/ Finalize(e) \/ FinalizeFailed(e) \/ LoseFinalize(e) \/ Report(e)
    \/ FailScan(e) \/ Ack(e) \/ Retry(e) \/ DeadLetter(e) \/ AckUnrecorded(e)
    \/ Sigkill(e) \/ WorkerExits(e)

Upset(e) ==
    \/ DbFault(e) \/ FailScanRaises(e) \/ SoftTimeout(e)
    \/ Crash(e) \/ Redeliver(e) \/ Sigterm(e)

Next ==
    \/ Api \/ ApiCrash
    \/ \E e \in Executors :
          Deliver(e) \/ Progress(e) \/ Heartbeat(e) \/ Upset(e) \/ RequeueOnShutdown(e)
    \/ Cancel \/ Reap \/ Relay \/ RelayFails \/ Replay \/ DropEntry \/ Tick

(***************************************************************************)
(* Fairness: the API request, the beat sweeps and time go on; an idle      *)
(* worker takes messages; an execution that is not interrupted goes on     *)
(* (every tool has a timeout).  No fault, heartbeat, cancellation or       *)
(* operator action is ever required to happen.                             *)
(***************************************************************************)
Fairness ==
    /\ WF_vars(Api) /\ WF_vars(Relay) /\ WF_vars(Reap) /\ WF_vars(Tick)
    /\ \A e \in Executors : WF_vars(Deliver(e)) /\ WF_vars(Progress(e))

Spec == Init /\ [][Next]_vars
FairSpec == Spec /\ Fairness

-----------------------------------------------------------------------------
(* Properties.                                                             *)

\* Every variable stays in its type: the row is a legal scans row, each
\* executor is at one known point of run_scan_task.
TypeOK ==
    /\ row \in Rows
    /\ api \in {"committed", "sent", "done"}
    /\ relay \in {"idle", "selected", "sent"}
    /\ msgs \in [Attempts -> Nat]
    /\ exec \in [Executors -> Execs]
    /\ draining \in [Executors -> {"no", "waiting", "requeued"}]
    /\ dlq \in BOOLEAN /\ dropped \in BOOLEAN /\ unrecorded \in BOOLEAN
    /\ faults \in Nat
    /\ raised \in BOOLEAN /\ reports \in SUBSET Settled

\* The token is installed by a claim and every way out of 'running'
\* (_finalize_status, reaper, requeue, cancel) clears it.
TokenIffRunning == (row.token # None) <=> (row.status = "running")

\* The fence of _finalize_status lets at most one live execution through,
\* and only one that claimed the row and has not yet decided an outcome: no
\* execution that was revoked, or never claimed, or already reported, can
\* come to hold the row again.
HolderIsClaimant ==
    \A e \in Executors : Busy(e) /\ Owns(row, exec[e].tok) =>
        /\ exec[e].stake = "claimed"
        /\ \A f \in Executors \ {e} : ~Owns(row, exec[f].tok)

\* What ScanCompleted announced about a settled scan stays true: no later
\* claim, reap, requeue, cancel or stale terminal write changes it, and no
\* two executions announce different results.  (A published 'failed' or
\* 'running' may be overtaken by a retry.)
ReportsStayTrue == \A s \in reports : row.status = s

\* A message, or an execution that has not let go of the one it carries and
\* will claim, or has an exception to be retried or dead-lettered.
InHand ==
    \/ \E n \in Attempts : msgs[n] > 0
    \/ \E e \in Executors :
          \/ exec[e].pc \in {"start", "expired"}
          \/ exec[e].pc \in {"report", "end", "unhandled"} /\ exec[e].exc # "ok"

\* A scan that failed by an exception or the soft time limit is never
\* forgotten, but for one hole: a retry is on its way, or it is in the
\* dead-letter queue, or its entry was lost by a fault of Redis or thrown away
\* by an operator; the hole is a soft-timeout handler that itself raises on
\* what is then the last attempt.
FailureAccounted ==
    row.status = "failed" /\ raised => InHand \/ dlq \/ dropped \/ unrecorded

\* A completed, completed_with_errors or cancelled scan is never touched
\* again: claim, reaper, requeue, cancel and finalize all leave its status.
SettledIsFinal == [][row.status \in Settled => row'.status = row.status]_vars

\* The execution token keeps the promise of ScanOwnership.
Phase == CASE row.status = "queued" -> "open"
           [] row.status = "running" -> "held"
           [] row.status = "failed" -> "failed"
           [] OTHER -> "settled"
Winners == {exec[e].tok : e \in {f \in Executors : exec[f].stake = "won"}}

Ownership == INSTANCE ScanOwnership
                 WITH phase <- Phase, owner <- row.token, winners <- Winners

\* Claim, finalize, reap, requeue and cancel implement Grant, Conclude,
\* Revoke and Cancel; every other step leaves the ownership alone or lets go
\* of an outcome that was announced.
OwnershipKept == Ownership!OSpec

\* No scan stays 'running' for ever: its executor ends it, or falls silent
\* and the reaper does.
RunningEnds == row.status = "running" ~> row.status # "running"

\* No scan stays queued unseen: it is claimed, cancelled, or its delivery
\* failed so often that it was dead-lettered (or fell into the hole of
\* FailureAccounted).
QueuedServed ==
    row.status = "queued" ~> row.status # "queued" \/ dlq \/ dropped \/ unrecorded

(***************************************************************************)
(* Statements of the code's comments that the code does not keep.          *)
(***************************************************************************)

\* "A replacement executor is never at risk": an execution that has just
\* been granted the scan (its started_at within both thresholds) is not
\* reaped.
ReplacementNotAtRisk ==
    [][Reap => row.started > StaleAfter \/ row.started > OrphanAfter]_vars

\* A reaped executor "records no duplicate lifecycle metric, publishes no
\* second ScanCompleted, and is not dead-lettered".
RevokedNotDeadLettered ==
    [][\A e \in Executors :
          DeadLetter(e) /\ exec[e].stake = "claimed"
                        /\ row.status = "failed" /\ ~raised
              => dlq' = dlq]_vars

\* "Mark it 'failed' cleanly ..., record it to the DLQ for inspection", and
\* "when those retries are exhausted the task is dead-lettered".
NeverForgotten == row.status = "failed" /\ raised => InHand \/ dlq \/ dropped

=============================================================================
