--------------------------- MODULE LeaseExecution ---------------------------
(***************************************************************************)
(* The lease path of one scan: remote scanner workers without a database,  *)
(* the scanner manager whose endpoints write for them, the tool_runs they  *)
(* leave (of evidence only whether it can be inserted), the orphan reaper, *)
(* the tool-run reconciler, cancellation and the site switch.              *)
(*                                                                         *)
(* A per-tool POST is admitted (_authorize_scan_for_worker and             *)
(* _assert_execution_token read the scan row) and stored in two steps, and *)
(* a result in three: the manager runs at READ COMMITTED and takes no      *)
(* lock, so the tool_runs row may change between db.get and the commit     *)
(* that relies on it.  (An announcement or evidence only inserts, which    *)
(* the primary or the foreign key decides at the commit.)  The sink's      *)
(* retries of one POST are one POST.  The conditional UPDATEs of the scan  *)
(* row are single steps.                                                   *)
(***************************************************************************)
EXTENDS ScanRow, FiniteSets

CONSTANTS Workers,        \* lease workers
          MaxExecutions,  \* bound on leases of the scan
          NumTools,       \* tools of the pipeline
          Grace,          \* toolrun_reconcile_grace_seconds, in ticks
          MaxFaults       \* bound on losses, deaths and site switches

ASSUME LeaseAssumption ==
    /\ MaxExecutions \in Nat /\ NumTools \in Nat /\ MaxFaults \in Nat
    /\ Grace \in 0 .. (MaxAge - 1)

VARIABLES
    row,        \* the scans row
    recovery,   \* config.recovery has been written
    done,       \* age of completed_at while the scan is terminal, else 0
    open,       \* the scan's site may be scanned
    wk,         \* what each worker is doing
    runs,       \* runs[t][k]: status of execution t's tool_run for tool k
    reqs,       \* admitted POSTs that are not yet stored
    minted,     \* execution tokens handed out
    faults      \* faults still allowed

VARIABLES       \* history, read by the properties only
    winners,    \* the executions whose terminal write was accepted
    own         \* the present failure was reported by the execution itself

db == <<row, recovery, done, runs>>
hist == <<winners, own>>
vars == <<row, recovery, done, open, wk, runs, reqs, minted, faults, hist>>

Executions == 1 .. MaxExecutions
Tools == 1 .. NumTools
ToolStatuses == {"completed", "partial", "failed"}
RunStatuses == ToolStatuses \cup {"absent", "running"}
Kinds == {"started", "evidence", "result"}
\* What a result has seen of its tool_runs row.
Sights == {"unread", "absent", "running", "ended"}
Requests == [tok : Executions, tool : Tools, kind : Kinds, st : ToolStatuses,
             saw : Sights]

Pcs == {"idle",      \* polling
        "asked",     \* the manager selected the scan for this worker
        "leased",    \* job received, not yet validated
        "probe",     \* at the top of execute_leased_job's loop
        "tool",      \* tool process running
        "complete"}  \* verdict known, /v1/lease/complete not yet answered

(***************************************************************************)
(* The point reached ("started", "evidence" and "result" are POSTs to be   *)
(* sent, with wait set while one is being answered), the token, the number *)
(* of the tool, its status or the verdict, the statuses of the tools that  *)
(* ran, whether a result was lost, the refusal latch, and whether the      *)
(* terminal write was won.                                                 *)
(***************************************************************************)
WorkerStates ==
    [pc : Pcs \cup Kinds, wait : BOOLEAN, tok : Executions \cup {None},
     tool : 0 .. NumTools, st : ToolStatuses \cup Terminal,
     ran : SUBSET ToolStatuses, lost : BOOLEAN, refused : BOOLEAN]

Idle == [pc |-> "idle", wait |-> FALSE, tok |-> None, tool |-> 0,
         st |-> "failed", ran |-> {}, lost |-> FALSE, refused |-> FALSE]

Init ==
    /\ row = NewRow /\ recovery = FALSE /\ done = 0
    /\ open = TRUE
    /\ wk = [w \in Workers |-> Idle]
    /\ runs = [t \in Executions |-> [k \in Tools |-> "absent"]]
    /\ reqs = {} /\ minted = 0 /\ faults = MaxFaults
    /\ winners = {} /\ own = FALSE

Goto(w, r) == wk' = [wk EXCEPT ![w] = r]
Fault == faults > 0 /\ faults' = faults - 1

-----------------------------------------------------------------------------
(* POST /v1/lease.                                                         *)

\* queued, or failed and once recovered by the reaper.
Leasable == row.status = "queued" \/ (row.status = "failed" /\ recovery)

LeaseSelect(w) ==
    /\ wk[w].pc = "idle"
    /\ open /\ Leasable
    /\ minted < MaxExecutions
    /\ Goto(w, [Idle EXCEPT !.pc = "asked"])
    /\ UNCHANGED <<db, open, reqs, minted, faults, hist>>

\* _claim_scan decides; the answer may be lost on its way to the worker.
LeaseClaim(w) ==
    /\ wk[w].pc = "asked"
    /\ CanClaim(row) /\ minted < MaxExecutions
    /\ minted' = minted + 1
    /\ row' = ClaimRow(row, minted')
    /\ done' = 0
    /\ own' = FALSE
    /\ \/ Goto(w, [Idle EXCEPT !.pc = "leased", !.tok = minted']) /\ UNCHANGED faults
       \/ Goto(w, Idle) /\ Fault
    /\ UNCHANGED <<recovery, open, runs, reqs, winners>>

LeaseEmpty(w) ==
    /\ wk[w].pc = "asked"
    /\ ~CanClaim(row) \/ minted = MaxExecutions
    /\ Goto(w, Idle)
    /\ UNCHANGED <<db, open, reqs, minted, faults, hist>>

-----------------------------------------------------------------------------
(* _handle_job and execute_leased_job.                                     *)

Begin(w) ==
    /\ wk[w].pc = "leased"
    /\ Goto(w, [wk[w] EXCEPT !.pc = "probe"])
    /\ UNCHANGED <<db, open, reqs, minted, faults, hist>>

\* The verdict of an execution that does not reach its end.
Aborted(x) == [Idle EXCEPT !.pc = "complete", !.tok = x.tok]

\* validate_leased_job, or a preflight of the tunnel or the VPN exit.
RefuseJob(w) ==
    /\ wk[w].pc = "leased"
    /\ Goto(w, Aborted(wk[w]))
    /\ UNCHANGED <<db, open, reqs, minted, faults, hist>>

\* The executor raises, or the egress watchdog cancels it, at any await: a
\* POST being answered is abandoned and may still be stored.
Interrupt(w) ==
    /\ wk[w].pc \in {"probe", "tool"} \cup Kinds
    /\ Goto(w, Aborted(wk[w]))
    /\ UNCHANGED <<db, open, reqs, minted, faults, hist>>

\* Mutant: the aggregation before persistence failures were counted.
VerdictMutant(ran, lost) == IF ran = {} THEN "failed" ELSE Aggregate(ran)
\* The aggregation at the end of execute_leased_job: no tool at all is a
\* failure, and a lost result is an error even if every tool succeeded.
Verdict(ran, lost) ==
    IF ran = {} THEN "failed"
    ELSE IF Aggregate(ran) = "completed" /\ lost THEN "completed_with_errors"
    ELSE Aggregate(ran)

\* Is the manager's answer a verdict: 403 from _authorize_scan_for_worker, or
\* a stop reason from /v1/scan-status.
Stopped(w) == ~open \/ StopReason(row, wk[w].tok) # "none"

\* The loop ends: no tool is left, a refusal is latched, or the probe says so.
FinishTools(w) ==
    /\ wk[w].pc = "probe"
    /\ wk[w].tool = NumTools \/ wk[w].refused \/ Stopped(w)
    /\ Goto(w, [wk[w] EXCEPT !.pc = "complete", !.tool = 0,
                   !.ran = {}, !.lost = FALSE,
                   !.st = Verdict(wk[w].ran, wk[w].lost),
                   !.refused = @ \/ wk[w].tool < NumTools])
    /\ UNCHANGED <<db, open, reqs, minted, faults, hist>>

\* The probe answers "go on", or does not answer: the loop is fail-open.
GoesOn(w) ==
    /\ wk[w].pc = "probe" /\ wk[w].tool < NumTools /\ ~wk[w].refused
    /\ \/ ~Stopped(w) /\ UNCHANGED faults
       \/ Stopped(w) /\ Fault

\* The tool does not apply to the target.
SkipTool(w) ==
    /\ GoesOn(w)
    /\ Goto(w, [wk[w] EXCEPT !.tool = @ + 1])
    /\ UNCHANGED <<db, open, reqs, minted, hist>>

NextTool(w) ==
    /\ GoesOn(w)
    /\ Goto(w, [wk[w] EXCEPT !.pc = "started", !.tool = @ + 1, !.st = "failed"])
    /\ UNCHANGED <<db, open, reqs, minted, hist>>

\* The tool ends.  A tool that raised, or printed nothing, has no evidence.
ToolEnds(w) ==
    /\ wk[w].pc = "tool"
    /\ \E st \in ToolStatuses, next \in {"evidence", "result"} :
          Goto(w, [wk[w] EXCEPT !.pc = next, !.st = st])
    /\ UNCHANGED <<db, open, reqs, minted, faults, hist>>

(***************************************************************************)
(* What the executor makes of the outcome of a POST: "ok", "lost" (an      *)
(* outage or a 5xx) or "refused" (401, 403 or 409, latched).               *)
(***************************************************************************)
After(x, outcome) ==
    LET y == [x EXCEPT !.wait = FALSE, !.refused = @ \/ outcome = "refused"]
    IN  CASE x.pc = "started" -> [y EXCEPT !.pc = "tool"]
          [] x.pc = "evidence" ->
               [y EXCEPT !.pc = "result",
                         !.st = IF outcome = "lost" /\ @ = "completed"
                                THEN "partial" ELSE @]
          [] x.pc = "result" ->
               [y EXCEPT !.pc = "probe", !.st = "failed", !.ran = @ \cup {x.st},
                         !.lost = @ \/ outcome # "ok"]

Sending(w) == wk[w].pc \in Kinds /\ ~wk[w].wait
Admissible(w) == open /\ row.token = wk[w].tok
RequestOf(w) == [tok |-> wk[w].tok, tool |-> wk[w].tool, kind |-> wk[w].pc,
                 st |-> IF wk[w].pc = "result" THEN wk[w].st ELSE "failed",
                 saw |-> "unread"]

\* _authorize_scan_for_worker and _assert_execution_token pass.
PostAdmitted(w) ==
    /\ Sending(w) /\ Admissible(w)
    /\ reqs' = reqs \cup {RequestOf(w)}
    /\ Goto(w, [wk[w] EXCEPT !.wait = TRUE])
    /\ UNCHANGED <<db, open, minted, faults, hist>>

PostRefused(w) ==
    /\ Sending(w) /\ ~Admissible(w)
    /\ Goto(w, After(wk[w], "refused"))
    /\ UNCHANGED <<db, open, reqs, minted, faults, hist>>

\* The POST never arrives, or its answer does not: an admitted request is
\* still stored.
PostLost(w) ==
    /\ wk[w].pc \in Kinds
    /\ Fault
    /\ Goto(w, After(wk[w], "lost"))
    /\ UNCHANGED <<db, open, reqs, minted, hist>>

Sight(status) == IF status \in ToolStatuses THEN "ended" ELSE status

\* tool-results: db.get(ToolRun, payload.tool_run_id).
ReadRun(r) ==
    /\ r \in reqs /\ r.kind = "result" /\ r.saw = "unread"
    /\ reqs' = (reqs \ {r}) \cup {[r EXCEPT !.saw = Sight(runs[r.tok][r.tool])]}
    /\ UNCHANGED <<db, open, wk, minted, faults, hist>>

\* tool-started: the row is inserted unless it is there.
Opened(old) == IF old = "absent" THEN "running" ELSE old

\* Mutant: the last report wins.
RecordMutant(r, old) == r.st
\* tool-results: the status is written unless the row had ended when it was
\* read.  The UPDATE is by primary key alone: whatever the row has become
\* since, 'running' is what the handler goes by.
Record(r, old) == IF r.saw = "running" \/ old = "absent" THEN r.st ELSE old

\* evidence.tool_run_id references tool_runs: with no such row the INSERT
\* fails, and the answer is a 500.
HasRun(r) == runs[r.tok][r.tool] # "absent"

\* The row was missing when it was read and has been inserted since: the
\* commit fails on the primary key.  The sink tries again.
Clash(r) == r.saw = "absent" /\ HasRun(r)

\* The request as the worker sent it.
Sent(r) == [r EXCEPT !.saw = "unread"]

\* The commit, and the answer if somebody still waits for it.
Store(r) ==
    /\ r \in reqs
    /\ r.kind = "result" => r.saw # "unread"
    /\ reqs' = reqs \ {r}
    /\ runs' = [runs EXCEPT ![r.tok][r.tool] =
                   CASE r.kind = "started" -> Opened(@)
                     [] r.kind = "result" -> Record(r, @)
                     [] OTHER -> @]
    /\ LET ok == r.kind = "evidence" => HasRun(r)
       IN  wk' = [w \in Workers |->
                     IF ~(wk[w].wait /\ RequestOf(w) = Sent(r))
                     THEN wk[w]
                     ELSE IF Clash(r) THEN [wk[w] EXCEPT !.wait = FALSE]
                     ELSE After(wk[w], IF ok THEN "ok" ELSE "lost")]
    /\ UNCHANGED <<row, recovery, done, open, minted, faults, hist>>

-----------------------------------------------------------------------------
(* POST /v1/lease/complete and the heartbeat.                              *)

\* The fenced terminal write.
Complete(w) ==
    /\ wk[w].pc = "complete"
    /\ open /\ Owns(row, wk[w].tok)
    /\ row' = FinalizeRow(row, wk[w].st)
    /\ done' = 0
    /\ winners' = winners \cup {wk[w].tok} /\ own' = (wk[w].st = "failed")
    /\ Goto(w, Idle)
    /\ UNCHANGED <<recovery, open, runs, reqs, minted, faults>>

\* Refused, or superseded: left to whoever owns the row, or to the reaper.
CompleteRefused(w) ==
    /\ wk[w].pc = "complete"
    /\ ~(open /\ Owns(row, wk[w].tok))
    /\ Goto(w, Idle)
    /\ UNCHANGED <<db, open, reqs, minted, faults, hist>>

\* Three attempts fail.
CompleteLost(w) ==
    /\ wk[w].pc = "complete"
    /\ Fault
    /\ Goto(w, Idle)
    /\ UNCHANGED <<db, open, reqs, minted, hist>>

\* _heartbeat_while_running, from the start of the executor to its end.
Heartbeat(w) ==
    /\ wk[w].pc \in {"probe", "tool"} \cup Kinds
    /\ open /\ Owns(row, wk[w].tok)
    /\ row' = HeartbeatRow(row)
    /\ UNCHANGED <<recovery, done, open, wk, runs, reqs, minted, faults, hist>>

Die(w) ==
    /\ wk[w].pc # "idle"
    /\ Fault
    /\ Goto(w, Idle)
    /\ UNCHANGED <<db, open, reqs, minted, hist>>

-----------------------------------------------------------------------------
(* The control plane.                                                      *)

Cancel ==
    /\ CanCancel(row)
    /\ row' = CancelRow(row) /\ done' = 0
    /\ UNCHANGED <<recovery, open, wk, runs, reqs, minted, faults, hist>>

Reap ==
    /\ Silent(row)
    /\ row' = ReapRow(row) /\ recovery' = TRUE /\ done' = 0
    /\ UNCHANGED <<open, wk, runs, reqs, minted, faults, hist>>

\* Mutant: the terminal statuses before completed_with_errors.
OverMutant == row.status \in {"completed", "failed", "cancelled"} /\ done > Grace
\* A terminal scan, its grace period past.
Over == row.status \in Terminal /\ done > Grace

\* reconcile_orphaned_tool_runs.
Reconcile ==
    /\ Over
    /\ \E t \in Executions, k \in Tools : runs[t][k] = "running"
    /\ runs' = [t \in Executions |-> [k \in Tools |->
                   IF runs[t][k] = "running" THEN "failed" ELSE runs[t][k]]]
    /\ UNCHANGED <<row, recovery, done, open, wk, reqs, minted, faults, hist>>

\* The site is suspended or the emergency switch thrown, or either undone.
SwitchSite ==
    /\ Fault
    /\ open' = ~open
    /\ UNCHANGED <<db, wk, reqs, minted, hist>>

\* queued_at is read by the relay only, which does not touch leased scans.
Tick ==
    /\ row' = [AgeRow(row) EXCEPT !.queued = row.queued]
    /\ done' = IF row.status \in Terminal THEN Older(done) ELSE done
    /\ UNCHANGED <<recovery, open, wk, runs, reqs, minted, faults, hist>>

-----------------------------------------------------------------------------
Progress(w) ==
    \/ LeaseClaim(w) \/ LeaseEmpty(w) \/ Begin(w) \/ FinishTools(w)
    \/ SkipTool(w) \/ NextTool(w) \/ ToolEnds(w)
    \/ RefuseJob(w) \/ Interrupt(w)
    \/ PostAdmitted(w) \/ PostRefused(w) \/ Complete(w) \/ CompleteRefused(w)

Upset(w) == PostLost(w) \/ CompleteLost(w) \/ Die(w)

Next ==
    \/ \E w \in Workers : LeaseSelect(w) \/ Progress(w) \/ Heartbeat(w) \/ Upset(w)
    \/ \E r \in reqs : ReadRun(r) \/ Store(r)
    \/ Cancel \/ Reap \/ Reconcile \/ SwitchSite \/ Tick

(***************************************************************************)
(* Fairness: workers and the manager go on with what they have begun       *)
(* (every tool and every request has a timeout), the beat sweeps run and   *)
(* time passes.  No poll, heartbeat, fault or operator action is required. *)
(***************************************************************************)
Fairness ==
    /\ \A w \in Workers : WF_vars(Progress(w))
    /\ WF_vars(\E r \in reqs : ReadRun(r) \/ Store(r))
    /\ WF_vars(Reap) /\ WF_vars(Reconcile) /\ WF_vars(Tick)

Spec == Init /\ [][Next]_vars
FairSpec == Spec /\ Fairness

-----------------------------------------------------------------------------
(* Properties.                                                             *)

\* Every variable stays in its type.
TypeOK ==
    /\ row \in Rows /\ recovery \in BOOLEAN /\ done \in Ages
    /\ open \in BOOLEAN
    /\ wk \in [Workers -> WorkerStates]
    /\ runs \in [Executions -> [Tools -> RunStatuses]]
    /\ reqs \in SUBSET Requests
    /\ minted \in 0 .. MaxExecutions /\ faults \in Nat
    /\ winners \in SUBSET Executions /\ own \in BOOLEAN

\* A scan that is reported completed is backed by its records: no tool of
\* the execution that completed it is on record as running, partial or
\* failed, whatever POST was lost, refused, stored late or reconciled.
CompletedIsStored ==
    row.status = "completed" =>
        \E t \in winners :
            /\ \A u \in winners : u <= t
            /\ \A k \in Tools : runs[t][k] \in {"absent", "completed"}

\* What a tool run reported is never rewritten: not by a late or repeated
\* report, the reconciler or a late announcement.  A run that has ended
\* changes only if it is on record as failed without having said so: its own
\* report, which had read the row while it was running, replaces 'failed'.
ReportedRunsFinal ==
    [][\A t \in Executions, k \in Tools :
          runs[t][k] \in ToolStatuses /\ runs'[t][k] # runs[t][k]
          => /\ runs[t][k] = "failed"
             /\ \E r \in reqs \ reqs' :
                   /\ r.tok = t /\ r.tool = k /\ r.kind = "result"
                   /\ r.saw = "running" /\ r.st = runs'[t][k]]_vars

\* The execution token keeps the promise of ScanOwnership on this path too:
\* claim, complete, reap and cancel are its Grant, Conclude, Revoke, Cancel.
Phase == CASE row.status = "queued" -> "open"
           [] row.status = "running" -> "held"
           [] row.status = "failed" -> "failed"
           [] OTHER -> "settled"
Ownership == INSTANCE ScanOwnership
                 WITH phase <- Phase, owner <- row.token, winners <- winners
OwnershipKept == Ownership!OSpec

\* No leased scan stays 'running' for ever: a worker that dies, an answer or
\* a report that is lost, or a closed site, leaves it to the reaper.
LeaseEnds == row.status = "running" ~> row.status # "running"

\* No tool run stays 'running' for ever, even if its scan was cancelled,
\* reaped or completed without it.
RunsSettle ==
    \A t \in Executions, k \in Tools :
        runs[t][k] = "running" ~> runs[t][k] # "running"

(***************************************************************************)
(* Statements of the code's comments that the code does not keep.          *)
(***************************************************************************)

\* "A scan that failed for its OWN reasons ... must not be re-leased
\* forever": a failure that an execution reported is never offered again.
OwnFailureNotReleased ==
    [][\A w \in Workers : LeaseSelect(w) => ~(row.status = "failed" /\ own)]_vars

\* "Nothing downstream depends on this row existing": evidence that reaches
\* the manager is stored whether or not the tool's start was announced.
StartIsCosmetic ==
    [][\A r \in reqs : r.kind = "evidence" /\ Store(r)
          => HasRun(r)]_vars

\* "a scan's status carries the same fidelity regardless of which execution
\* plane ran it": as in run_scan, an execution that was told to stop before
\* its last tool does not report a clean result.
TruncatedNotClean ==
    [][\A w \in Workers : Complete(w) /\ wk[w].refused => row'.status # "completed"]_vars

\* "STATUS IS WRITE-ONCE ... the first terminal status wins and is never
\* silently replaced".
StatusWriteOnce ==
    [][\A t \in Executions, k \in Tools :
          runs[t][k] \in ToolStatuses => runs'[t][k] = runs[t][k]]_vars

=============================================================================
