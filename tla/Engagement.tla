------------------------------ MODULE Engagement ------------------------------
(***************************************************************************)
(* The agent-driven engagement of one scan (_run_agent_driven in           *)
(* scanner_engine/orchestrator.py): rounds of a decision loop in which the *)
(* model proposes a tool and the code validates, gates and runs it,        *)
(* followed by the deterministic confirmation phase, with a cancellation,  *)
(* a revocation of the executor, a crash and the retry of the task at any  *)
(* point.                                                                  *)
(*                                                                         *)
(* engagement, toolRuns and steps are committed rows; agent is the local   *)
(* state of the coroutine and dies with it.                                *)
(***************************************************************************)
EXTENDS Integers, Sequences, FiniteSets

CONSTANTS
  AgentTools,   \* the tools of TOOL_REGISTRY, as integers in registry order
  TierOf,       \* safety_tier of each tool: 0 passive, 1 active_safe, 2 intrusive
  Active,       \* the tools with requires_active_testing
  CapabilityOf, \* the capability each tool implements
  MaxSteps,     \* agent_max_steps
  MaxRounds,    \* agent_max_rounds
  StallLimit,   \* agent_stall_limit, 0 = off
  MaxAiCalls,   \* agent_max_ai_calls, 0 = off
  Confirmable,  \* finding/module pairs can_attempt accepts in one phase
  MaxAttempts   \* bound on executions of the task

ASSUME EngagementAssumption ==
  /\ AgentTools \subseteq Nat /\ Active \subseteq AgentTools
  /\ TierOf \in [AgentTools -> 0..2]
  /\ MaxSteps \in Nat /\ MaxRounds \in Nat /\ StallLimit \in Nat
  /\ MaxAiCalls \in Nat /\ Confirmable \in Nat /\ MaxAttempts \in Nat

VARIABLES
  stop,       \* what _execution_stop_reason answers: "none", "cancelled", "revoked"
  roe,        \* Rules of engagement and authorization of the scan
  engagement, \* status of the EngagementState row, "none" when there is no row
  toolRuns,   \* the ToolRun rows: <<[tool, status]>>
  steps,      \* the AgentStep rows: <<[no, kind, tool]>>
  attempts,   \* executions of the task so far
  agent       \* the running coroutine

engagementVars == <<stop, roe, engagement, toolRuns, steps, attempts, agent>>

Unstarted == [pc |-> "idle", step |-> 0, ai |-> 0, stall |-> 0, round |-> 0,
         already |-> {}, tool |-> -1, access |-> FALSE, left |-> 0,
         base |-> 0, done |-> <<>>]

\* RulesOfEngagement.from_config never raises the ceiling of the deployment
\* (ceiling) and enables confirmation only when both sides opt in.
from_config(ceiling, asked, deployment, opted) ==
  [tier |-> IF asked <= ceiling THEN asked ELSE ceiling,
   confirm |-> deployment /\ opted]

Rules == [tier : 0..2, confirm : BOOLEAN]
RoE == {[rules |-> r, approval |-> a, approved |-> h, active |-> t] :
          r \in {from_config(c, k, d, o) :
                   c \in 1..2, k \in 0..2, d \in BOOLEAN, o \in BOOLEAN},
          a \in BOOLEAN, h \in BOOLEAN, t \in BOOLEAN}

EngagementInit ==
  /\ stop = "none"
  /\ roe \in RoE
  /\ engagement = "none"
  /\ toolRuns = <<>> /\ steps = <<>>
  /\ attempts = 1
  /\ agent = Unstarted

-----------------------------------------------------------------------------
\* safety.assert_action_allowed for an operation that is not destructive.
assert_action_allowed(tier) ==
  /\ tier <= roe.rules.tier
  /\ tier = 2 => roe.rules.confirm

\* resolve_capability: the first tool of the capability that has not run,
\* fits the ceiling and the authorization of the target.
resolve_capability(cap, already) ==
  LET fit == {t \in AgentTools : /\ CapabilityOf[t] = cap
                                 /\ t \notin already
                                 /\ TierOf[t] <= roe.rules.tier
                                 /\ t \in Active => roe.active}
  IN  {t \in fit : \A u \in fit : t <= u}

available_tools(already) ==
  UNION {resolve_capability(CapabilityOf[t], already) : t \in AgentTools}

\* _record and _persist_decision: the step row of the current decision.
Recorded(kind, tool) ==
  steps' = Append(steps, [no |-> agent.step, kind |-> kind, tool |-> tool])

\* _budget_stop_reason; the wall-clock budget may run out at any check.
Exhausted(ai, stall) ==
  \/ MaxAiCalls > 0 /\ ai >= MaxAiCalls
  \/ StallLimit > 0 /\ stall >= StallLimit

-----------------------------------------------------------------------------
\* Entry of _run_agent_driven. An existing row means this is a re-run: the
\* loop is skipped and the tool runs already stored are the result.
BeginReuse ==
  /\ agent.pc = "idle" /\ engagement # "none"
  /\ agent' = [agent EXCEPT !.pc = "returned",
                 !.done = [i \in DOMAIN toolRuns |-> toolRuns[i].status]]
  /\ UNCHANGED <<stop, roe, engagement, toolRuns, steps, attempts>>

\* Without rounds (agent_max_rounds = 0) nothing is decided or confirmed.
BeginFresh ==
  /\ agent.pc = "idle" /\ engagement = "none"
  /\ engagement' = "running"
  /\ agent' = [agent EXCEPT !.pc = IF MaxRounds > 0 THEN "loop" ELSE "confirm"]
  /\ UNCHANGED <<stop, roe, toolRuns, steps, attempts>>

\* Head of _decision_loop: the step ceiling and the cooperative stop.
LoopEnds ==
  /\ agent.pc = "loop"
  /\ agent.step >= MaxSteps \/ stop = "cancelled"
  /\ agent' = [agent EXCEPT !.pc = "phase"]
  /\ UNCHANGED <<stop, roe, engagement, toolRuns, steps, attempts>>

LoopRevoked ==
  /\ agent.pc = "loop" /\ agent.step < MaxSteps /\ stop = "revoked"
  /\ agent' = [Unstarted EXCEPT !.pc = "gone"]
  /\ UNCHANGED <<stop, roe, engagement, toolRuns, steps, attempts>>

\* A budget stop, or the time budget, is recorded as a finish decision.
BudgetStop(late) ==
  /\ agent.pc = "loop" /\ agent.step < MaxSteps /\ stop = "none"
  /\ late \/ Exhausted(agent.ai, agent.stall)
  /\ Recorded("finish", -1)
  /\ agent' = [agent EXCEPT !.pc = "phase", !.step = @ + 1]
  /\ UNCHANGED <<stop, roe, engagement, toolRuns, attempts>>

\* The loop asks the model; the answer comes later.
Ask ==
  /\ agent.pc = "loop" /\ agent.step < MaxSteps /\ stop = "none"
  /\ ~ Exhausted(agent.ai, agent.stall)
  /\ agent' = [agent EXCEPT !.pc = "deciding"]
  /\ UNCHANGED <<stop, roe, engagement, toolRuns, steps, attempts>>

\* agent.decide finishes: nothing is available, the provider failed, the
\* output is not an object, or no candidate survives _parse_candidates.
DecideFinish ==
  /\ agent.pc = "deciding"
  /\ Recorded("finish", -1)
  /\ agent' = [agent EXCEPT !.pc = "phase", !.ai = @ + 1, !.step = @ + 1]
  /\ UNCHANGED <<stop, roe, engagement, toolRuns, attempts>>

\* decide picks an available tool that the safety gate refuses: the step is
\* recorded as blocked and the tool counts as run.
DecideBlocked(t) ==
  /\ agent.pc = "deciding" /\ t \in available_tools(agent.already)
  /\ ~ assert_action_allowed(TierOf[t])
  /\ Recorded("blocked", t)
  /\ agent' = [agent EXCEPT !.pc = "loop", !.ai = @ + 1, !.step = @ + 1,
                            !.already = @ \cup {t}]
  /\ UNCHANGED <<stop, roe, engagement, toolRuns, attempts>>

\* decide picks a tool the gate allows: _run_single_tool commits its row.
DecideTool(t) ==
  /\ agent.pc = "deciding" /\ t \in available_tools(agent.already)
  /\ assert_action_allowed(TierOf[t])
  /\ toolRuns' = Append(toolRuns, [tool |-> t, status |-> "running"])
  /\ agent' = [agent EXCEPT !.pc = "gate", !.ai = @ + 1, !.tool = t]
  /\ UNCHANGED <<stop, roe, engagement, steps, attempts>>

\* The last-moment gate of _run_single_tool.
GateRefuses ==
  /\ agent.pc = "gate" /\ stop = "revoked"
  /\ toolRuns' = [toolRuns EXCEPT ![Len(toolRuns)].status = "abandoned_revoked"]
  /\ agent' = [Unstarted EXCEPT !.pc = "gone"]
  /\ UNCHANGED <<stop, roe, engagement, steps, attempts>>

GateOpens ==
  /\ agent.pc = "gate" /\ stop # "revoked"
  /\ agent' = [agent EXCEPT !.pc = "tool"]
  /\ UNCHANGED <<stop, roe, engagement, toolRuns, steps, attempts>>

\* The tool ends and its row is committed; a failed run keeps no findings.
ToolEnds(status, found) ==
  /\ agent.pc = "tool"
  /\ status = "failed" => ~ found
  /\ toolRuns' = [toolRuns EXCEPT ![Len(toolRuns)].status = status]
  /\ agent' = [agent EXCEPT !.pc = "record", !.done = Append(@, status),
                 !.already = @ \cup {agent.tool},
                 !.stall = IF found THEN 0 ELSE @ + 1]
  /\ UNCHANGED <<stop, roe, engagement, steps, attempts>>

\* The step row of the tool run is a later commit.
RecordTool ==
  /\ agent.pc = "record"
  /\ Recorded("tool_run", agent.tool)
  /\ agent' = [agent EXCEPT !.pc = "loop", !.step = @ + 1, !.tool = -1]
  /\ UNCHANGED <<stop, roe, engagement, toolRuns, attempts>>

\* After the loop: the confirmation phase when the rules enable it.
PhaseStart ==
  /\ agent.pc = "phase"
  /\ agent' = [agent EXCEPT !.pc = "confirm", !.access = FALSE,
                 !.base = agent.step,
                 !.left = IF roe.rules.confirm THEN Confirmable ELSE 0]
  /\ UNCHANGED <<stop, roe, engagement, toolRuns, steps, attempts>>

\* One finding/module pair of _run_exploitation_phase: host approval, then the
\* safety gate (the modules are intrusive), then the read-only proof. Its step
\* numbers continue from the loop's number, which is not advanced.
ConfirmOne(kind, yes) ==
  /\ agent.pc = "confirm" /\ agent.left > 0
  /\ kind = IF roe.approval /\ ~ roe.approved THEN "approval_wait"
            ELSE IF assert_action_allowed(2) THEN "exploit" ELSE "blocked"
  /\ yes => kind = "exploit"
  /\ steps' = Append(steps, [no |-> agent.base, kind |-> kind, tool |-> -1])
  /\ agent' = [agent EXCEPT !.left = @ - 1, !.base = @ + 1, !.access = @ \/ yes]
  /\ UNCHANGED <<stop, roe, engagement, toolRuns, attempts>>

\* Another round only when access was confirmed and a round remains.
AnotherRound(round, access) == access /\ round < MaxRounds

RoundAgain ==
  /\ agent.pc = "confirm" /\ agent.left = 0
  /\ AnotherRound(agent.round + 1, agent.access)
  /\ agent' = [agent EXCEPT !.pc = "loop", !.round = @ + 1]
  /\ UNCHANGED <<stop, roe, engagement, toolRuns, steps, attempts>>

Finish ==
  /\ agent.pc = "confirm" /\ agent.left = 0
  /\ ~ AnotherRound(agent.round + 1, agent.access)
  /\ engagement' = "completed"
  /\ agent' = [agent EXCEPT !.pc = "returned", !.round = IF @ < MaxRounds THEN @ + 1 ELSE @]
  /\ UNCHANGED <<stop, roe, toolRuns, steps, attempts>>

-----------------------------------------------------------------------------
\* cancel_scan, and the reaper or the shutdown handler taking the scan away.
StopScan(why) ==
  /\ stop = "none" /\ agent.pc # "returned"
  /\ stop' = why
  /\ UNCHANGED <<roe, engagement, toolRuns, steps, attempts, agent>>

\* The worker process dies.
AgentDies ==
  /\ agent.pc \notin {"returned", "gone"}
  /\ agent' = [Unstarted EXCEPT !.pc = "gone"]
  /\ UNCHANGED <<stop, roe, engagement, toolRuns, steps, attempts>>

\* A later execution claims the scan: the requeue of a revoked one, the
\* redelivery after a crash. A cancelled scan is not claimed.
Retry ==
  /\ agent.pc = "gone" /\ attempts < MaxAttempts /\ stop # "cancelled"
  /\ attempts' = attempts + 1
  /\ stop' = "none"
  /\ agent' = Unstarted
  /\ UNCHANGED <<roe, engagement, toolRuns, steps>>

Abandoned ==
  agent.pc = "gone" /\ (stop = "cancelled" \/ attempts = MaxAttempts)

AgentStep ==
  \/ BeginReuse \/ BeginFresh \/ LoopEnds \/ LoopRevoked
  \/ BudgetStop(FALSE) \/ Ask \/ DecideFinish
  \/ \E t \in AgentTools : DecideBlocked(t) \/ DecideTool(t)
  \/ GateRefuses \/ GateOpens
  \/ \E s \in {"completed", "partial", "failed"}, f \in BOOLEAN : ToolEnds(s, f)
  \/ RecordTool \/ PhaseStart
  \/ \E k \in {"approval_wait", "exploit", "blocked"}, y \in BOOLEAN : ConfirmOne(k, y)
  \/ RoundAgain \/ Finish

EngagementNext ==
  \/ AgentStep
  \/ BudgetStop(TRUE)
  \/ \E w \in {"cancelled", "revoked"} : StopScan(w)
  \/ AgentDies
  \/ Retry

\* The coroutine keeps running and the broker redelivers.
EngagementFairness == WF_engagementVars(AgentStep) /\ WF_engagementVars(Retry)

-----------------------------------------------------------------------------
StepRows == [no : Nat, kind : {"finish", "blocked", "tool_run", "approval_wait", "exploit"},
             tool : AgentTools \cup {-1}]

\* The rows and the coroutine have their types (models of EngagementState,
\* AgentStep and ToolRun).
EngagementTypeOK ==
  /\ stop \in {"none", "cancelled", "revoked"}
  /\ roe.rules \in Rules
  /\ engagement \in {"none", "running", "completed"}
  /\ \A i \in DOMAIN toolRuns : toolRuns[i].tool \in AgentTools
  /\ \A i \in DOMAIN steps : steps[i] \in StepRows
  /\ agent.round <= MaxRounds

Launched == {i \in DOMAIN toolRuns : toolRuns[i].status # "abandoned_revoked"}

\* Over all rounds, crashes and retries of a scan no tool is launched against
\* the target twice, and none is launched beyond the step ceiling that
\* core/config.py calls "never bypassed".
ToolsRunOnce ==
  /\ \A i, j \in Launched : toolRuns[i].tool = toolRuns[j].tool => i = j
  /\ Len(toolRuns) <= MaxSteps

\* Every tool run of an engagement that completed is explained by exactly one
\* agent step ("Every decision + tool run is recorded to agent_steps"), and
\* nothing intrusive happened without both opt-ins and the host's approval.
RunsExplained ==
  /\ engagement = "completed" =>
       \A i \in DOMAIN toolRuns :
         Cardinality({j \in DOMAIN steps : /\ steps[j].kind = "tool_run"
                                           /\ steps[j].tool = toolRuns[i].tool}) = 1
  /\ \A i \in Launched : TierOf[toolRuns[i].tool] = 2 => roe.rules.confirm
  /\ \A j \in DOMAIN steps : steps[j].kind = "exploit" =>
       /\ roe.rules.confirm /\ roe.rules.tier = 2
       /\ roe.approval => roe.approved

EngagementOver == agent.pc = "returned" \/ Abandoned

\* Whatever the model answers, the engagement ends: the coroutine returns, or
\* the scan was taken away from it for good.
EngagementEnds == <>EngagementOver
=============================================================================
