----------------------------- MODULE MCOperations -----------------------------
(***************************************************************************)
(* The long-running work of the platform, checked side by side: a          *)
(* behaviour exercises the one component "part" names and the others keep  *)
(* their initial state, in which none of their fair actions is enabled.    *)
(***************************************************************************)
EXTENDS Tenants, Egress, Engagement, AiCalls, ToolRuns

CONSTANT Workers  \* the components this run exercises

VARIABLE part

-----------------------------------------------------------------------------
(* Values of the constants                                                 *)

\* Tenants: the free plan allows one scan a month.
MCLimit == [scan |-> 1]

\* Engagement: a passive and an active tool that discover, and an intrusive
\* one that detects.
MCTier == [t \in AgentTools |-> t]
MCCapability == [t \in AgentTools |-> IF t < 2 THEN "discovery" ELSE "detection"]

\* AiCalls: the cloud provider with a local one behind it.
MCChain == <<"openrouter", "local">>

\* ToolRuns: what the tools before this one may have found.
Found(type, host, path, params, source, error) ==
  [type |-> type, host |-> host, path |-> path, params |-> params, source |-> source,
   error |-> error]
MCPriors ==
  {<<>>,
   <<Found("port", "unresolvable", "", FALSE, "", FALSE)>>,
   <<Found("http_service", "a", "", FALSE, "", TRUE), Found("http_service", "a", "/", FALSE, "", FALSE),
     Found("http_service", "b", "", FALSE, "", FALSE)>>,
   <<Found("url", "a", "x", FALSE, "katana", FALSE), Found("url", "a", "x", TRUE, "arjun", FALSE),
     Found("url", "a", "static", FALSE, "katana", FALSE), Found("url", "a", "y", TRUE, "katana", FALSE)>>}
MCLines == {[record |-> TRUE, host |-> "a", complete |-> TRUE],
            [record |-> FALSE, host |-> "", complete |-> FALSE]}

-----------------------------------------------------------------------------
\* An engagement that is over.
EngagementDone ==
  /\ stop = "none" /\ roe = CHOOSE r \in RoE : TRUE
  /\ engagement = "completed" /\ toolRuns = <<>> /\ steps = <<>> /\ attempts = 1
  /\ agent = [Unstarted EXCEPT !.pc = "returned"]

Init ==
  /\ part \in Workers
  /\ TenantsInit /\ EgressInit /\ AiInit /\ ToolInit
  /\ part # "egress" => kind = "vpn"
  /\ part # "tools" => job.tool = "subfinder" /\ job.targets = TargetsOf("subfinder", "target", <<>>)
  /\ IF part = "engagement" THEN EngagementInit /\ (roe.approved => roe.approval) ELSE EngagementDone

\* Everything but the component p keeps its state.
Still(p) ==
  /\ UNCHANGED part
  /\ IF p = "tenants" THEN TRUE ELSE UNCHANGED tenantVars
  /\ IF p = "egress" THEN TRUE ELSE UNCHANGED egressVars
  /\ IF p = "engagement" THEN TRUE ELSE UNCHANGED engagementVars
  /\ IF p = "ai" THEN TRUE ELSE UNCHANGED aiVars
  /\ IF p = "tools" THEN TRUE ELSE UNCHANGED toolVars

Next ==
  \/ part = "tenants" /\ DailyNext({CHOOSE b \in Beats : TRUE}) /\ Still("tenants")
  \/ part = "tenants" /\ DeletionNext /\ Still("tenants")
  \/ part = "schedules" /\ DailyNext(Beats) /\ Still("tenants")
  \/ part = "egress" /\ EgressNext /\ Still("egress")
  \/ part = "engagement" /\ EngagementNext /\ Still("engagement")
  \/ part = "ai" /\ AiNext /\ Still("ai")
  \/ part = "tools" /\ ToolNext /\ Still("tools")

vars == <<part, tenantVars, egressVars, engagementVars, aiVars, toolVars>>

Spec ==
  /\ Init /\ [][Next]_vars
  /\ TenantsFairness /\ EgressFairness /\ EngagementFairness /\ ToolFairness

-----------------------------------------------------------------------------
\* Every component's state stays well typed, whatever it does.
TypeOK == TenantsTypeOK /\ EgressTypeOK /\ EngagementTypeOK /\ AiTypeOK /\ ToolTypeOK

\* Work that leaves a mark on somebody's system is not done twice: a due
\* occurrence of a schedule is dispatched once however many beats overlap
\* (schedules/service.py), and an engagement launches no tool twice over all
\* its rounds, crashes and retries (scanner_engine/orchestrator.py).
AtMostOnce == OccurrenceOnce /\ ToolsRunOnce

\* What is written down about a tool run is true: its status tells what it
\* covered (tool_runners), and an engagement explains each of its runs by one
\* step and did nothing intrusive without leave (RunsExplained).
RecordsTellTruth == StatusTellsCoverage /\ RunsExplained

Begun ==
  CASE part = "tenants"    -> DeletionBegun
    [] part = "engagement" -> TRUE
    [] part = "egress"     -> PathLost
    [] part = "tools"      -> ChildAlive
    [] OTHER               -> FALSE

Ended ==
  CASE part = "tenants"    -> DeletionOver
    [] part = "engagement" -> EngagementOver
    [] part = "egress"     -> LossOver
    [] part = "tools"      -> NoneAlive
    [] OTHER               -> TRUE

\* Work that was begun comes to an end: the deletion of a tenant, an
\* engagement, the processes of a tool, and a scan whose tunnel was lost
\* (DeletionCompletes, EngagementEnds, ChildrenEnd and LossStopsScan as one
\* formula, which is their conjunction because a behaviour has one part).
WorkEnds == Begun ~> Ended
===============================================================================
