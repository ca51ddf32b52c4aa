------------------------- MODULE ScanExecutionProofs -------------------------
(***************************************************************************)
(* Theorems about ScanExecution for every number of executors, tokens,     *)
(* tools, retries and faults and for every value of the thresholds.        *)
(***************************************************************************)
EXTENDS ScanExecution, ScanRowProofs, TLAPS

-----------------------------------------------------------------------------
(* Helpers.                                                                *)

\* Moving one executor to another point keeps every executor at one.
LEMMA GotoType ==
    ASSUME exec \in [Executors -> Execs], NEW e \in Executors,
           NEW r \in Execs, Goto(e, r)
    PROVE  exec' \in [Executors -> Execs]
BY DEF Goto

\* Publishing a message keeps the broker's counts natural numbers.
LEMMA EnqueuedType ==
    ASSUME msgs \in [Attempts -> Nat], NEW n \in Attempts
    PROVE  Enqueued(n) \in [Attempts -> Nat]
BY DEF Enqueued

-----------------------------------------------------------------------------
(* Type correctness.                                                       *)

\* The initial state has the right types.
LEMMA TypeInit == Init => TypeOK
<1> SUFFICES ASSUME Init PROVE TypeOK
  OBVIOUS
<1>1. row \in Rows
  BY AgeAssumption DEF Init, NewRow, Rows, Statuses, AgeOrNull, Ages, None
<1>2. Idle \in Execs
  BY ExecAssumption DEF Idle, Execs, Pcs, Attempts, Outcomes
<1>3. msgs \in [Attempts -> Nat] /\ exec \in [Executors -> Execs]
  BY <1>2 DEF Init
<1>4. faults \in Nat
  BY ExecAssumption DEF Init
<1>5. dlq \in BOOLEAN /\ dropped \in BOOLEAN /\ raised \in BOOLEAN
      /\ unrecorded \in BOOLEAN /\ reports \in SUBSET Settled
  BY DEF Init
<1> QED
  BY <1>1, <1>3, <1>4, <1>5 DEF Init, TypeOK

\* Every step keeps the types.
LEMMA TypeStep == TypeOK /\ [Next]_vars => TypeOK'
<1> SUFFICES ASSUME TypeOK, [Next]_vars PROVE TypeOK'
  OBVIOUS
<1> USE ExecAssumption DEF TypeOK, hist
<1>i. Idle \in Execs
  BY DEF Idle, Execs, Pcs, Attempts, Outcomes
<1>q. 0 \in Attempts
  BY DEF Attempts
<1>l. /\ 0 \in 0 .. NumTools /\ NumTools \in 0 .. NumTools
      /\ \A n \in 0 .. NumTools : n > 0 => n - 1 \in 0 .. NumTools
  OBVIOUS
<1>s. "failed" \in Statuses
  BY DEF Statuses
<1>1. CASE ApiSend
  BY <1>1, <1>q, EnqueuedType DEF ApiSend
<1>2. CASE ApiSendFails
  BY <1>2, <1>q DEF ApiSendFails
<1>3. CASE ApiCrash
  BY <1>3, <1>q DEF ApiCrash, Fault
<1>4. CASE RelaySelect
  BY <1>4, <1>q DEF RelaySelect
<1>5. CASE RelaySend
  BY <1>5, <1>q, EnqueuedType DEF RelaySend
<1>6. CASE RelayFails
  BY <1>6, <1>q DEF RelayFails, Fault
<1>7. CASE Reap
  BY <1>7, RowOps, <1>s DEF Reap
<1>8. CASE Replay
  BY <1>8, <1>q, EnqueuedType DEF Replay, Fault
<1>9. CASE DropEntry
  <2>1. faults' \in Nat
    BY <1>9 DEF DropEntry, Fault
  <2> QED
    BY <1>9, <2>1, Zenon DEF DropEntry
<1>10. CASE Tick
  BY <1>10, RowOps, <1>s DEF Tick
<1>11. CASE ApiStamp
  BY <1>11, <1>q DEF ApiStamp, Rows
<1>12. CASE RelayStamp
  BY <1>12, <1>q DEF RelayStamp, Rows
<1>13. CASE Cancel
  BY <1>13, RowOps, <1>s, <1>i DEF Cancel
<1>e. ASSUME NEW e \in Executors,
             Deliver(e) \/ Progress(e) \/ Heartbeat(e) \/ Upset(e) \/ RequeueOnShutdown(e)
      PROVE  TypeOK'
  <2> DEFINE x == exec[e]
  <2>x. x \in Execs
    OBVIOUS
  <2> HIDE DEF x
  <2>1. CASE Deliver(e)
    <3>1. PICK n \in Attempts :
            /\ msgs[n] > 0
            /\ msgs' = [msgs EXCEPT ![n] = @ - 1]
            /\ Goto(e, [Idle EXCEPT !.pc = "start", !.att = n,
                                    !.tok = CHOOSE t \in FreshTokens : TRUE])
      BY <2>1 DEF Deliver
    <3>2. (CHOOSE t \in FreshTokens : TRUE) \in Tokens
      BY <2>1 DEF Deliver, FreshTokens
    <3>3. [Idle EXCEPT !.pc = "start", !.att = n,
                       !.tok = CHOOSE t \in FreshTokens : TRUE] \in Execs
      BY <1>i, <3>2 DEF Execs, Pcs
    <3>4. msgs' \in [Attempts -> Nat]
      BY <3>1
    <3> QED
      BY <2>1, <3>1, <3>3, <3>4, GotoType DEF Deliver
  <2>2. CASE Claim(e)
    <3>1. [x EXCEPT !.pc = "check", !.left = NumTools, !.stake = "claimed"] \in Execs
      BY <2>x, <1>l DEF Execs, Pcs
    <3>2. row' \in Rows
      <4>1. CASE x.tok \in Nat
        BY <2>2, <4>1, <1>s, RowOps DEF Claim, x
      <4>2. CASE x.tok = None
        BY <2>2, <4>2, <1>s, RowOps, ZenonT(60) DEF Claim, x, ClaimRow, Rows, Statuses, None
      <4> QED
        BY <2>x, <4>1, <4>2 DEF Execs
    <3> QED
      BY <2>2, <3>1, <3>2, GotoType DEF Claim, x
  <2>3. CASE SkipNotClaimable(e)
    BY <2>3, <1>i, GotoType DEF SkipNotClaimable, Fault
  <2>4. CASE FinishTools(e)
    <3>1. [x EXCEPT !.pc = "final", !.left = 0] \in Execs
      BY <2>x, <1>l DEF Execs, Pcs
    <3> QED
      BY <2>4, <3>1, GotoType DEF FinishTools, x
  <2>5. CASE StopRevoked(e)
    BY <2>5, <1>i, GotoType DEF StopRevoked, Fault
  <2>6. CASE SkipTool(e)
    <3>1. x.left > 0
      BY <2>6 DEF SkipTool, x
    <3>2. [x EXCEPT !.left = @ - 1] \in Execs
      BY <2>x, <3>1, <1>l DEF Execs
    <3> QED
      BY <2>6, <3>2, GotoType DEF SkipTool, x
  <2>7. CASE BeginTool(e)
    <3>0. x.left > 0
      BY <2>7 DEF BeginTool, x
    <3>1. [x EXCEPT !.pc = "gate", !.left = @ - 1] \in Execs
      BY <2>x, <3>0, <1>l DEF Execs, Pcs
    <3> QED
      BY <2>7, <3>1, GotoType DEF BeginTool, x
  <2>8. CASE LaunchTool(e)
    <3>1. [x EXCEPT !.pc = "tool"] \in Execs
      BY <2>x DEF Execs, Pcs
    <3> QED
      BY <2>8, <3>1, GotoType DEF LaunchTool, x
  <2>9. CASE ToolEnds(e)
    <3>1. PICK st \in ToolStatuses :
             Goto(e, [x EXCEPT !.pc = "check", !.ran = @ \cup {st}])
      BY <2>9 DEF ToolEnds, x
    <3>3. [x EXCEPT !.pc = "check", !.ran = @ \cup {st}] \in Execs
      BY <2>x DEF Execs, Pcs
    <3> QED
      BY <2>9, <3>1, <3>3, GotoType DEF ToolEnds
  <2>10. CASE Raises(e)
    <3>1. PICK how \in Outcomes :
             Goto(e, [x EXCEPT !.pc = "raise", !.exc = how, !.left = 0, !.ran = {}])
      BY <2>10 DEF Raises, x
    <3>2. [x EXCEPT !.pc = "raise", !.exc = how, !.left = 0, !.ran = {}] \in Execs
      BY <2>x, <1>l DEF Execs, Pcs
    <3> QED
      BY <2>10, <3>1, <3>2, GotoType DEF Raises
  <2>11. CASE Finalize(e)
    <3>1. [x EXCEPT !.pc = "report", !.stake = "won", !.ran = {}] \in Execs
      BY <2>x DEF Execs, Pcs
    <3> QED
      BY <2>11, <3>1, GotoType, RowOps, AggregateStatus DEF Finalize, x
  <2>12. CASE FinalizeFailed(e)
    <3>1. [x EXCEPT !.pc = "report", !.stake = "won"] \in Execs
      BY <2>x DEF Execs, Pcs
    <3> QED
      BY <2>12, <3>1, GotoType, RowOps, <1>s DEF FinalizeFailed, x
  <2>13. CASE LoseFinalize(e)
    BY <2>13, <1>i, GotoType DEF LoseFinalize, Fault
  <2>14. CASE Report(e)
    <3>1. [x EXCEPT !.pc = "end"] \in Execs
      BY <2>x DEF Execs, Pcs
    <3> QED
      BY <2>14, <3>1, GotoType DEF Report, x
  <2>15. CASE FailScan(e)
    <3>1. [x EXCEPT !.pc = "end", !.stake = "won"] \in Execs
      BY <2>x DEF Execs, Pcs
    <3>2. [x EXCEPT !.pc = "end"] \in Execs
      BY <2>x DEF Execs, Pcs
    <3>3. CASE Owns(row, x.tok)
      BY <2>15, <3>1, <3>3, <1>s, RowOps, GotoType DEF FailScan, x
    <3>4. CASE ~Owns(row, x.tok)
      BY <2>15, <3>2, <3>4, GotoType DEF FailScan, x
    <3> QED
      BY <3>3, <3>4
  <2>16. CASE Ack(e)
    BY <2>16, <1>i, GotoType DEF Ack, Fault
  <2>17. CASE Retry(e)
    <3>1. x.att + 1 \in Attempts
      BY <2>17, <2>x DEF Retry, WillRetry, x, Execs, Attempts
    <3> QED
      BY <2>17, <3>1, <1>i, GotoType, EnqueuedType DEF Retry, x
  <2>18. CASE DeadLetter(e)
    <3>1. faults' \in Nat
      BY <2>18 DEF DeadLetter, Fault
    <3>2. exec' \in [Executors -> Execs]
      BY <2>18, <1>i, GotoType DEF DeadLetter
    <3>3. dlq' \in BOOLEAN /\ dropped' \in BOOLEAN
      BY <2>18, Zenon DEF DeadLetter
    <3> QED
      BY <2>18, <3>1, <3>2, <3>3, Zenon DEF DeadLetter
  <2>19. CASE Sigkill(e)
    <3>1. x.att \in Attempts
      BY <2>x DEF Execs
    <3> QED
      BY <2>19, <3>1, <1>i, GotoType, EnqueuedType DEF Sigkill, x
  <2>20. CASE WorkerExits(e)
    BY <2>20 DEF WorkerExits
  <2>21. CASE Heartbeat(e)
    BY <2>21, <1>s, RowOps DEF Heartbeat
  <2>22. CASE DbFault(e)
    <3>1. [x EXCEPT !.pc = "end", !.exc = "transient", !.ran = {}] \in Execs
      BY <2>x DEF Execs, Pcs, Outcomes
    <3> QED
      BY <2>22, <3>1, GotoType DEF DbFault, Fault, x
  <2>23. CASE SoftTimeout(e)
    <3>1. [x EXCEPT !.pc = "expired", !.exc = "timeout", !.left = 0, !.ran = {}] \in Execs
      BY <2>x, <1>l DEF Execs, Pcs, Outcomes
    <3> QED
      BY <2>23, <3>1, GotoType DEF SoftTimeout, x
  <2>24. CASE Crash(e)
    <3>1. x.att \in Attempts
      BY <2>x DEF Execs
    <3>2. Enqueued(x.att) \in [Attempts -> Nat]
      BY <3>1, EnqueuedType
    <3>3. x.att < MaxRetries => x.att + 1 \in Attempts
      BY <3>1 DEF Attempts
    <3>4. msgs' \in [Attempts -> Nat]
      BY <2>24, <3>2, <3>3 DEF Crash, WillRetry, x
    <3> QED
      BY <2>24, <3>4, <1>i, GotoType DEF Crash, Fault
  <2>25. CASE Redeliver(e)
    <3>1. x.att \in Attempts
      BY <2>x DEF Execs
    <3> QED
      BY <2>25, <3>1, EnqueuedType DEF Redeliver, Fault, x
  <2>26. CASE Sigterm(e)
    BY <2>26 DEF Sigterm, Fault
  <2>27. CASE RequeueOnShutdown(e)
    BY <2>27, <1>s, RowOps DEF RequeueOnShutdown
  <2>28. CASE FailScanRaises(e)
    <3>1. PICK how \in {"transient", "permanent"} :
             \/ /\ Goto(e, [x EXCEPT !.pc = "unhandled", !.exc = how])
                /\ UNCHANGED <<row, raised>>
             \/ /\ Owns(row, x.tok)
                /\ row' = FinalizeRow(row, "failed")
                /\ raised' = TRUE
                /\ Goto(e, [x EXCEPT !.pc = "unhandled", !.exc = how, !.stake = "won"])
      BY <2>28 DEF FailScanRaises, x
    <3>2. /\ [x EXCEPT !.pc = "unhandled", !.exc = how] \in Execs
          /\ [x EXCEPT !.pc = "unhandled", !.exc = how, !.stake = "won"] \in Execs
      BY <2>x DEF Execs, Pcs, Outcomes
    <3>3. exec' \in [Executors -> Execs]
      BY <3>1, <3>2, GotoType
    <3>4. row' \in Rows /\ raised' \in BOOLEAN
      BY <3>1, <1>s, RowOps
    <3> QED
      BY <2>28, <3>3, <3>4 DEF FailScanRaises, Fault
  <2>29. CASE AckUnrecorded(e)
    BY <2>29, <1>i, GotoType DEF AckUnrecorded
  <2> QED
    BY <1>e, <2>1, <2>2, <2>3, <2>4, <2>5, <2>6, <2>7, <2>8, <2>9, <2>10, <2>11, <2>12, <2>13, <2>14, <2>15, <2>16, <2>17, <2>18, <2>19, <2>20, <2>21, <2>22, <2>23, <2>24, <2>25, <2>26, <2>27, <2>28, <2>29 DEF Progress, Upset
<1>u. CASE UNCHANGED vars
  BY <1>u DEF vars
<1> QED
  BY <1>u, <1>e, <1>1, <1>2, <1>3, <1>4, <1>5, <1>6, <1>7, <1>8, <1>9, <1>10, <1>11, <1>12, <1>13 DEF Next, Api, Relay

\* Type correctness of the Celery path, for every value of the constants.
THEOREM TypeCorrect == Spec => []TypeOK
BY TypeInit, TypeStep, PTL DEF Spec

-----------------------------------------------------------------------------
(***************************************************************************)
(* The inductive invariant behind the ownership properties.  Beside        *)
(* TokenIffRunning it says that tokens in use are distinct and that the    *)
(* token in the row is held by nobody but a claimant that has not decided  *)
(* an outcome, which needs that an execution about to claim has no stake.  *)
(***************************************************************************)
OwnInv ==
    /\ TokenIffRunning
    /\ \A e \in Executors : ~Busy(e) => exec[e] = Idle
    /\ \A e \in Executors : Busy(e) => exec[e].tok # None
    /\ \A e, f \in Executors : Busy(e) /\ exec[e].tok = exec[f].tok => e = f
    /\ \A e \in Executors :
          Busy(e) /\ row.token = exec[e].tok => exec[e].stake = "claimed"
    /\ \A e \in Executors : exec[e].pc = "start" => exec[e].stake = "none"

\* What a step leaves of the ownership columns when it does not write them.
SameOwner == row'.token = row.token /\ row'.status = row.status

\* A local move of a busy execution keeps the invariant.
LEMMA LocalMove ==
    ASSUME TypeOK, OwnInv, NEW e \in Executors, NEW r \in Execs, Busy(e),
           Goto(e, r), r.pc \notin {"idle", "start"}, r.tok = exec[e].tok,
           r.stake = exec[e].stake, SameOwner
    PROVE  OwnInv' /\ Winners' = Winners
<1>1. exec' = [exec EXCEPT ![e] = r] /\ exec \in [Executors -> Execs]
  BY DEF Goto, TypeOK
<1>a. exec'[e] = r /\ \A f \in Executors \ {e} : exec'[f] = exec[f]
  BY <1>1
<1>2. OwnInv'
  BY <1>a DEF OwnInv, SameOwner, TokenIffRunning, Busy
<1>3. \A f \in Executors : exec'[f].tok = exec[f].tok /\ exec'[f].stake = exec[f].stake
  BY <1>a
<1> QED
  BY <1>2, <1>3 DEF Winners

\* An execution that ends keeps the invariant and gives up its outcome.
LEMMA GoIdle ==
    ASSUME TypeOK, OwnInv, NEW e \in Executors, Goto(e, Idle), SameOwner
    PROVE  OwnInv' /\ Winners' \subseteq Winners
<1>1. exec' = [exec EXCEPT ![e] = Idle] /\ exec \in [Executors -> Execs]
  BY DEF Goto, TypeOK
<1>2. OwnInv'
  BY <1>1 DEF OwnInv, SameOwner, TokenIffRunning, Busy, Idle
<1>3. \A f \in Executors : exec'[f] = exec[f] \/ exec'[f].stake = "none"
  BY <1>1 DEF Idle
<1> QED
  BY <1>2, <1>3 DEF Winners

\* A statement that leaves the row's owner alone, or that takes the row out
\* of 'running' and clears the token, keeps the invariant.
LEMMA RowMove ==
    ASSUME OwnInv, UNCHANGED exec,
           SameOwner \/ (row'.token = None /\ row'.status # "running")
    PROVE  OwnInv' /\ Winners' = Winners
<1>1. OwnInv'
  BY DEF OwnInv, SameOwner, TokenIffRunning, Busy
<1> QED
  BY <1>1 DEF Winners

\* A won terminal write turns the claimant into the only new winner.
LEMMA WinMove ==
    ASSUME TypeOK, OwnInv, NEW e \in Executors, NEW r \in Execs, Busy(e),
           Goto(e, r), r.pc \notin {"idle", "start"}, r.tok = exec[e].tok,
           r.stake = "won", Owns(row, exec[e].tok),
           row'.token = None, row'.status # "running"
    PROVE  OwnInv' /\ Winners' = Winners \cup {row.token}
<1>1. exec' = [exec EXCEPT ![e] = r] /\ exec \in [Executors -> Execs]
  BY DEF Goto, TypeOK
<1>a. exec'[e] = r /\ \A f \in Executors \ {e} : exec'[f] = exec[f]
  BY <1>1
<1>2. OwnInv'
  BY <1>a DEF OwnInv, TokenIffRunning, Busy
<1>3. /\ \A f \in Executors : exec'[f].tok = exec[f].tok
      /\ \A f \in Executors \ {e} : exec'[f].stake = exec[f].stake
      /\ exec'[e].stake = "won" /\ exec[e].tok = row.token
  BY <1>1 DEF Owns
<1> QED
  BY <1>2, <1>3 DEF Winners

-----------------------------------------------------------------------------
\* The abstract step that a step of the code must be.
AbsStep == [Ownership!ONext]_(Ownership!ovars)

\* Nothing about the owner changes, and at most some outcomes are announced.
LEMMA QuietStep ==
    ASSUME SameOwner, Winners' \subseteq Winners PROVE AbsStep
<1>1. Phase' = Phase
  BY DEF SameOwner, Phase
<1> QED
  BY <1>1 DEF SameOwner, AbsStep, Ownership!ONext, Ownership!Announce

\* Claim is Grant.
LEMMA ClaimStep ==
    ASSUME TypeOK, OwnInv, NEW e \in Executors, Claim(e) PROVE OwnInv' /\ AbsStep
<1> DEFINE r == [exec[e] EXCEPT !.pc = "check", !.left = NumTools, !.stake = "claimed"]
<1>1. /\ exec[e] \in Execs /\ row \in Rows /\ exec[e].pc = "start"
      /\ row.status \in {"queued", "failed"}
  BY DEF TypeOK, Claim, CanClaim, Claimable
<1>2. r.pc = "check" /\ r.tok = exec[e].tok /\ r.stake = "claimed"
  BY <1>1 DEF Execs
<1> HIDE DEF r
<1>3. exec'[e] = r /\ \A f \in Executors \ {e} : exec'[f] = exec[f]
  BY DEF TypeOK, Claim, Goto, r
<1>4. row'.token = exec[e].tok /\ row'.status = "running"
  BY <1>1, OwnerOps DEF Claim
<1>5. exec[e].tok \in Nat /\ exec[e].tok # None /\ exec[e].stake = "none"
  BY <1>1, ExecAssumption DEF OwnInv, Busy, Execs
<1>6. OwnInv'
  BY <1>1, <1>2, <1>3, <1>4, <1>5 DEF OwnInv, TokenIffRunning, Busy
<1>7. Winners' = Winners
  BY <1>2, <1>3, <1>5 DEF Winners
<1>8. exec[e].tok \notin Winners
  BY <1>1, <1>5 DEF Winners, OwnInv, Busy
<1>9. Phase \in {"open", "failed"} /\ Phase' = "held"
  BY <1>1, <1>4 DEF Phase
<1> QED
  BY <1>4, <1>5, <1>6, <1>7, <1>8, <1>9
     DEF AbsStep, Ownership!ONext, Ownership!Grant

\* A won terminal write is Conclude.
LEMMA WinStep ==
    ASSUME TypeOK, OwnInv, NEW e \in Executors, NEW r \in Execs, Busy(e),
           Goto(e, r), r.pc \notin {"idle", "start"}, r.tok = exec[e].tok,
           r.stake = "won", Owns(row, exec[e].tok),
           NEW st \in Terminal, row' = FinalizeRow(row, st)
    PROVE  OwnInv' /\ AbsStep
<1>1. row \in Rows
  BY DEF TypeOK
<1>2. row'.token = None /\ row'.status = st /\ st # "running" /\ st # "queued"
  BY <1>1, OwnerOps DEF Terminal
<1>3. OwnInv' /\ Winners' = Winners \cup {row.token}
  BY <1>2, WinMove
<1>4. Phase = "held" /\ Phase' \in {"failed", "settled"}
  BY <1>2 DEF Phase, Owns
<1> QED
  BY <1>2, <1>3, <1>4
     DEF AbsStep, Ownership!ONext, Ownership!Conclude, Ownership!NoOne, None

\* Every step keeps the ownership invariant and is an abstract step.
LEMMA OwnStep ==
    TypeOK /\ OwnInv /\ [Next]_vars => OwnInv' /\ AbsStep
<1> SUFFICES ASSUME TypeOK, OwnInv, [Next]_vars PROVE OwnInv' /\ AbsStep
  OBVIOUS
<1>r. row \in Rows
  BY DEF TypeOK
<1>l. /\ 0 \in 0 .. NumTools
      /\ \A n \in 0 .. NumTools : n > 0 => n - 1 \in 0 .. NumTools
  BY ExecAssumption
<1>t. "failed" \in Terminal
  BY DEF Terminal
<1>1. CASE ApiSend
  BY <1>1, RowMove, QuietStep DEF ApiSend, SameOwner
<1>2. CASE ApiSendFails
  BY <1>2, RowMove, QuietStep DEF ApiSendFails, SameOwner
<1>3. CASE ApiCrash
  BY <1>3, RowMove, QuietStep DEF ApiCrash, SameOwner
<1>4. CASE RelaySelect
  BY <1>4, RowMove, QuietStep DEF RelaySelect, SameOwner
<1>5. CASE RelaySend
  BY <1>5, RowMove, QuietStep DEF RelaySend, SameOwner
<1>6. CASE RelayFails
  BY <1>6, RowMove, QuietStep DEF RelayFails, SameOwner
<1>7. CASE Replay
  BY <1>7, RowMove, QuietStep DEF Replay, SameOwner
<1>8. CASE DropEntry
  BY <1>8, RowMove, QuietStep DEF DropEntry, SameOwner
<1>9. CASE ApiStamp
  <2>1. SameOwner /\ UNCHANGED exec
    BY <1>9, <1>r DEF ApiStamp, SameOwner, Rows
  <2> QED
    BY <2>1, RowMove, QuietStep
<1>10. CASE RelayStamp
  <2>1. SameOwner /\ UNCHANGED exec
    BY <1>10, <1>r DEF RelayStamp, SameOwner, Rows
  <2> QED
    BY <2>1, RowMove, QuietStep
<1>11. CASE Tick
  <2>1. SameOwner /\ UNCHANGED exec
    BY <1>11, <1>r, OwnerOps DEF Tick, SameOwner
  <2> QED
    BY <2>1, RowMove, QuietStep
<1>12. CASE Reap
  <2>1. row'.token = None /\ row'.status = "failed" /\ row.status = "running"
    BY <1>12, <1>r, OwnerOps DEF Reap, Silent
  <2>2. OwnInv' /\ Winners' = Winners
    BY <1>12, <2>1, RowMove DEF Reap
  <2> QED
    BY <2>1, <2>2
       DEF Phase, AbsStep, Ownership!ONext, Ownership!Revoke, Ownership!NoOne, None
<1>13. CASE Cancel
  <2>1. row'.token = None /\ row'.status = "cancelled" /\ row.status \in {"queued", "running"}
    BY <1>13, <1>r, OwnerOps DEF Cancel, CanCancel, Rows, Statuses, Terminal
  <2>2. \A f \in Executors : exec'[f] = exec[f] \/ exec'[f] = Idle
    BY <1>13 DEF Cancel
  <2>i. Idle.pc = "idle" /\ Idle.tok = None
    BY DEF Idle
  <2>3. OwnInv'
    BY <2>1, <2>2, <2>i DEF OwnInv, TokenIffRunning, Busy
  <2>4. Winners' \subseteq Winners
    BY <2>2 DEF Winners, Idle
  <2> QED
    BY <2>1, <2>3, <2>4
       DEF Phase, AbsStep, Ownership!ONext, Ownership!Cancel, Ownership!NoOne, None
<1>e. ASSUME NEW e \in Executors,
             Deliver(e) \/ Progress(e) \/ Heartbeat(e) \/ Upset(e) \/ RequeueOnShutdown(e)
      PROVE  OwnInv' /\ AbsStep
  <2> DEFINE x == exec[e]
  <2>x. x \in Execs
    BY DEF TypeOK
  <2> HIDE DEF x
  <2>1. CASE Deliver(e)
    <3> DEFINE t == CHOOSE t \in FreshTokens : TRUE
    <3>1. PICK n \in Attempts :
             Goto(e, [Idle EXCEPT !.pc = "start", !.att = n, !.tok = t])
      BY <2>1 DEF Deliver
    <3>2. t \in FreshTokens
      BY <2>1 DEF Deliver
    <3> HIDE DEF t
    <3>3. t # None /\ t # row.token /\ \A f \in Executors : t # exec[f].tok
      BY <3>2, ExecAssumption DEF FreshTokens, None
    <3> DEFINE r == [Idle EXCEPT !.pc = "start", !.att = n, !.tok = t]
    <3>4. r.pc = "start" /\ r.tok = t /\ r.stake = "none"
      BY DEF Idle
    <3> HIDE DEF r
    <3>5. exec'[e] = r /\ \A f \in Executors \ {e} : exec'[f] = exec[f]
      BY <3>1 DEF TypeOK, Goto, r
    <3>6. UNCHANGED row /\ ~Busy(e)
      BY <2>1 DEF Deliver
    <3>7. exec[e].stake = "none"
      BY <3>6 DEF OwnInv, Idle
    <3>8. OwnInv'
      BY <3>3, <3>4, <3>5, <3>6 DEF OwnInv, TokenIffRunning, Busy
    <3>9. Winners' = Winners
      BY <3>4, <3>5, <3>7 DEF Winners
    <3> QED
      BY <3>6, <3>8, <3>9, QuietStep DEF SameOwner
  <2>2. CASE Claim(e)
    BY <2>2, ClaimStep
  <2>3. CASE SkipNotClaimable(e)
    BY <2>3, GoIdle, QuietStep DEF SkipNotClaimable, SameOwner
  <2>4. CASE StopRevoked(e)
    BY <2>4, GoIdle, QuietStep DEF StopRevoked, SameOwner
  <2>5. CASE LoseFinalize(e)
    BY <2>5, GoIdle, QuietStep DEF LoseFinalize, SameOwner
  <2>6. CASE Ack(e)
    BY <2>6, GoIdle, QuietStep DEF Ack, SameOwner
  <2>7. CASE Retry(e)
    BY <2>7, GoIdle, QuietStep DEF Retry, SameOwner
  <2>8. CASE DeadLetter(e)
    BY <2>8, GoIdle, QuietStep DEF DeadLetter, SameOwner
  <2>9. CASE Sigkill(e)
    BY <2>9, GoIdle, QuietStep DEF Sigkill, SameOwner
  <2>10. CASE Crash(e)
    BY <2>10, GoIdle, QuietStep DEF Crash, SameOwner
  <2>11. CASE FinishTools(e)
    <3> DEFINE r == [x EXCEPT !.pc = "final", !.left = 0]
    <3>1. r \in Execs
      BY <2>x, <2>11, <1>l DEF FinishTools, x, Execs, Pcs, Outcomes
    <3>2. r.pc \notin {"idle", "start"} /\ r.tok = x.tok /\ r.stake = x.stake /\ Busy(e)
      BY <2>x, <2>11 DEF FinishTools, x, Execs, Busy
    <3>3. Goto(e, r) /\ SameOwner
      BY <2>11 DEF FinishTools, x, SameOwner
    <3> HIDE DEF r
    <3> QED
      BY <3>1, <3>2, <3>3, LocalMove, QuietStep DEF x
  <2>12. CASE SkipTool(e)
    <3> DEFINE r == [x EXCEPT !.left = @ - 1]
    <3>1. r \in Execs
      BY <2>x, <2>12, <1>l DEF SkipTool, x, Execs, Pcs, Outcomes
    <3>2. r.pc \notin {"idle", "start"} /\ r.tok = x.tok /\ r.stake = x.stake /\ Busy(e)
      BY <2>x, <2>12 DEF SkipTool, x, Execs, Busy
    <3>3. Goto(e, r) /\ SameOwner
      BY <2>12 DEF SkipTool, x, SameOwner
    <3> HIDE DEF r
    <3> QED
      BY <3>1, <3>2, <3>3, LocalMove, QuietStep DEF x
  <2>13. CASE BeginTool(e)
    <3> DEFINE r == [x EXCEPT !.pc = "gate", !.left = @ - 1]
    <3>1. r \in Execs
      BY <2>x, <2>13, <1>l DEF BeginTool, x, Execs, Pcs, Outcomes
    <3>2. r.pc \notin {"idle", "start"} /\ r.tok = x.tok /\ r.stake = x.stake /\ Busy(e)
      BY <2>x, <2>13 DEF BeginTool, x, Execs, Busy
    <3>3. Goto(e, r) /\ SameOwner
      BY <2>13 DEF BeginTool, x, SameOwner
    <3> HIDE DEF r
    <3> QED
      BY <3>1, <3>2, <3>3, LocalMove, QuietStep DEF x
  <2>14. CASE LaunchTool(e)
    <3> DEFINE r == [x EXCEPT !.pc = "tool"]
    <3>1. r \in Execs
      BY <2>x, <2>14, <1>l DEF LaunchTool, x, Execs, Pcs, Outcomes
    <3>2. r.pc \notin {"idle", "start"} /\ r.tok = x.tok /\ r.stake = x.stake /\ Busy(e)
      BY <2>x, <2>14 DEF LaunchTool, x, Execs, Busy
    <3>3. Goto(e, r) /\ SameOwner
      BY <2>14 DEF LaunchTool, x, SameOwner
    <3> HIDE DEF r
    <3> QED
      BY <3>1, <3>2, <3>3, LocalMove, QuietStep DEF x
  <2>15. CASE Report(e)
    <3> DEFINE r == [x EXCEPT !.pc = "end"]
    <3>1. r \in Execs
      BY <2>x, <2>15, <1>l DEF Report, x, Execs, Pcs, Outcomes
    <3>2. r.pc \notin {"idle", "start"} /\ r.tok = x.tok /\ r.stake = x.stake /\ Busy(e)
      BY <2>x, <2>15 DEF Report, x, Execs, Busy
    <3>3. Goto(e, r) /\ SameOwner
      BY <2>15 DEF Report, x, SameOwner
    <3> HIDE DEF r
    <3> QED
      BY <3>1, <3>2, <3>3, LocalMove, QuietStep DEF x
  <2>16. CASE DbFault(e)
    <3> DEFINE r == [x EXCEPT !.pc = "end", !.exc = "transient", !.ran = {}]
    <3>1. r \in Execs
      BY <2>x, <2>16, <1>l DEF DbFault, x, Execs, Pcs, Outcomes
    <3>2. r.pc \notin {"idle", "start"} /\ r.tok = x.tok /\ r.stake = x.stake /\ Busy(e)
      BY <2>x, <2>16 DEF DbFault, x, Execs, Busy
    <3>3. Goto(e, r) /\ SameOwner
      BY <2>16 DEF DbFault, x, SameOwner
    <3> HIDE DEF r
    <3> QED
      BY <3>1, <3>2, <3>3, LocalMove, QuietStep DEF x
  <2>17. CASE SoftTimeout(e)
    <3> DEFINE r == [x EXCEPT !.pc = "expired", !.exc = "timeout", !.left = 0, !.ran = {}]
    <3>1. r \in Execs
      BY <2>x, <2>17, <1>l DEF SoftTimeout, x, Execs, Pcs, Outcomes
    <3>2. r.pc \notin {"idle", "start"} /\ r.tok = x.tok /\ r.stake = x.stake /\ Busy(e)
      BY <2>x, <2>17 DEF SoftTimeout, x, Execs, Busy
    <3>3. Goto(e, r) /\ SameOwner
      BY <2>17 DEF SoftTimeout, x, SameOwner
    <3> HIDE DEF r
    <3> QED
      BY <3>1, <3>2, <3>3, LocalMove, QuietStep DEF x
  <2>18. CASE ToolEnds(e)
    <3>1. PICK st \in ToolStatuses :
             Goto(e, [x EXCEPT !.pc = "check", !.ran = @ \cup {st}])
      BY <2>18 DEF ToolEnds, x
    <3> DEFINE r == [x EXCEPT !.pc = "check", !.ran = @ \cup {st}]
    <3>2. r \in Execs /\ r.pc = "check" /\ r.tok = x.tok /\ r.stake = x.stake
      BY <2>x DEF Execs, Pcs
    <3>3. Goto(e, r) /\ SameOwner /\ Busy(e)
      BY <2>18, <3>1 DEF ToolEnds, SameOwner, Busy
    <3> HIDE DEF r
    <3> QED
      BY <3>2, <3>3, LocalMove, QuietStep DEF x
  <2>19. CASE Raises(e)
    <3>1. PICK how \in Outcomes :
             Goto(e, [x EXCEPT !.pc = "raise", !.exc = how, !.left = 0, !.ran = {}])
      BY <2>19 DEF Raises, x
    <3> DEFINE r == [x EXCEPT !.pc = "raise", !.exc = how, !.left = 0, !.ran = {}]
    <3>2. r \in Execs /\ r.pc = "raise" /\ r.tok = x.tok /\ r.stake = x.stake
      BY <2>x, <1>l DEF Execs, Pcs
    <3>3. Goto(e, r) /\ SameOwner /\ Busy(e)
      BY <2>19, <3>1 DEF Raises, SameOwner, Busy
    <3> HIDE DEF r
    <3> QED
      BY <3>2, <3>3, LocalMove, QuietStep DEF x
  <2>20. CASE Finalize(e)
    <3> DEFINE r == [x EXCEPT !.pc = "report", !.stake = "won", !.ran = {}]
    <3>1. r \in Execs /\ r.pc = "report" /\ r.tok = x.tok /\ r.stake = "won"
      BY <2>x DEF Execs, Pcs
    <3>2. Goto(e, r) /\ Owns(row, x.tok) /\ Busy(e) /\ row' = FinalizeRow(row, Aggregate(x.ran))
      BY <2>20 DEF Finalize, x, Busy
    <3>3. Aggregate(x.ran) \in Terminal
      BY <1>t, AggregateStatus
    <3> HIDE DEF r
    <3> QED
      BY <3>1, <3>2, <3>3, WinStep DEF x
  <2>21. CASE FinalizeFailed(e)
    <3> DEFINE r == [x EXCEPT !.pc = "report", !.stake = "won"]
    <3>1. r \in Execs /\ r.pc = "report" /\ r.tok = x.tok /\ r.stake = "won"
      BY <2>x DEF Execs, Pcs
    <3>2. Goto(e, r) /\ Owns(row, x.tok) /\ Busy(e) /\ row' = FinalizeRow(row, "failed")
      BY <2>21 DEF FinalizeFailed, x, Busy
    <3>3. "failed" \in Terminal
      BY <1>t, AggregateStatus
    <3> HIDE DEF r
    <3> QED
      BY <3>1, <3>2, <3>3, WinStep DEF x
  <2>22. CASE FailScan(e)
    <3>1. CASE Owns(row, x.tok)
      <4> DEFINE r == [x EXCEPT !.pc = "end", !.stake = "won"]
      <4>1. r \in Execs /\ r.pc = "end" /\ r.tok = x.tok /\ r.stake = "won"
        BY <2>x DEF Execs, Pcs
      <4>2. Goto(e, r) /\ Busy(e) /\ row' = FinalizeRow(row, "failed")
        BY <2>22, <3>1 DEF FailScan, x, Busy
      <4> HIDE DEF r
      <4> QED
        BY <3>1, <4>1, <4>2, <1>t, WinStep DEF x
    <3>2. CASE ~Owns(row, x.tok)
      <4> DEFINE r == [x EXCEPT !.pc = "end"]
      <4>1. r \in Execs /\ r.pc = "end" /\ r.tok = x.tok /\ r.stake = x.stake
        BY <2>x DEF Execs, Pcs
      <4>2. Goto(e, r) /\ Busy(e) /\ SameOwner
        BY <2>22, <3>2 DEF FailScan, x, Busy, SameOwner
      <4> HIDE DEF r
      <4> QED
        BY <4>1, <4>2, LocalMove, QuietStep DEF x
    <3> QED
      BY <3>1, <3>2
  <2>28. CASE FailScanRaises(e)
    <3>1. PICK how \in {"transient", "permanent"} :
             \/ /\ Goto(e, [x EXCEPT !.pc = "unhandled", !.exc = how])
                /\ UNCHANGED <<row, raised>>
             \/ /\ Owns(row, x.tok)
                /\ row' = FinalizeRow(row, "failed")
                /\ raised' = TRUE
                /\ Goto(e, [x EXCEPT !.pc = "unhandled", !.exc = how, !.stake = "won"])
      BY <2>28 DEF FailScanRaises, x
    <3>2. Busy(e)
      BY <2>28 DEF FailScanRaises, Busy
    <3> DEFINE r == [x EXCEPT !.pc = "unhandled", !.exc = how]
               w == [x EXCEPT !.pc = "unhandled", !.exc = how, !.stake = "won"]
    <3>3. /\ r \in Execs /\ r.pc = "unhandled" /\ r.tok = x.tok /\ r.stake = x.stake
          /\ w \in Execs /\ w.pc = "unhandled" /\ w.tok = x.tok /\ w.stake = "won"
      BY <2>x DEF Execs, Pcs, Outcomes
    <3> HIDE DEF r, w
    <3>4. CASE Goto(e, r) /\ UNCHANGED row
      BY <3>2, <3>3, <3>4, LocalMove, QuietStep DEF x, SameOwner
    <3>5. CASE Goto(e, w) /\ Owns(row, x.tok) /\ row' = FinalizeRow(row, "failed")
      BY <3>2, <3>3, <3>5, <1>t, WinStep DEF x
    <3> QED
      BY <3>1, <3>4, <3>5 DEF r, w
  <2>29. CASE AckUnrecorded(e)
    BY <2>29, GoIdle, QuietStep DEF AckUnrecorded, SameOwner
  <2>23. CASE WorkerExits(e)
    BY <2>23, RowMove, QuietStep DEF WorkerExits, SameOwner
  <2>24. CASE Redeliver(e)
    BY <2>24, RowMove, QuietStep DEF Redeliver, SameOwner
  <2>25. CASE Sigterm(e)
    BY <2>25, RowMove, QuietStep DEF Sigterm, SameOwner
  <2>26. CASE Heartbeat(e)
    <3>1. SameOwner /\ UNCHANGED exec
      BY <2>26, <1>r, OwnerOps DEF Heartbeat, SameOwner
    <3> QED
      BY <3>1, RowMove, QuietStep
  <2>27. CASE RequeueOnShutdown(e)
    <3>1. CASE row.status = "running"
      <4>1. row'.token = None /\ row'.status = "queued"
        BY <2>27, <3>1, <1>r, OwnerOps DEF RequeueOnShutdown
      <4>2. OwnInv' /\ Winners' = Winners
        BY <2>27, <4>1, RowMove DEF RequeueOnShutdown
      <4> QED
        BY <3>1, <4>1, <4>2
           DEF Phase, AbsStep, Ownership!ONext, Ownership!Revoke, Ownership!NoOne, None
    <3>2. CASE row.status # "running"
      <4>1. SameOwner /\ UNCHANGED exec
        BY <2>27, <3>2, <1>r, OwnerOps DEF RequeueOnShutdown, SameOwner
      <4> QED
        BY <4>1, RowMove, QuietStep
    <3> QED
      BY <3>1, <3>2
  <2> QED
    BY <1>e, <2>1, <2>2, <2>3, <2>4, <2>5, <2>6, <2>7, <2>8, <2>9, <2>10, <2>11, <2>12, <2>13, <2>14, <2>15, <2>16, <2>17, <2>18, <2>19, <2>20, <2>21, <2>22, <2>23, <2>24, <2>25, <2>26, <2>27, <2>28, <2>29 DEF Progress, Upset
<1>u. CASE UNCHANGED vars
  <2>1. SameOwner /\ UNCHANGED exec
    BY <1>u DEF vars, SameOwner
  <2> QED
    BY <2>1, RowMove, QuietStep
<1> QED
  BY <1>u, <1>e, <1>1, <1>2, <1>3, <1>4, <1>5, <1>6, <1>7, <1>8, <1>9, <1>10, <1>11, <1>12, <1>13 DEF Next, Api, Relay

\* Nobody owns the scan that create_scan has just committed.
LEMMA OwnInit == Init => OwnInv /\ Ownership!OInit
BY DEF Init, NewRow, OwnInv, TokenIffRunning, Busy, Idle, Phase, Winners,
       Ownership!OInit, Ownership!NoOne, None

\* A row carries a token exactly while the scan is 'running'.
THEOREM TokenTheorem == Spec => []TokenIffRunning
<1>1. OwnInv => TokenIffRunning
  BY DEF OwnInv
<1> QED
  BY <1>1, TypeInit, TypeStep, OwnInit, OwnStep, PTL DEF Spec

\* At most one live execution passes the fence of _finalize_status, and only
\* one that claimed the scan and has not decided an outcome yet.
THEOREM HolderTheorem == Spec => []HolderIsClaimant
<1>1. OwnInv => HolderIsClaimant
  BY DEF OwnInv, HolderIsClaimant, Owns, Busy, TokenIffRunning
<1> QED
  BY <1>1, TypeInit, TypeStep, OwnInit, OwnStep, PTL DEF Spec

\* The Celery path implements ScanOwnership: claim, terminal write, reaper,
\* shutdown requeue and cancel are its Grant, Conclude, Revoke and Cancel.
THEOREM OwnershipTheorem == Spec => OwnershipKept
<1>1. TypeOK /\ OwnInv /\ [Next]_vars => [Ownership!ONext]_(Ownership!ovars)
  BY OwnStep DEF AbsStep
<1> QED
  BY <1>1, TypeInit, TypeStep, OwnInit, OwnStep, PTL
     DEF Spec, OwnershipKept, Ownership!OSpec

-----------------------------------------------------------------------------
(* Settled scans.                                                          *)

\* A step keeps a settled status, and announces at most the present one.
StatusKept ==
    /\ row.status \in Settled => row'.status = row.status
    /\ \/ reports' = reports
       \/ reports' = reports \cup ({row.status} \cap Settled) /\ row' = row

\* No statement of the code moves a settled scan.
LEMMA StatusStep == TypeOK /\ [Next]_vars => StatusKept
<1> SUFFICES ASSUME TypeOK, [Next]_vars PROVE StatusKept
  OBVIOUS
<1>r. row \in Rows
  BY DEF TypeOK
<1>s. /\ row.status \in Settled => ~CanClaim(row) /\ ~CanCancel(row) /\ row.status # "running"
  BY DEF Settled, Terminal, Claimable, CanClaim, CanCancel
<1>n. ASSUME UNCHANGED <<row, reports>> PROVE StatusKept
  BY <1>n DEF StatusKept
<1>1. CASE ApiSend \/ ApiSendFails \/ ApiCrash \/ RelaySelect \/ RelaySend
           \/ RelayFails \/ Replay \/ DropEntry
  BY <1>1, <1>n DEF ApiSend, ApiSendFails, ApiCrash, RelaySelect, RelaySend, RelayFails, Replay, DropEntry, hist
<1>2. CASE Cancel \/ Reap
  BY <1>2, <1>s DEF Cancel, Reap, Silent, StatusKept, hist
<1>3. CASE ApiStamp \/ RelayStamp
  BY <1>3, <1>r DEF ApiStamp, RelayStamp, StatusKept, Rows, hist
<1>4. CASE Tick
  BY <1>4, <1>r, OwnerOps DEF Tick, StatusKept, hist
<1>e. ASSUME NEW e \in Executors,
             Deliver(e) \/ Progress(e) \/ Heartbeat(e) \/ Upset(e) \/ RequeueOnShutdown(e)
      PROVE  StatusKept
  <2>1. CASE Deliver(e) \/ SkipNotClaimable(e) \/ FinishTools(e)
              \/ StopRevoked(e) \/ SkipTool(e) \/ BeginTool(e) \/ LaunchTool(e)
              \/ ToolEnds(e) \/ Raises(e) \/ LoseFinalize(e)
    BY <2>1, <1>n DEF Deliver, SkipNotClaimable, FinishTools, StopRevoked, SkipTool, BeginTool,
         LaunchTool, ToolEnds, Raises, LoseFinalize, hist
  <2>2. CASE Ack(e) \/ Retry(e) \/ DeadLetter(e) \/ Sigkill(e)
              \/ WorkerExits(e) \/ DbFault(e) \/ SoftTimeout(e) \/ Crash(e)
              \/ Redeliver(e) \/ Sigterm(e) \/ AckUnrecorded(e)
    BY <2>2, <1>n DEF Ack, Retry, DeadLetter, Sigkill, WorkerExits, DbFault,
         SoftTimeout, Crash, Redeliver, Sigterm, AckUnrecorded, hist
  <2>3. CASE Claim(e) \/ Finalize(e) \/ FinalizeFailed(e) \/ Heartbeat(e)
    BY <2>3, <1>s DEF Claim, Finalize, FinalizeFailed, Heartbeat, Owns, StatusKept, hist
  <2>4. CASE FailScan(e) \/ FailScanRaises(e)
    BY <2>4, <1>s DEF FailScan, FailScanRaises, Owns, StatusKept, hist
  <2>5. CASE Report(e)
    BY <2>5 DEF Report, StatusKept
  <2>6. CASE RequeueOnShutdown(e)
    BY <2>6, <1>s, <1>r, OwnerOps DEF RequeueOnShutdown, StatusKept, hist
  <2> QED
    BY <1>e, <2>1, <2>2, <2>3, <2>4, <2>5, <2>6 DEF Progress, Upset
<1>u. CASE UNCHANGED vars
  BY <1>u, <1>n DEF vars, hist
<1> QED
  BY <1>1, <1>2, <1>3, <1>4, <1>e, <1>u DEF Next, Api, Relay

\* A completed, completed_with_errors or cancelled scan keeps its status for
\* ever, whatever is redelivered, reaped, requeued, cancelled or finalized.
THEOREM SettledTheorem == Spec => SettledIsFinal
<1>1. TypeOK /\ [Next]_vars => [row.status \in Settled => row'.status = row.status]_vars
  BY StatusStep DEF StatusKept
<1> QED
  BY <1>1, TypeInit, TypeStep, PTL DEF Spec, SettledIsFinal

\* What ScanCompleted announced about a settled scan stays true.
THEOREM ReportsTheorem == Spec => []ReportsStayTrue
<1>1. Init => ReportsStayTrue
  BY DEF Init, ReportsStayTrue
<1>2. TypeOK /\ ReportsStayTrue /\ [Next]_vars => ReportsStayTrue'
  <2> SUFFICES ASSUME TypeOK, ReportsStayTrue, [Next]_vars PROVE ReportsStayTrue'
    OBVIOUS
  <2>1. StatusKept
    BY StatusStep
  <2>2. \A s \in reports : s \in Settled /\ row.status = s
    BY DEF TypeOK, ReportsStayTrue
  <2> QED
    BY <2>1, <2>2 DEF StatusKept, ReportsStayTrue
<1> QED
  BY <1>1, <1>2, TypeInit, TypeStep, PTL DEF Spec

-----------------------------------------------------------------------------
(* Failures.                                                               *)

\* An execution that will still claim, retry, dead-letter or fail.
Carries(x) ==
    \/ x.pc \in {"start", "expired"}
    \/ x.pc \in {"report", "end", "unhandled"} /\ x.exc # "ok"

\* An exception in flight is one.
ExcOK(x) == x.pc \in {"raise", "expired"} => x.exc # "ok"

\* FailureAccounted with what it needs: the flag is cleared by every claim, so
\* a scan that is reaped or aggregated to 'failed' is not taken for one that
\* raised; and who writes 'failed' after an exception still carries it.
AccInv ==
    /\ FailureAccounted
    /\ row.status = "running" => ~raised
    /\ \A e \in Executors : ExcOK(exec[e])

\* The failure that was accounted for still is.
Accounted == InHand \/ dlq \/ dropped \/ unrecorded

\* An executor moves on, and the row keeps its status: what it carried it
\* still carries, or has handed over.
LEMMA AccMove ==
    ASSUME TypeOK, AccInv, NEW e \in Executors, NEW r \in Execs,
           exec' = [exec EXCEPT ![e] = r], ExcOK(r),
           row'.status = row.status, raised' = raised,
           \A n \in Attempts : msgs[n] > 0 => Accounted',
           dlq \/ dropped \/ unrecorded => Accounted',
           Carries(exec[e]) => Carries(r) \/ dlq' \/ dropped' \/ unrecorded'
                                \/ \E n \in Attempts : msgs'[n] > 0
    PROVE  AccInv'
<1>1. /\ exec'[e] = r
      /\ \A f \in Executors : f # e => exec'[f] = exec[f]
  BY DEF TypeOK
<1>2. ASSUME NEW f \in Executors, Carries(exec[f]) PROVE Accounted'
  <2>1. CASE f = e
    BY <1>1, <1>2, <2>1 DEF Accounted, InHand, Carries
  <2>2. CASE f # e
    BY <1>1, <1>2, <2>2 DEF Accounted, InHand, Carries
  <2> QED
    BY <2>1, <2>2
<1>3. Accounted => Accounted'
  BY <1>2 DEF Accounted, InHand, Carries
<1>4. \A f \in Executors : ExcOK(exec[f])'
  BY <1>1 DEF AccInv, ExcOK
<1> QED
  BY <1>3, <1>4 DEF AccInv, FailureAccounted, Accounted

\* Nothing happens to the executions: more messages do no harm.
LEMMA AccRest ==
    ASSUME TypeOK, AccInv, UNCHANGED <<exec, raised, unrecorded>>,
           row'.status \in {row.status, "queued", "cancelled"},
           \A n \in Attempts : msgs[n] > 0 => msgs'[n] > 0,
           dlq \/ dropped => dlq' \/ dropped' \/ \E n \in Attempts : msgs'[n] > 0
    PROVE  AccInv'
<1>1. Accounted => Accounted'
  BY DEF Accounted, InHand
<1>2. \A e \in Executors : ExcOK(exec[e])'
  BY DEF AccInv, ExcOK
<1> QED
  BY <1>1, <1>2 DEF AccInv, FailureAccounted, Accounted

\* A published message is there, and so is every other one.
LEMMA EnqueuedMore ==
    ASSUME msgs \in [Attempts -> Nat], NEW k \in Attempts
    PROVE  Enqueued(k)[k] > 0 /\ \A n \in Attempts : msgs[n] > 0 => Enqueued(k)[n] > 0
BY DEF Enqueued

\* Every step keeps it.
LEMMA AccStep == TypeOK /\ TypeOK' /\ AccInv /\ [Next]_vars => AccInv'
<1> SUFFICES ASSUME TypeOK, TypeOK', AccInv, [Next]_vars PROVE AccInv'
  OBVIOUS
<1>r. row \in Rows /\ msgs \in [Attempts -> Nat] /\ exec \in [Executors -> Execs]
  BY DEF TypeOK
<1>q. 0 \in Attempts
  BY ExecAssumption DEF Attempts
<1>i. Idle \in Execs /\ ExcOK(Idle) /\ ~Carries(Idle) /\ Idle.pc = "idle"
  BY ExecAssumption DEF Idle, Execs, Pcs, Attempts, Outcomes, ExcOK, Carries
<1>l. /\ 0 \in 0 .. NumTools
      /\ \A n \in 0 .. NumTools : n > 0 => n - 1 \in 0 .. NumTools
  BY ExecAssumption
<1>1. CASE ApiSend \/ RelaySend
  BY <1>1, <1>r, <1>q, EnqueuedMore, AccRest DEF ApiSend, RelaySend, hist
<1>2. CASE ApiSendFails \/ ApiCrash \/ RelaySelect \/ RelayFails \/ UNCHANGED vars
  BY <1>2, AccRest DEF ApiSendFails, ApiCrash, RelaySelect, RelayFails, vars, hist
<1>3. CASE Replay
  BY <1>3, <1>r, <1>q, EnqueuedMore, AccRest DEF Replay, hist
<1>4. CASE DropEntry
  BY <1>4, AccRest DEF DropEntry
<1>5. CASE ApiStamp \/ RelayStamp
  <2>1. row'.status = row.status
    BY <1>5, <1>r DEF ApiStamp, RelayStamp, Rows
  <2> QED
    BY <1>5, <2>1, AccRest DEF ApiStamp, RelayStamp, hist
<1>6. CASE Tick
  BY <1>6, <1>r, OwnerOps, AccRest DEF Tick, hist
<1>7. CASE Reap
  <2>1. ~raised' /\ exec' = exec
    BY <1>7 DEF Reap, Silent, AccInv, hist
  <2> QED
    BY <2>1 DEF AccInv, FailureAccounted, ExcOK
<1>8. CASE Cancel
  <2>1. row'.status = "cancelled"
    BY <1>8, <1>r, OwnerOps DEF Cancel
  <2>2. \A e \in Executors : exec'[e] = exec[e] \/ exec'[e] = Idle
    BY <1>8 DEF Cancel
  <2>3. \A e \in Executors : ExcOK(exec[e])'
    BY <1>i, <2>2 DEF AccInv, ExcOK
  <2> QED
    BY <2>1, <2>3 DEF AccInv, FailureAccounted
<1>e. ASSUME NEW e \in Executors,
             Deliver(e) \/ Progress(e) \/ Heartbeat(e) \/ Upset(e) \/ RequeueOnShutdown(e)
      PROVE  AccInv'
  <2> DEFINE x == exec[e]
  <2>x. x \in Execs /\ ExcOK(x) /\ x.att \in Attempts
    BY <1>r DEF AccInv, Execs
  \* A step that only moves the executor.
  <2>m. ASSUME NEW r \in Execs, Goto(e, r), ExcOK(r), Carries(x) => Carries(r),
               UNCHANGED <<row, msgs, dlq, raised, dropped, unrecorded>>
        PROVE  AccInv'
    <3>1. Accounted' \/ ~(dlq \/ dropped \/ unrecorded)
      BY <2>m DEF Accounted
    <3>2. \A n \in Attempts : msgs[n] > 0 => Accounted'
      BY <2>m DEF Accounted, InHand
    <3> QED
      BY <2>m, <3>1, <3>2, AccMove DEF Goto
  \* A step that ends the execution and leaves a message.
  <2>k. ASSUME NEW k \in Attempts, Goto(e, Idle), msgs'[k] > 0, UNCHANGED <<row, raised>>
        PROVE  AccInv'
    <3>1. Accounted'
      BY <2>k DEF Accounted, InHand
    <3> QED
      BY <1>i, <2>k, <3>1, AccMove DEF Goto
  <2> HIDE DEF x
  <2>1. CASE Deliver(e)
    <3> DEFINE t == CHOOSE t \in FreshTokens : TRUE
    <3>1. PICK n \in Attempts : Goto(e, [Idle EXCEPT !.pc = "start", !.att = n, !.tok = t])
      BY <2>1 DEF Deliver
    <3>2. t \in Tokens
      BY <2>1 DEF Deliver, FreshTokens
    <3> HIDE DEF t
    <3> DEFINE r == [Idle EXCEPT !.pc = "start", !.att = n, !.tok = t]
    <3>3. r \in Execs /\ r.pc = "start"
      BY <1>i, <3>2 DEF Execs, Pcs
    <3> HIDE DEF r
    <3>4. exec' = [exec EXCEPT ![e] = r] /\ UNCHANGED <<row, raised>>
      BY <2>1, <3>1 DEF Deliver, Goto, hist, r
    <3>5. exec'[e] = r
      BY <1>r, <3>4
    <3>6. Accounted'
      BY <3>3, <3>5 DEF Accounted, InHand
    <3> QED
      BY <3>3, <3>4, <3>6, AccMove DEF ExcOK, Carries
  <2>2. CASE Claim(e)
    <3> DEFINE r == [x EXCEPT !.pc = "check", !.left = NumTools, !.stake = "claimed"]
    <3>1. r.pc = "check"
      BY <2>x DEF Execs
    <3>2. exec' = [exec EXCEPT ![e] = r] /\ raised' = FALSE
      BY <2>2 DEF Claim, Goto, x
    <3> HIDE DEF r
    <3>3. \A f \in Executors : exec'[f] = r \/ exec'[f] = exec[f]
      BY <1>r, <3>2
    <3>4. \A f \in Executors : ExcOK(exec[f])'
      BY <3>1, <3>3 DEF AccInv, ExcOK
    <3> QED
      BY <3>2, <3>4 DEF AccInv, FailureAccounted
  <2>3. CASE SkipNotClaimable(e)
    <3>1. row.status # "failed" /\ row' = row /\ raised' = raised /\ exec' = [exec EXCEPT ![e] = Idle]
      BY <2>3 DEF SkipNotClaimable, CanClaim, Claimable, Goto, hist
    <3>2. \A f \in Executors : exec'[f] = Idle \/ exec'[f] = exec[f]
      BY <1>r, <3>1
    <3>3. \A f \in Executors : ExcOK(exec[f])'
      BY <1>i, <3>2 DEF AccInv, ExcOK
    <3> QED
      BY <3>1, <3>3 DEF AccInv, FailureAccounted
  <2>4. CASE StopRevoked(e) \/ LoseFinalize(e) \/ Ack(e)
    <3>1. x.pc \in {"check", "gate", "final", "raise"} \/ (x.pc = "end" /\ x.exc = "ok")
      BY <2>4 DEF StopRevoked, LoseFinalize, Ack, x
    <3>2. ~Carries(x)
      BY <3>1 DEF Carries
    <3> QED
      BY <2>4, <1>i, <3>2, <2>m DEF StopRevoked, LoseFinalize, Ack, hist
  <2>5. CASE FinishTools(e)
    <3> DEFINE r == [x EXCEPT !.pc = "final", !.left = 0]
    <3>0. x.pc = "check"
      BY <2>5 DEF FinishTools, x
    <3>1. r \in Execs /\ r.pc = "final"
      BY <2>x, <1>l DEF Execs, Pcs
    <3>2. Goto(e, r) /\ UNCHANGED <<row, msgs, dlq, raised, dropped, unrecorded>>
      BY <2>5 DEF FinishTools, hist, x
    <3> HIDE DEF r
    <3> QED
      BY <3>0, <3>1, <3>2, <2>m DEF ExcOK, Carries
  <2>6. CASE SkipTool(e)
    <3> DEFINE r == [x EXCEPT !.left = @ - 1]
    <3>0. x.left > 0 /\ x.pc = "check"
      BY <2>6 DEF SkipTool, x
    <3>1. r \in Execs /\ r.pc = "check"
      BY <2>x, <3>0, <1>l DEF Execs
    <3>2. Goto(e, r) /\ UNCHANGED <<row, msgs, dlq, raised, dropped, unrecorded>>
      BY <2>6 DEF SkipTool, hist, x
    <3> HIDE DEF r
    <3> QED
      BY <3>0, <3>1, <3>2, <2>m DEF ExcOK, Carries
  <2>7. CASE BeginTool(e)
    <3> DEFINE r == [x EXCEPT !.pc = "gate", !.left = @ - 1]
    <3>0. x.left > 0 /\ x.pc = "check"
      BY <2>7 DEF BeginTool, x
    <3> DEFINE y == [x EXCEPT !.left = @ - 1]
    <3>a. y \in Execs
      BY <2>x, <3>0, <1>l DEF Execs
    <3>b. r = [y EXCEPT !.pc = "gate"]
      BY <2>x DEF Execs
    <3>1. r \in Execs /\ r.pc = "gate"
      <4> HIDE DEF r, y
      <4> QED
        BY <3>a, <3>b DEF Execs, Pcs
    <3>2. Goto(e, r) /\ UNCHANGED <<row, msgs, dlq, raised, dropped, unrecorded>>
      BY <2>7 DEF BeginTool, hist, x
    <3> HIDE DEF r
    <3> QED
      BY <3>0, <3>1, <3>2, <2>m DEF ExcOK, Carries
  <2>8. CASE LaunchTool(e)
    <3> DEFINE r == [x EXCEPT !.pc = "tool"]
    <3>1. r \in Execs /\ r.pc = "tool" /\ x.pc = "gate"
      BY <2>8, <2>x DEF LaunchTool, Execs, Pcs, x
    <3>2. Goto(e, r) /\ UNCHANGED <<row, msgs, dlq, raised, dropped, unrecorded>>
      BY <2>8 DEF LaunchTool, hist, x
    <3> HIDE DEF r
    <3> QED
      BY <3>1, <3>2, <2>m DEF ExcOK, Carries
  <2>9. CASE ToolEnds(e)
    <3>0. PICK st \in ToolStatuses : Goto(e, [exec[e] EXCEPT !.pc = "check", !.ran = @ \cup {st}])
      BY <2>9 DEF ToolEnds
    <3> DEFINE r == [x EXCEPT !.pc = "check", !.ran = @ \cup {st}]
    <3>1. r \in Execs /\ r.pc = "check" /\ x.pc = "tool"
      BY <2>9, <2>x DEF ToolEnds, Execs, Pcs, x
    <3>2. Goto(e, r) /\ UNCHANGED <<row, msgs, dlq, raised, dropped, unrecorded>>
      BY <2>9, <3>0 DEF ToolEnds, hist, x
    <3> HIDE DEF r
    <3> QED
      BY <3>1, <3>2, <2>m DEF ExcOK, Carries
  <2>10. CASE Raises(e)
    <3>0. PICK how \in Outcomes \ {"ok"} :
            Goto(e, [exec[e] EXCEPT !.pc = "raise", !.exc = how, !.left = 0, !.ran = {}])
      BY <2>10 DEF Raises
    <3> DEFINE r == [x EXCEPT !.pc = "raise", !.exc = how, !.left = 0, !.ran = {}]
    <3>3. x.pc \in {"check", "gate", "tool"}
      BY <2>10 DEF Raises, x
    <3>1. r \in Execs /\ r.pc = "raise" /\ r.exc # "ok"
      BY <2>x, <1>l DEF Execs, Pcs
    <3>2. Goto(e, r) /\ UNCHANGED <<row, msgs, dlq, raised, dropped, unrecorded>>
      BY <2>10, <3>0 DEF Raises, hist, x
    <3> HIDE DEF r
    <3> QED
      BY <3>3, <3>1, <3>2, <2>m DEF ExcOK, Carries
  <2>11. CASE Finalize(e)
    <3> DEFINE r == [x EXCEPT !.pc = "report", !.stake = "won", !.ran = {}]
    <3>1. r \in Execs /\ r.pc = "report"
      BY <2>x DEF Execs, Pcs
    <3>2. exec' = [exec EXCEPT ![e] = r] /\ row' = FinalizeRow(row, Aggregate(exec[e].ran))
          /\ raised' = raised /\ row.status = "running"
      BY <2>11 DEF Finalize, Goto, Owns, hist, x
    <3>3. ~raised' /\ row'.status # "running"
      BY <1>r, <3>2, OwnerOps, AggregateStatus DEF AccInv, Terminal
    <3> HIDE DEF r
    <3>4. \A f \in Executors : exec'[f] = r \/ exec'[f] = exec[f]
      BY <1>r, <3>2
    <3>5. \A f \in Executors : ExcOK(exec[f])'
      BY <3>1, <3>4 DEF AccInv, ExcOK
    <3> QED
      BY <3>3, <3>5 DEF AccInv, FailureAccounted
  <2>12. CASE FinalizeFailed(e)
    <3> DEFINE r == [x EXCEPT !.pc = "report", !.stake = "won"]
    <3>1. r \in Execs /\ r.pc = "report" /\ r.exc = x.exc /\ x.exc # "ok"
      BY <2>12, <2>x DEF FinalizeFailed, Execs, Pcs, ExcOK, x
    <3>2. exec' = [exec EXCEPT ![e] = r] /\ row' = FinalizeRow(row, "failed")
      BY <2>12 DEF FinalizeFailed, Goto, x
    <3> HIDE DEF r
    <3>3. exec'[e] = r /\ \A f \in Executors : exec'[f] = r \/ exec'[f] = exec[f]
      BY <1>r, <3>2
    <3>4. \A f \in Executors : ExcOK(exec[f])'
      BY <3>1, <3>3 DEF AccInv, ExcOK
    <3>5. InHand' /\ row'.status = "failed"
      BY <1>r, <3>1, <3>2, <3>3, OwnerOps DEF InHand
    <3> QED
      BY <3>4, <3>5 DEF AccInv, FailureAccounted
  <2>13. CASE Report(e)
    <3> DEFINE r == [x EXCEPT !.pc = "end"]
    <3>1. r \in Execs /\ r.pc = "end" /\ r.exc = x.exc /\ x.pc = "report"
      BY <2>13, <2>x DEF Report, Execs, Pcs, x
    <3>2. Goto(e, r) /\ UNCHANGED <<row, msgs, dlq, raised, dropped, unrecorded>>
      BY <2>13 DEF Report, x
    <3> HIDE DEF r
    <3> QED
      BY <3>1, <3>2, <2>m DEF ExcOK, Carries
  <2>14. CASE FailScan(e)
    <3> DEFINE r == [x EXCEPT !.pc = "end", !.stake = "won"]
               s == [x EXCEPT !.pc = "end"]
    <3>0. x.pc = "expired" /\ x.exc # "ok"
      BY <2>14, <2>x DEF FailScan, ExcOK, x
    <3>1. /\ r \in Execs /\ r.pc = "end" /\ r.exc = x.exc
          /\ s \in Execs /\ s.pc = "end" /\ s.exc = x.exc
      BY <2>x DEF Execs, Pcs
    <3>2. CASE Owns(row, exec[e].tok)
      <4>1. exec' = [exec EXCEPT ![e] = r] /\ row' = FinalizeRow(row, "failed")
        BY <2>14, <3>2 DEF FailScan, Goto, x
      <4> HIDE DEF r
      <4>2. exec'[e] = r /\ \A f \in Executors : exec'[f] = r \/ exec'[f] = exec[f]
        BY <1>r, <4>1
      <4>3. \A f \in Executors : ExcOK(exec[f])'
        BY <3>1, <4>2 DEF AccInv, ExcOK
      <4>4. InHand' /\ row'.status = "failed"
        BY <1>r, <3>0, <3>1, <4>1, <4>2, OwnerOps DEF InHand
      <4> QED
        BY <4>3, <4>4 DEF AccInv, FailureAccounted
    <3>3. CASE ~Owns(row, exec[e].tok)
      <4>1. Goto(e, s) /\ UNCHANGED <<row, msgs, dlq, raised, dropped, unrecorded>>
        BY <2>14, <3>3 DEF FailScan, x
      <4> HIDE DEF s, r
      <4> QED
        BY <3>0, <3>1, <4>1, <2>m DEF ExcOK, Carries
    <3> QED
      BY <3>2, <3>3
  <2>15. CASE Retry(e)
    <3>1. x.att + 1 \in Attempts /\ msgs' = Enqueued(x.att + 1)
      BY <2>15, <2>x, ExecAssumption DEF Retry, WillRetry, Attempts, x
    <3> QED
      BY <2>15, <1>r, <3>1, <2>k, EnqueuedMore DEF Retry, hist
  <2>16. CASE DeadLetter(e)
    <3>1. (dlq' = TRUE \/ dropped' = TRUE) /\ Goto(e, Idle) /\ UNCHANGED <<row, raised>>
      BY <2>16 DEF DeadLetter
    <3>2. Accounted'
      BY <3>1 DEF Accounted
    <3> QED
      BY <1>i, <3>1, <3>2, AccMove DEF Goto
  <2>17. CASE Sigkill(e)
    <3>1. msgs' = Enqueued(x.att)
      BY <2>17 DEF Sigkill, x
    <3> QED
      BY <2>17, <1>r, <2>x, <3>1, <2>k, EnqueuedMore DEF Sigkill, hist
  <2>18. CASE Crash(e)
    <3>1. msgs'[x.att] > 0
      <4>1. CASE msgs' = Enqueued(x.att)
        BY <1>r, <2>x, <4>1, EnqueuedMore
      <4>2. CASE msgs' = [Enqueued(x.att) EXCEPT ![x.att + 1] = @ + 1]
        <5>1. x.att + 1 # x.att /\ Enqueued(x.att) \in [Attempts -> Nat]
          BY <1>r, <2>x, EnqueuedType, ExecAssumption, SMTT(30) DEF Attempts
        <5>2. msgs'[x.att] = Enqueued(x.att)[x.att]
          BY <2>x, <4>2, <5>1
        <5> QED
          BY <1>r, <2>x, <5>2, EnqueuedMore
      <4> QED
        BY <2>18, <4>1, <4>2 DEF Crash, WillRetry, x
    <3> QED
      BY <2>18, <2>x, <3>1, <2>k DEF Crash, hist
  <2>19. CASE Redeliver(e)
    BY <2>19, <1>r, <2>x, EnqueuedMore, AccRest DEF Redeliver, hist, x
  <2>20. CASE Sigterm(e) \/ WorkerExits(e) \/ Heartbeat(e)
    <3>1. row'.status = row.status
      BY <2>20, <1>r, OwnerOps DEF Sigterm, WorkerExits, Heartbeat
    <3> QED
      BY <2>20, <3>1, AccRest DEF Sigterm, WorkerExits, Heartbeat, hist
  <2>21. CASE RequeueOnShutdown(e)
    <3>1. row'.status = row.status \/ row'.status = "queued"
      BY <2>21, <1>r, OwnerOps DEF RequeueOnShutdown
    <3> QED
      BY <2>21, <3>1, AccRest DEF RequeueOnShutdown, hist
  <2>22. CASE DbFault(e)
    <3> DEFINE r == [x EXCEPT !.pc = "end", !.exc = "transient", !.ran = {}]
    <3>1. r \in Execs /\ r.pc = "end" /\ r.exc = "transient"
      BY <2>x DEF Execs, Pcs, Outcomes
    <3>2. Goto(e, r) /\ UNCHANGED <<row, msgs, dlq, raised, dropped, unrecorded>>
      BY <2>22 DEF DbFault, hist, x
    <3> HIDE DEF r
    <3> QED
      BY <3>1, <3>2, <2>m DEF ExcOK, Carries
  <2>23. CASE SoftTimeout(e)
    <3> DEFINE r == [x EXCEPT !.pc = "expired", !.exc = "timeout", !.left = 0, !.ran = {}]
    <3>1. r \in Execs /\ r.pc = "expired" /\ r.exc = "timeout"
      BY <2>x, <1>l DEF Execs, Pcs, Outcomes
    <3>2. Goto(e, r) /\ UNCHANGED <<row, msgs, dlq, raised, dropped, unrecorded>>
      BY <2>23 DEF SoftTimeout, hist, x
    <3> HIDE DEF r
    <3> QED
      BY <3>1, <3>2, <2>m DEF ExcOK, Carries
  <2>24. CASE FailScanRaises(e)
    <3>1. PICK how \in {"transient", "permanent"} :
             \/ /\ Goto(e, [x EXCEPT !.pc = "unhandled", !.exc = how])
                /\ UNCHANGED <<row, raised>>
             \/ /\ row' = FinalizeRow(row, "failed")
                /\ Goto(e, [x EXCEPT !.pc = "unhandled", !.exc = how, !.stake = "won"])
      BY <2>24 DEF FailScanRaises, x
    <3>2. x.pc = "expired" /\ UNCHANGED <<msgs, dlq, dropped, unrecorded>>
      BY <2>24 DEF FailScanRaises, x
    <3> DEFINE r == [x EXCEPT !.pc = "unhandled", !.exc = how]
               w == [x EXCEPT !.pc = "unhandled", !.exc = how, !.stake = "won"]
    <3>3. /\ r \in Execs /\ r.pc = "unhandled" /\ r.exc # "ok"
          /\ w \in Execs /\ w.pc = "unhandled" /\ w.exc # "ok"
      BY <2>x DEF Execs, Pcs, Outcomes
    <3> HIDE DEF r, w
    <3>4. CASE Goto(e, r) /\ UNCHANGED <<row, raised>>
      BY <3>2, <3>3, <3>4, <2>m DEF ExcOK, Carries
    <3>5. CASE Goto(e, w) /\ row' = FinalizeRow(row, "failed")
      <4>1. exec'[e] = w /\ \A f \in Executors : exec'[f] = w \/ exec'[f] = exec[f]
        BY <1>r, <3>5 DEF Goto
      <4>2. \A f \in Executors : ExcOK(exec[f])'
        BY <3>3, <4>1 DEF AccInv, ExcOK
      <4>3. InHand' /\ row'.status = "failed"
        BY <1>r, <3>3, <3>5, <4>1, OwnerOps DEF InHand
      <4> QED
        BY <4>2, <4>3 DEF AccInv, FailureAccounted
    <3> QED
      BY <3>1, <3>4, <3>5 DEF r, w
  <2>25. CASE AckUnrecorded(e)
    <3>1. unrecorded' = TRUE /\ Goto(e, Idle) /\ UNCHANGED <<row, raised>>
      BY <2>25 DEF AckUnrecorded
    <3>2. Accounted'
      BY <3>1 DEF Accounted
    <3> QED
      BY <1>i, <3>1, <3>2, AccMove DEF Goto
  <2> QED
    BY <1>e, <2>1, <2>2, <2>3, <2>4, <2>5, <2>6, <2>7, <2>8, <2>9, <2>10, <2>11, <2>12, <2>13, <2>14,
       <2>15, <2>16, <2>17, <2>18, <2>19, <2>20, <2>21, <2>22, <2>23, <2>24, <2>25 DEF Progress, Upset
<1> QED
  BY <1>1, <1>2, <1>3, <1>4, <1>5, <1>6, <1>7, <1>8, <1>e DEF Next, Api, Relay

\* A scan that failed by an exception or the soft time limit is forgotten
\* only where the soft-timeout handler itself raises on what is then the last
\* attempt, whichever workers die, messages repeat and faults strike.
THEOREM AccountedTheorem == Spec => []FailureAccounted
<1>1. ASSUME Init PROVE AccInv
  <2>1. \A e \in Executors : exec[e].pc = "idle"
    BY <1>1 DEF Init, Idle
  <2>2. row.status = "queued" /\ raised = FALSE
    BY <1>1 DEF Init, NewRow
  <2> QED
    BY <2>1, <2>2 DEF AccInv, FailureAccounted, ExcOK
<1>2. AccInv => FailureAccounted
  BY DEF AccInv
<1> QED
  BY <1>1, <1>2, TypeInit, TypeStep, AccStep, PTL DEF Spec

=============================================================================
