------------------------ MODULE LeaseExecutionProofs ------------------------
(***************************************************************************)
(* Theorems about LeaseExecution for every number of workers, executions,  *)
(* tools and faults and for every value of the thresholds.                 *)
(***************************************************************************)
EXTENDS LeaseExecution, ScanRowProofs, TLAPS

-----------------------------------------------------------------------------
(* The inductive invariant                                                 *)

\* Where a worker may be with which fields: a token from the lease on, a tool
\* and its status around a tool, a terminal verdict at the end.
Shape(x) ==
    /\ x.pc \in {"idle", "asked"} <=> x.tok = None
    /\ x.pc = "complete" => x.st \in Terminal
    /\ x.pc \in Kinds \cup {"tool"} => x.st \in ToolStatuses /\ x.tool \in Tools
    /\ x.wait => x.pc \in Kinds

Shapes == \A w \in Workers : Shape(wk[w])

\* The row holds a token exactly while it is running, the one minted last;
\* every token in use was minted, and two workers never hold the same one.
Tokens ==
    /\ row.token # None <=> row.status = "running"
    /\ row.token # None => row.token = minted
    /\ \A w \in Workers : wk[w].tok # None => wk[w].tok <= minted
    /\ \A v, w \in Workers : wk[v].tok # None /\ wk[v].tok = wk[w].tok => v = w
    /\ \A t \in winners : t <= minted
    /\ \A r \in reqs : r.tok <= minted
    /\ \A t \in Executions : t > minted => \A k \in Tools : runs[t][k] = "absent"

\* Tool k of execution t has left nothing on record nor on its way.
Untouched(t, k) == /\ runs[t][k] = "absent"
                   /\ \A r \in reqs : ~(r.tok = t /\ r.tool = k)

\* It is on record as completed or not at all, and nothing that is on its way
\* can change that: no result, and a late announcement only of a known run.
Clean(t, k) ==
    /\ runs[t][k] \in {"absent", "completed"}
    /\ \A r \in reqs : r.tok = t /\ r.tool = k =>
          /\ r.kind # "result"
          /\ r.kind = "started" => runs[t][k] = "completed"

\* What the records say of the execution that owns the scan.  The tools it has
\* not come to are untouched; those behind it are clean as long as it has
\* neither seen nor lost a result that is not; the tool it is at has no
\* outcome but the one it is sending; and a clean verdict was earned.
Backed(w) ==
    LET x == wk[w] IN
    x.tok # None /\ row.token = x.tok =>
      /\ x.pc \notin {"idle", "asked", "complete"} =>
            /\ \A k \in Tools : k > x.tool => Untouched(x.tok, k)
            /\ x.ran \subseteq {"completed"} /\ ~x.lost =>
                  \A k \in Tools :
                      k < x.tool \/ (k = x.tool /\ x.pc \in {"leased", "probe"}) => Clean(x.tok, k)
      /\ x.pc \in Kinds \cup {"tool"} =>
            /\ runs[x.tok][x.tool] \in {"absent", "running"}
            /\ \A r \in reqs : r.tok = x.tok /\ r.tool = x.tool /\ r.kind = "result" =>
                  x.wait /\ Sent(r) = RequestOf(w)
      /\ x.pc = "complete" /\ x.st = "completed" => \A k \in Tools : Clean(x.tok, k)

\* The same of a scan that has completed.
CompletedBacked ==
    row.status = "completed" => minted \in winners /\ \A k \in Tools : Clean(minted, k)

RecordInv == (\A w \in Workers : Backed(w)) /\ CompletedBacked

\* A tool run is reported by one result, so that what the result has seen can
\* only be overtaken by the reconciler: a run seen running still runs or is on
\* record as failed, and one seen to have ended stays ended.
Reports ==
    \A r \in reqs : r.kind = "result" =>
        /\ \A q \in reqs : q.kind = "result" /\ q.tok = r.tok /\ q.tool = r.tool => q = r
        /\ r.saw = "running" => runs[r.tok][r.tool] \in {"running", "failed"}
        /\ r.saw = "ended" => runs[r.tok][r.tool] \in ToolStatuses

-----------------------------------------------------------------------------
(* What a worker becomes                                                   *)

\* An idle worker.
LEMMA IdleOK == Idle \in WorkerStates /\ Shape(Idle)
BY LeaseAssumption DEF Idle, WorkerStates, Pcs, Kinds, ToolStatuses, Terminal, Shape, None

\* The verdict of a pipeline is a terminal status, and a clean one is earned.
LEMMA VerdictOK ==
    ASSUME NEW ran \in SUBSET ToolStatuses, NEW lost \in BOOLEAN
    PROVE  /\ Verdict(ran, lost) \in Terminal
           /\ Verdict(ran, lost) = "completed" => ran \subseteq {"completed"} /\ ~lost
BY DEF Verdict, Aggregate, Terminal, ToolStatuses

\* What a worker makes of the outcome of a POST.
LEMMA AfterOK ==
    ASSUME NEW x \in WorkerStates, Shape(x), x.pc \in Kinds,
           NEW outcome \in {"ok", "lost", "refused"}
    PROVE  /\ After(x, outcome) \in WorkerStates /\ Shape(After(x, outcome))
           /\ After(x, outcome).tok = x.tok /\ After(x, outcome).tool = x.tool
           /\ ~After(x, outcome).wait
           /\ x.pc = "started" => /\ After(x, outcome).pc = "tool"
                                  /\ After(x, outcome).ran = x.ran /\ After(x, outcome).lost = x.lost
           /\ x.pc = "evidence" => /\ After(x, outcome).pc = "result"
                                   /\ After(x, outcome).ran = x.ran /\ After(x, outcome).lost = x.lost
           /\ x.pc = "result" => /\ After(x, outcome).pc = "probe"
                                 /\ After(x, outcome).ran = x.ran \cup {x.st}
                                 /\ After(x, outcome).lost = (x.lost \/ outcome # "ok")
<1> DEFINE y == [x EXCEPT !.wait = FALSE, !.refused = @ \/ outcome = "refused"]
<1>y. /\ y \in WorkerStates /\ y.tok = x.tok /\ y.tool = x.tool /\ y.wait = FALSE
      /\ y.st = x.st /\ y.ran = x.ran /\ y.lost = x.lost /\ y.pc = x.pc
  BY DEF WorkerStates
<1>s. x.st \in ToolStatuses /\ x.tool \in Tools /\ x.tok # None
  BY DEF Shape, Kinds
<1> HIDE DEF y
<1>1. CASE x.pc = "started"
  <2>1. After(x, outcome) = [y EXCEPT !.pc = "tool"]
    BY <1>1 DEF After, y
  <2> QED
    BY <1>1, <2>1, <1>y, <1>s DEF WorkerStates, Shape, Pcs, Kinds
<1>2. CASE x.pc = "evidence"
  <2> DEFINE st == IF outcome = "lost" /\ y.st = "completed" THEN "partial" ELSE y.st
  <2>1. After(x, outcome) = [y EXCEPT !.pc = "result", !.st = st]
    BY <1>2 DEF After, y
  <2>2. st \in ToolStatuses
    BY <1>y, <1>s DEF ToolStatuses
  <2> HIDE DEF st
  <2> QED
    BY <1>2, <2>1, <2>2, <1>y, <1>s DEF WorkerStates, Shape, Pcs, Kinds
<1>3. CASE x.pc = "result"
  <2> DEFINE l == x.lost \/ outcome # "ok"
             ran == x.ran \cup {x.st}
  <2>1. After(x, outcome) = [y EXCEPT !.pc = "probe", !.st = "failed", !.ran = ran, !.lost = l]
    BY <1>3, <1>y DEF After, y
  <2>2. l \in BOOLEAN /\ ran \in SUBSET ToolStatuses
    BY <1>s DEF WorkerStates
  <2>3. After(x, outcome).lost = l /\ After(x, outcome).ran = ran
    BY <2>1, <1>y DEF WorkerStates
  <2>4. l = (x.lost \/ outcome # "ok") /\ ran = x.ran \cup {x.st}
    OBVIOUS
  <2> HIDE DEF l, ran
  <2>5. /\ After(x, outcome) \in WorkerStates /\ After(x, outcome).tok = x.tok
        /\ After(x, outcome).tool = x.tool /\ After(x, outcome).wait = FALSE
        /\ After(x, outcome).pc = "probe"
    BY <2>1, <2>2, <1>y DEF WorkerStates, Pcs, ToolStatuses
  <2>6. Shape(After(x, outcome))
    BY <1>s, <2>5 DEF Shape, Kinds
  <2> QED
    BY <1>3, <2>3, <2>4, <2>5, <2>6
<1> QED
  BY <1>1, <1>2, <1>3 DEF Kinds

\* Moving one worker.
LEMMA GotoOK ==
    ASSUME TypeOK, Shapes, NEW w \in Workers, NEW x \in WorkerStates, Shape(x), Goto(w, x)
    PROVE  /\ wk' \in [Workers -> WorkerStates] /\ Shapes'
           /\ wk'[w] = x /\ \A v \in Workers : v # w => wk'[v] = wk[v]
<1>1. wk' \in [Workers -> WorkerStates] /\ wk'[w] = x /\ \A v \in Workers : v # w => wk'[v] = wk[v]
  BY DEF TypeOK, Goto
<1> QED
  BY <1>1 DEF Shapes

\* The POST a worker is at is a request.
LEMMA RequestOK ==
    ASSUME TypeOK, Shapes, NEW w \in Workers, wk[w].pc \in Kinds
    PROVE  RequestOf(w) \in Requests
<1>1. wk[w] \in WorkerStates /\ Shape(wk[w])
  BY DEF TypeOK, Shapes
<1>2. wk[w].tok \in Executions /\ wk[w].tool \in Tools /\ wk[w].st \in ToolStatuses
  BY <1>1 DEF WorkerStates, Shape, Kinds
<1> QED
  BY <1>2 DEF RequestOf, Requests, ToolStatuses, Sights

(***************************************************************************)
(* The moves of one worker that touch nothing but the worker (and the      *)
(* fault counter): what it becomes, with the fields the invariant is about.*)
(***************************************************************************)
Moves(w, x) ==
    /\ Goto(w, x) /\ x \in WorkerStates /\ Shape(x)
    /\ UNCHANGED <<db, reqs, minted, hist>>
    /\ open' \in BOOLEAN /\ faults' \in Nat
    /\ x.tok \in {wk[w].tok, None}

\* Giving up, by whatever cause.
Quits(w) == \E x : Moves(w, x) /\ (x.pc \in {"idle", "asked"} \/ (x.pc = "complete" /\ x.st = "failed"))

\* Starting, skipping, entering or leaving a tool, or ending the loop.
Advances(w) ==
    \E x : /\ Moves(w, x) /\ x.tok = wk[w].tok
           /\ \/ /\ wk[w].pc = "leased" /\ x.pc = "probe"
                 /\ x.tool = wk[w].tool /\ x.ran = wk[w].ran /\ x.lost = wk[w].lost
              \/ /\ wk[w].pc = "probe" /\ x.pc \in {"probe", "started"}
                 /\ x.tool = wk[w].tool + 1 /\ x.ran = wk[w].ran /\ x.lost = wk[w].lost
              \/ /\ wk[w].pc = "tool" /\ x.pc \in {"evidence", "result"}
                 /\ x.tool = wk[w].tool /\ x.ran = wk[w].ran /\ x.lost = wk[w].lost
              \/ /\ wk[w].pc = "probe" /\ x.pc = "complete"
                 /\ x.st = "completed" => wk[w].ran \subseteq {"completed"} /\ ~wk[w].lost
              \/ /\ wk[w].pc \in Kinds
                 /\ \E outcome \in {"lost", "refused"} : x = After(wk[w], outcome)

\* Every step of a worker that writes no table is one of these.
LEMMA LocalSteps ==
    ASSUME TypeOK, Shapes, NEW w \in Workers,
           \/ LeaseSelect(w) \/ LeaseEmpty(w) \/ Begin(w) \/ RefuseJob(w) \/ Interrupt(w)
           \/ FinishTools(w) \/ SkipTool(w) \/ NextTool(w) \/ ToolEnds(w)
           \/ PostRefused(w) \/ PostLost(w) \/ CompleteRefused(w) \/ CompleteLost(w) \/ Die(w)
    PROVE  Quits(w) \/ Advances(w)
<1> DEFINE y == wk[w]
<1>y. y \in WorkerStates /\ Shape(y)
  BY DEF TypeOK, Shapes
<1>f. /\ UNCHANGED open => open' \in BOOLEAN
      /\ UNCHANGED faults => faults' \in Nat
      /\ Fault => faults' \in Nat
  BY DEF TypeOK, Fault
<1>i. Idle \in WorkerStates /\ Shape(Idle) /\ Idle.tok = None /\ Idle.pc = "idle"
  BY IdleOK DEF Idle
<1>a. y.pc \notin {"idle", "asked"} =>
         /\ Aborted(y) \in WorkerStates /\ Shape(Aborted(y)) /\ Aborted(y).tok = y.tok
         /\ Aborted(y).pc = "complete" /\ Aborted(y).st = "failed"
  BY <1>y, IdleOK DEF Aborted, WorkerStates, Shape, Pcs, Kinds, Idle, Terminal
<1> HIDE DEF y
<1>1. CASE LeaseSelect(w)
  <2> DEFINE x == [Idle EXCEPT !.pc = "asked"]
  <2>1. x \in WorkerStates /\ Shape(x) /\ x.tok = None /\ x.pc = "asked"
    BY IdleOK DEF WorkerStates, Shape, Pcs, Kinds, Idle, None
  <2>2. Goto(w, x)
    BY <1>1 DEF LeaseSelect
  <2> HIDE DEF x
  <2>3. Moves(w, x)
    BY <1>1, <2>1, <2>2, <1>f DEF LeaseSelect, Moves
  <2> QED
    BY <2>1, <2>3 DEF Quits
<1>2. CASE LeaseEmpty(w) \/ CompleteRefused(w)
  <2>1. Moves(w, Idle)
    BY <1>2, <1>i, <1>f DEF LeaseEmpty, CompleteRefused, Moves
  <2> QED
    BY <2>1, <1>i DEF Quits
<1>3. CASE CompleteLost(w) \/ Die(w)
  <2>1. Moves(w, Idle)
    BY <1>3, <1>i, <1>f DEF CompleteLost, Die, Moves
  <2> QED
    BY <2>1, <1>i DEF Quits
<1>4. CASE RefuseJob(w) \/ Interrupt(w)
  <2>1. Moves(w, Aborted(y))
    BY <1>4, <1>a, <1>f DEF RefuseJob, Interrupt, Moves, y, Kinds
  <2>2. Aborted(y).pc = "complete" /\ Aborted(y).st = "failed"
    BY <1>4, <1>a DEF RefuseJob, Interrupt, y, Kinds
  <2> QED
    BY <2>1, <2>2 DEF Quits
<1>5. CASE Begin(w)
  <2> DEFINE x == [y EXCEPT !.pc = "probe"]
  <2>1. /\ x \in WorkerStates /\ x.pc = "probe" /\ x.tool = y.tool /\ x.ran = y.ran
        /\ x.lost = y.lost /\ x.tok = y.tok /\ x.wait = y.wait
    BY <1>y DEF WorkerStates, Pcs
  <2>2. Shape(x)
    BY <1>5, <1>y, <2>1 DEF Begin, Shape, Kinds, y
  <2>3. Moves(w, x)
    BY <1>5, <2>1, <2>2, <1>f DEF Begin, Moves, y
  <2> QED
    BY <1>5, <2>1, <2>3 DEF Begin, Advances, y
<1>6. CASE FinishTools(w)
  <2> DEFINE v == Verdict(y.ran, y.lost)
             rf == y.refused \/ y.tool < NumTools
             x == [y EXCEPT !.pc = "complete", !.tool = 0, !.ran = {}, !.lost = FALSE, !.st = v,
                            !.refused = rf]
  <2>0. v \in Terminal /\ (v = "completed" => y.ran \subseteq {"completed"} /\ ~y.lost)
    BY <1>y, VerdictOK DEF WorkerStates
  <2>r. rf \in BOOLEAN /\ 0 \in 0 .. NumTools
    BY LeaseAssumption
  <2> HIDE DEF v, rf
  <2>1. /\ x \in WorkerStates /\ x.pc = "complete" /\ x.st = v /\ x.tok = y.tok /\ x.wait = y.wait
    BY <1>y, <2>0, <2>r DEF WorkerStates, Pcs
  <2>2. Shape(x)
    BY <1>6, <1>y, <2>0, <2>1 DEF FinishTools, Shape, Kinds, y
  <2>3. Goto(w, x)
    BY <1>6, <1>y DEF FinishTools, y, v, rf, WorkerStates
  <2> HIDE DEF x
  <2>4. Moves(w, x)
    BY <1>6, <2>1, <2>2, <2>3, <1>f DEF FinishTools, Moves, y
  <2> QED
    BY <1>6, <2>0, <2>1, <2>4 DEF FinishTools, Advances, y
<1>7. CASE SkipTool(w)
  <2> DEFINE x == [y EXCEPT !.tool = @ + 1]
  <2>0. y.pc = "probe" /\ y.tool < NumTools /\ faults' \in Nat
    BY <1>7, <1>f DEF SkipTool, GoesOn, y
  <2>1. /\ x \in WorkerStates /\ x.pc = "probe" /\ x.tool = y.tool + 1 /\ x.ran = y.ran
        /\ x.lost = y.lost /\ x.tok = y.tok /\ x.wait = y.wait
    BY <1>y, <2>0, LeaseAssumption DEF WorkerStates
  <2>2. Shape(x)
    BY <1>y, <2>0, <2>1 DEF Shape, Kinds
  <2>3. Moves(w, x)
    BY <1>7, <2>0, <2>1, <2>2, <1>f DEF SkipTool, Moves, y
  <2> QED
    BY <2>0, <2>1, <2>3 DEF Advances, y
<1>8. CASE NextTool(w)
  <2> DEFINE x == [y EXCEPT !.pc = "started", !.tool = @ + 1, !.st = "failed"]
  <2>0. y.pc = "probe" /\ y.tool < NumTools /\ faults' \in Nat
    BY <1>8, <1>f DEF NextTool, GoesOn, y
  <2>1. /\ x \in WorkerStates /\ x.pc = "started" /\ x.tool = y.tool + 1 /\ x.ran = y.ran
        /\ x.lost = y.lost /\ x.tok = y.tok /\ x.wait = y.wait /\ x.st = "failed"
        /\ x.tool \in Tools
    <3>1. y.tool + 1 \in 0 .. NumTools /\ y.tool + 1 \in Tools
      BY <1>y, <2>0, LeaseAssumption DEF WorkerStates, Tools
    <3> QED
      BY <1>y, <3>1 DEF WorkerStates, Kinds, ToolStatuses
  <2>2. Shape(x)
    BY <1>y, <2>0, <2>1 DEF Shape, Kinds, ToolStatuses
  <2>3. Moves(w, x)
    BY <1>8, <2>0, <2>1, <2>2, <1>f DEF NextTool, Moves, y
  <2> QED
    BY <2>0, <2>1, <2>3 DEF Advances, y
<1>9. CASE ToolEnds(w)
  <2>0. PICK st \in ToolStatuses, next \in {"evidence", "result"} :
           Goto(w, [y EXCEPT !.pc = next, !.st = st])
    BY <1>9 DEF ToolEnds, y
  <2> DEFINE x == [y EXCEPT !.pc = next, !.st = st]
  <2>1. /\ x \in WorkerStates /\ x.pc = next /\ x.tool = y.tool /\ x.ran = y.ran
        /\ x.lost = y.lost /\ x.tok = y.tok /\ x.wait = y.wait /\ x.st = st
    BY <1>y DEF WorkerStates, Kinds
  <2>2. Shape(x)
    BY <1>9, <1>y, <2>1 DEF ToolEnds, Shape, Kinds, y
  <2>3. Moves(w, x)
    BY <1>9, <2>0, <2>1, <2>2, <1>f DEF ToolEnds, Moves, y
  <2> QED
    BY <1>9, <2>1, <2>3 DEF ToolEnds, Advances, y
<1>10. CASE PostRefused(w)
  <2>1. y.pc \in Kinds
    BY <1>10 DEF PostRefused, Sending, y
  <2>2. /\ After(y, "refused") \in WorkerStates /\ Shape(After(y, "refused"))
        /\ After(y, "refused").tok = y.tok
    BY <2>1, <1>y, AfterOK
  <2>3. Moves(w, After(y, "refused"))
    BY <1>10, <2>2, <1>f DEF PostRefused, Moves, y
  <2> QED
    BY <2>1, <2>2, <2>3 DEF Advances, y
<1>11. CASE PostLost(w)
  <2>1. y.pc \in Kinds
    BY <1>11 DEF PostLost, y
  <2>2. /\ After(y, "lost") \in WorkerStates /\ Shape(After(y, "lost"))
        /\ After(y, "lost").tok = y.tok
    BY <2>1, <1>y, AfterOK
  <2>3. Moves(w, After(y, "lost"))
    BY <1>11, <2>2, <1>f DEF PostLost, Moves, y
  <2> QED
    BY <2>1, <2>2, <2>3 DEF Advances, y
<1> QED
  BY <1>1, <1>2, <1>3, <1>4, <1>5, <1>6, <1>7, <1>8, <1>9, <1>10, <1>11

-----------------------------------------------------------------------------
(* The steps that write tables                                             *)

\* A worker that moves leaves every variable in its type.
LEMMA MovesOK ==
    ASSUME TypeOK, Shapes, NEW w \in Workers, NEW x, Moves(w, x)
    PROVE  /\ TypeOK' /\ Shapes'
           /\ wk'[w] = x /\ \A v \in Workers : v # w => wk'[v] = wk[v]
           /\ row' = row /\ runs' = runs /\ reqs' = reqs /\ minted' = minted /\ winners' = winners
<1>1. /\ wk' \in [Workers -> WorkerStates] /\ Shapes'
      /\ wk'[w] = x /\ \A v \in Workers : v # w => wk'[v] = wk[v]
  BY GotoOK DEF Moves
<1>2. UNCHANGED <<db, reqs, minted, hist>> /\ open' \in BOOLEAN /\ faults' \in Nat
  BY DEF Moves
<1>3. TypeOK'
  BY <1>1, <1>2 DEF TypeOK, db, hist
<1> QED
  BY <1>1, <1>2, <1>3 DEF db, hist

\* What a worker has of a POST that is stored: nothing, unless it waits for it;
\* a failed commit, after which it sends it again; or its outcome.
Unanswered(w, r) == wk'[w] = wk[w] /\ ~(wk[w].wait /\ RequestOf(w) = Sent(r))
Waits(w, r) ==
    wk[w].wait /\ RequestOf(w) = Sent(r) /\ wk[w].pc = r.kind /\ wk[w].pc \in Kinds
Retries(w, r) == Waits(w, r) /\ Clash(r) /\ wk'[w] = [wk[w] EXCEPT !.wait = FALSE]
Answered(w, r) ==
    /\ Waits(w, r) /\ ~Clash(r)
    /\ \E outcome \in {"ok", "lost"} :
          /\ r.kind # "evidence" => outcome = "ok"
          /\ wk'[w] = After(wk[w], outcome)

\* What storing a POST does: one tool run is advanced, and a worker that waits
\* for the answer has it.
LEMMA StoreOK ==
    ASSUME TypeOK, Shapes, NEW r \in reqs, Store(r)
    PROVE  /\ TypeOK' /\ Shapes'
           /\ row' = row /\ minted' = minted /\ winners' = winners /\ reqs' = reqs \ {r}
           /\ \A t \in Executions, k \in Tools : ~(t = r.tok /\ k = r.tool) => runs'[t][k] = runs[t][k]
           /\ r.kind = "started" => runs'[r.tok][r.tool] = Opened(runs[r.tok][r.tool])
           /\ r.kind = "evidence" => runs'[r.tok][r.tool] = runs[r.tok][r.tool]
           /\ r.kind = "result" => runs'[r.tok][r.tool] = Record(r, runs[r.tok][r.tool])
           /\ \A w \in Workers : Unanswered(w, r) \/ Retries(w, r) \/ Answered(w, r)
<1>r. r \in Requests /\ r.tok \in Executions /\ r.tool \in Tools /\ r.kind \in Kinds /\ r.st \in ToolStatuses
  BY DEF TypeOK, Requests
<1>t. runs \in [Executions -> [Tools -> RunStatuses]]
  BY DEF TypeOK
<1> DEFINE old == runs[r.tok][r.tool]
           new == CASE r.kind = "started" -> Opened(old)
                    [] r.kind = "result" -> Record(r, old)
                    [] OTHER -> old
<1>o. old \in RunStatuses
  BY <1>r, <1>t
<1>n. /\ r.kind = "started" => new = Opened(old)
      /\ r.kind = "evidence" => new = old
      /\ r.kind = "result" => new = Record(r, old)
  OBVIOUS
<1> HIDE DEF new, old
<1>m. new \in RunStatuses
  BY <1>r, <1>o, <1>n DEF Opened, Record, RunStatuses, ToolStatuses, Kinds
<1>1. runs' = [runs EXCEPT ![r.tok][r.tool] = new]
  BY <1>r, <1>t DEF Store, new, old
<1>2. /\ runs' \in [Executions -> [Tools -> RunStatuses]]
      /\ runs'[r.tok][r.tool] = new
      /\ \A t \in Executions, k \in Tools : ~(t = r.tok /\ k = r.tool) => runs'[t][k] = runs[t][k]
  BY <1>1, <1>r, <1>t, <1>m
<1>4. ASSUME NEW w \in Workers
      PROVE  /\ wk'[w] \in WorkerStates /\ Shape(wk'[w])
             /\ Unanswered(w, r) \/ Retries(w, r) \/ Answered(w, r)
  <2> DEFINE o == IF r.kind = "evidence" => HasRun(r) THEN "ok" ELSE "lost"
             awaited == wk[w].wait /\ RequestOf(w) = Sent(r)
  <2>1. wk'[w] = IF ~awaited THEN wk[w]
                 ELSE IF Clash(r) THEN [wk[w] EXCEPT !.wait = FALSE] ELSE After(wk[w], o)
    BY DEF Store
  <2>2. o \in {"ok", "lost"} /\ (r.kind # "evidence" => o = "ok")
    OBVIOUS
  <2>3. wk[w] \in WorkerStates /\ Shape(wk[w])
    BY DEF TypeOK, Shapes
  <2>p. Sent(r).kind = r.kind
    BY <1>r DEF Sent, Requests
  <2> HIDE DEF o
  <2>4. CASE awaited
    <3>1. Waits(w, r)
      <4>1. wk[w].pc \in Kinds
        BY <2>3, <2>4 DEF Shape
      <4>2. wk[w].pc = r.kind
        BY <2>4, <2>p DEF RequestOf
      <4> QED
        BY <2>4, <4>1, <4>2 DEF Waits
    <3>2. CASE Clash(r)
      <4>1. wk'[w] = [wk[w] EXCEPT !.wait = FALSE]
        BY <2>1, <2>4, <3>2
      <4>2. wk'[w] \in WorkerStates /\ Shape(wk'[w])
        BY <2>3, <4>1 DEF WorkerStates, Shape
      <4> QED
        BY <3>1, <3>2, <4>1, <4>2 DEF Retries
    <3>3. CASE ~Clash(r)
      <4>1. wk'[w] = After(wk[w], o)
        BY <2>1, <2>4, <3>3
      <4>2. After(wk[w], o) \in WorkerStates /\ Shape(After(wk[w], o))
        BY <2>2, <2>3, <3>1, AfterOK DEF Waits
      <4> QED
        BY <2>2, <3>1, <3>3, <4>1, <4>2 DEF Answered
    <3> QED
      BY <3>2, <3>3
  <2>5. CASE ~awaited
    BY <2>1, <2>3, <2>5 DEF Unanswered
  <2> QED
    BY <2>4, <2>5
<1>5. wk' \in [Workers -> WorkerStates] /\ Shapes'
  <2>1. wk' = [w \in Workers |-> wk'[w]]
    BY DEF Store
  <2> QED
    BY <1>4, <2>1 DEF Shapes
<1>6. /\ UNCHANGED <<row, recovery, done, open, minted, faults, hist>> /\ reqs' = reqs \ {r}
  BY DEF Store
<1>7. TypeOK'
  BY <1>2, <1>5, <1>6 DEF TypeOK, hist
<1> QED
  BY <1>2, <1>4, <1>5, <1>6, <1>7, <1>n DEF hist, old

\* What reading the tool run does: the request stays what it is, and knows.
LEMMA ReadOK ==
    ASSUME TypeOK, Shapes, NEW r \in reqs, ReadRun(r)
    PROVE  /\ TypeOK' /\ Shapes'
           /\ wk' = wk /\ row' = row /\ runs' = runs /\ minted' = minted /\ winners' = winners
           /\ r.kind = "result"
           /\ \E p : /\ reqs' = (reqs \ {r}) \cup {p}
                     /\ p.tok = r.tok /\ p.tool = r.tool /\ p.kind = r.kind
                     /\ p.saw = Sight(runs[r.tok][r.tool]) /\ Sent(p) = Sent(r)
<1> DEFINE s == Sight(runs[r.tok][r.tool])
           p == [r EXCEPT !.saw = s]
<1>1. r \in Requests /\ r.tok \in Executions /\ r.tool \in Tools
  BY DEF TypeOK, Requests
<1>2. s \in Sights
  BY <1>1 DEF TypeOK, Sight, Sights, RunStatuses
<1>3. reqs' = (reqs \ {r}) \cup {p} /\ r.kind = "result"
  BY DEF ReadRun
<1>4. UNCHANGED <<db, open, wk, minted, faults, hist>>
  BY DEF ReadRun
<1> HIDE DEF s
<1>5. /\ p \in Requests /\ p.tok = r.tok /\ p.tool = r.tool /\ p.kind = r.kind
      /\ p.saw = s /\ Sent(p) = Sent(r)
  BY <1>1, <1>2 DEF Requests, Sent
<1> HIDE DEF p
<1>6. TypeOK' /\ Shapes'
  BY <1>3, <1>4, <1>5 DEF TypeOK, Shapes, db, hist
<1> QED
  BY <1>3, <1>4, <1>5, <1>6 DEF db, hist, s

\* What a lease does: the row has a new owner, known to the worker or to no one.
LEMMA ClaimOK ==
    ASSUME TypeOK, Shapes, NEW w \in Workers, LeaseClaim(w)
    PROVE  /\ TypeOK' /\ Shapes'
           /\ minted' = minted + 1 /\ minted' \in Executions
           /\ row'.token = minted' /\ row'.status = "running" /\ CanClaim(row)
           /\ runs' = runs /\ reqs' = reqs /\ winners' = winners
           /\ \A v \in Workers : v # w => wk'[v] = wk[v]
           /\ \/ wk'[w].pc = "leased" /\ wk'[w].tok = minted' /\ wk'[w].tool = 0
              \/ wk'[w] = Idle
<1> DEFINE x == [Idle EXCEPT !.pc = "leased", !.tok = minted']
<1>m. minted \in 0 .. MaxExecutions /\ minted < MaxExecutions /\ minted' = minted + 1
  BY DEF TypeOK, LeaseClaim
<1>1. minted' \in Executions /\ minted' \in Nat /\ minted' # None
  BY <1>m, LeaseAssumption DEF Executions, None
<1>2. row' = ClaimRow(row, minted') /\ row \in Rows /\ CanClaim(row)
  BY DEF LeaseClaim, TypeOK
<1>3. row' \in Rows /\ row'.token = minted' /\ row'.status = "running"
  BY <1>1, <1>2, RowOps, OwnerOps DEF Statuses
<1>4. x \in WorkerStates /\ x.pc = "leased" /\ x.tok = minted' /\ x.tool = 0 /\ x.ran = {} /\ x.wait = FALSE
  BY <1>1, IdleOK DEF WorkerStates, Pcs, Idle
<1>5. Shape(x)
  BY <1>1, <1>4 DEF Shape, Kinds
<1>6. (Goto(w, x) /\ faults' \in Nat) \/ (Goto(w, Idle) /\ faults' \in Nat)
  BY DEF LeaseClaim, TypeOK, Fault
<1> HIDE DEF x
<1>7. /\ wk' \in [Workers -> WorkerStates] /\ Shapes' /\ wk'[w] \in {x, Idle}
      /\ \A v \in Workers : v # w => wk'[v] = wk[v]
  BY <1>4, <1>5, <1>6, GotoOK, IdleOK
<1>8. UNCHANGED <<recovery, open, runs, reqs, winners>> /\ done' = 0 /\ own' = FALSE
  BY DEF LeaseClaim
<1>9. 0 \in Ages /\ minted' \in 0 .. MaxExecutions
  BY <1>m, AgeAssumption, LeaseAssumption DEF Ages
<1>10. TypeOK'
  BY <1>3, <1>6, <1>7, <1>8, <1>9 DEF TypeOK
<1> QED
  BY <1>1, <1>2, <1>3, <1>4, <1>7, <1>8, <1>m, <1>10

\* What the admission of a POST does.
LEMMA AdmitOK ==
    ASSUME TypeOK, Shapes, NEW w \in Workers, PostAdmitted(w)
    PROVE  /\ TypeOK' /\ Shapes'
           /\ wk[w].pc \in Kinds /\ ~wk[w].wait /\ row.token = wk[w].tok
           /\ reqs' = reqs \cup {RequestOf(w)}
           /\ wk'[w] = [wk[w] EXCEPT !.wait = TRUE]
           /\ \A v \in Workers : v # w => wk'[v] = wk[v]
           /\ row' = row /\ runs' = runs /\ minted' = minted /\ winners' = winners
<1> DEFINE x == [wk[w] EXCEPT !.wait = TRUE]
<1>1. wk[w] \in WorkerStates /\ Shape(wk[w]) /\ wk[w].pc \in Kinds /\ ~wk[w].wait /\ row.token = wk[w].tok
  BY DEF TypeOK, Shapes, PostAdmitted, Sending, Admissible
<1>2. x \in WorkerStates /\ Shape(x)
  BY <1>1 DEF WorkerStates, Shape, Kinds
<1>3. Goto(w, x)
  BY DEF PostAdmitted
<1>4. /\ wk' \in [Workers -> WorkerStates] /\ Shapes'
      /\ wk'[w] = x /\ \A v \in Workers : v # w => wk'[v] = wk[v]
  BY <1>2, <1>3, GotoOK
<1>5. RequestOf(w) \in Requests
  BY <1>1, RequestOK
<1>6. reqs' = reqs \cup {RequestOf(w)} /\ UNCHANGED <<db, open, minted, faults, hist>>
  BY DEF PostAdmitted
<1>7. TypeOK'
  BY <1>4, <1>5, <1>6 DEF TypeOK, db, hist
<1> QED
  BY <1>1, <1>4, <1>6, <1>7 DEF db, hist

\* What the fenced terminal write does.
LEMMA CompleteOK ==
    ASSUME TypeOK, Shapes, NEW w \in Workers, Complete(w)
    PROVE  /\ TypeOK' /\ Shapes'
           /\ wk[w].pc = "complete" /\ Owns(row, wk[w].tok) /\ wk[w].st \in Terminal
           /\ row'.status = wk[w].st /\ row'.token = None
           /\ winners' = winners \cup {wk[w].tok}
           /\ wk'[w] = Idle /\ \A v \in Workers : v # w => wk'[v] = wk[v]
           /\ runs' = runs /\ reqs' = reqs /\ minted' = minted
<1>1. wk[w] \in WorkerStates /\ Shape(wk[w]) /\ wk[w].pc = "complete" /\ Owns(row, wk[w].tok) /\ row \in Rows
  BY DEF TypeOK, Shapes, Complete
<1>2. wk[w].st \in Terminal /\ wk[w].st \in Statuses /\ wk[w].tok \in Executions
  BY <1>1 DEF Shape, Terminal, Statuses, WorkerStates
<1>3. row' = FinalizeRow(row, wk[w].st)
  BY DEF Complete
<1>4. row' \in Rows /\ row'.status = wk[w].st /\ row'.token = None
  BY <1>1, <1>2, <1>3, RowOps, OwnerOps
<1>5. Goto(w, Idle) /\ done' = 0 /\ own' \in BOOLEAN /\ winners' = winners \cup {wk[w].tok}
  BY DEF Complete
<1>6. /\ wk' \in [Workers -> WorkerStates] /\ Shapes'
      /\ wk'[w] = Idle /\ \A v \in Workers : v # w => wk'[v] = wk[v]
  BY <1>5, GotoOK, IdleOK
<1>7. UNCHANGED <<recovery, open, runs, reqs, minted, faults>> /\ 0 \in Ages
  BY AgeAssumption DEF Complete, Ages
<1>8. TypeOK'
  BY <1>2, <1>4, <1>5, <1>6, <1>7 DEF TypeOK
<1> QED
  BY <1>1, <1>2, <1>4, <1>5, <1>6, <1>7, <1>8

\* The steps of the control plane and the heartbeat: the tool runs and the
\* workers stay, and the row keeps its owner or loses it for good.
RowOnly ==
    /\ TypeOK' /\ Shapes'
    /\ wk' = wk /\ reqs' = reqs /\ minted' = minted /\ winners' = winners /\ runs' = runs
    /\ \/ row'.status = row.status /\ row'.token = row.token
       \/ /\ row.status \in {"queued", "running"} /\ row'.token = None
          /\ row'.status = "cancelled" \/ (row'.status = "failed" /\ row.status = "running")

LEMMA ControlOK ==
    ASSUME TypeOK, Shapes,
           (\E w \in Workers : Heartbeat(w)) \/ Cancel \/ Reap \/ SwitchSite \/ Tick
    PROVE  RowOnly
<1>t. row \in Rows /\ done \in Ages /\ 0 \in Ages
  BY AgeAssumption DEF TypeOK, Ages
<1>s. wk' = wk => Shapes'
  BY DEF Shapes
<1>1. CASE \E w \in Workers : Heartbeat(w)
  <2>1. row' = HeartbeatRow(row) /\ UNCHANGED <<recovery, done, open, wk, runs, reqs, minted, faults, hist>>
    BY <1>1 DEF Heartbeat
  <2>2. row' \in Rows /\ row'.status = row.status /\ row'.token = row.token
    BY <2>1, <1>t, RowOps, OwnerOps DEF Statuses
  <2>3. TypeOK'
    BY <2>1, <2>2 DEF TypeOK, hist
  <2> QED
    BY <2>1, <2>2, <2>3, <1>s DEF RowOnly, hist
<1>2. CASE Cancel
  <2>1. /\ row' = CancelRow(row) /\ CanCancel(row) /\ done' = 0
        /\ UNCHANGED <<recovery, open, wk, runs, reqs, minted, faults, hist>>
    BY <1>2 DEF Cancel
  <2>2. row' \in Rows /\ row'.status = "cancelled" /\ row'.token = None
    BY <2>1, <1>t, RowOps, OwnerOps DEF Statuses
  <2>3. TypeOK'
    BY <2>1, <2>2, <1>t DEF TypeOK, hist
  <2> QED
    BY <2>1, <2>2, <2>3, <1>s, <1>t DEF RowOnly, hist, CanCancel, Terminal, Rows, Statuses
<1>3. CASE Reap
  <2>1. /\ row' = ReapRow(row) /\ Silent(row) /\ done' = 0 /\ recovery' = TRUE
        /\ UNCHANGED <<open, wk, runs, reqs, minted, faults, hist>>
    BY <1>3 DEF Reap
  <2>2. row' \in Rows /\ row'.status = "failed" /\ row'.token = None
    BY <2>1, <1>t, RowOps, OwnerOps DEF Statuses
  <2>3. TypeOK'
    BY <2>1, <2>2, <1>t DEF TypeOK, hist
  <2> QED
    BY <2>1, <2>2, <2>3, <1>s DEF RowOnly, hist, Silent
<1>4. CASE SwitchSite
  <2>1. faults' \in Nat /\ open' \in BOOLEAN /\ UNCHANGED <<db, wk, reqs, minted, hist>>
    BY <1>4 DEF SwitchSite, Fault, TypeOK
  <2>2. TypeOK'
    BY <2>1 DEF TypeOK, db, hist
  <2> QED
    BY <2>1, <2>2, <1>s DEF RowOnly, db, hist
<1>5. CASE Tick
  <2>1. /\ row' = [AgeRow(row) EXCEPT !.queued = row.queued]
        /\ done' = IF row.status \in Terminal THEN Older(done) ELSE done
        /\ UNCHANGED <<recovery, open, wk, runs, reqs, minted, faults, hist>>
    BY <1>5 DEF Tick
  <2>2. AgeRow(row) \in Rows /\ AgeRow(row).status = row.status /\ AgeRow(row).token = row.token
    BY <1>t, RowOps, OwnerOps DEF Statuses
  <2>3. row' \in Rows /\ row'.status = row.status /\ row'.token = row.token
    BY <2>1, <2>2, <1>t DEF Rows
  <2>4. done' \in Ages
    BY <2>1, <1>t, AgeAssumption DEF Older, Ages, None
  <2>5. TypeOK'
    BY <2>1, <2>3, <2>4 DEF TypeOK, hist
  <2> QED
    BY <2>1, <2>3, <2>5, <1>s DEF RowOnly, hist
<1> QED
  BY <1>1, <1>2, <1>3, <1>4, <1>5

\* The reconciler touches tool runs that run, and only of a scan that is over.
LEMMA ReconcileOK ==
    ASSUME TypeOK, Shapes, Reconcile
    PROVE  /\ TypeOK' /\ Shapes'
           /\ wk' = wk /\ row' = row /\ reqs' = reqs /\ minted' = minted /\ winners' = winners
           /\ row.status \in Terminal
           /\ \A t \in Executions, k \in Tools :
                 runs'[t][k] = IF runs[t][k] = "running" THEN "failed" ELSE runs[t][k]
<1>1. /\ runs' = [t \in Executions |-> [k \in Tools |->
                   IF runs[t][k] = "running" THEN "failed" ELSE runs[t][k]]]
      /\ UNCHANGED <<row, recovery, done, open, wk, reqs, minted, faults, hist>>
      /\ row.status \in Terminal
  BY DEF Reconcile, Over
<1>2. runs' \in [Executions -> [Tools -> RunStatuses]]
  BY <1>1 DEF TypeOK, RunStatuses, ToolStatuses
<1>3. TypeOK' /\ Shapes'
  BY <1>1, <1>2 DEF TypeOK, Shapes, hist
<1> QED
  BY <1>1, <1>3 DEF hist

\* Every step is one of these.
LEMMA Steps ==
    ASSUME TypeOK, Shapes, Next
    PROVE  \/ \E w \in Workers : \/ Quits(w) \/ Advances(w)
                                 \/ LeaseClaim(w) \/ PostAdmitted(w) \/ Complete(w)
           \/ \E r \in reqs : ReadRun(r) \/ Store(r)
           \/ RowOnly
           \/ Reconcile
<1>1. ASSUME NEW w \in Workers, LeaseSelect(w) \/ Progress(w) \/ Heartbeat(w) \/ Upset(w)
      PROVE  \/ Quits(w) \/ Advances(w) \/ LeaseClaim(w) \/ PostAdmitted(w) \/ Complete(w)
             \/ Heartbeat(w)
  BY <1>1, LocalSteps DEF Progress, Upset
<1> QED
  BY <1>1, ControlOK DEF Next

\* Types and shapes are kept by every step.
LEMMA TypeStep == TypeOK /\ Shapes /\ [Next]_vars => TypeOK' /\ Shapes'
<1> SUFFICES ASSUME TypeOK, Shapes, [Next]_vars PROVE TypeOK' /\ Shapes'
  OBVIOUS
<1>1. CASE UNCHANGED vars
  BY <1>1 DEF vars, hist, TypeOK, Shapes
<1>2. ASSUME NEW w \in Workers, Quits(w) \/ Advances(w) PROVE TypeOK' /\ Shapes'
  BY <1>2, MovesOK DEF Quits, Advances
<1>3. CASE Next
  BY <1>2, <1>3, Steps, ClaimOK, AdmitOK, CompleteOK, ReadOK, StoreOK, ReconcileOK DEF RowOnly
<1> QED
  BY <1>1, <1>3

-----------------------------------------------------------------------------
(* Tokens                                                                  *)

\* A step that mints no token and hands none on keeps the order of the tokens.
LEMMA TokensKept ==
    ASSUME TypeOK, Tokens, TypeOK',
           minted' = minted,
           row'.token # None <=> row'.status = "running",
           row'.token \in {row.token, None},
           \A w \in Workers : wk'[w].tok \in {wk[w].tok, None},
           \A t \in winners' : t \in winners \/ t = row.token,
           \A r \in reqs' : r \in reqs \/ r.tok = row.token,
           \A t \in Executions : t > minted => \A k \in Tools : runs'[t][k] = "absent"
    PROVE  Tokens'
<1>1. /\ \A w \in Workers : wk[w].tok \in Executions \cup {None} /\ wk'[w].tok \in Executions \cup {None}
      /\ \A t \in winners' : t \in Executions
      /\ \A r \in reqs' : r.tok \in Executions
      /\ minted \in 0 .. MaxExecutions
  BY DEF TypeOK, WorkerStates, Requests
<1>2. row.token # None => row.token = minted
  BY DEF Tokens
<1>3. \A t \in Executions : t # None
  BY LeaseAssumption DEF Executions, None
<1>4. \A t \in winners' : t <= minted
  BY <1>1, <1>2, <1>3, LeaseAssumption DEF Tokens
<1>5. \A r \in reqs' : r.tok <= minted
  BY <1>1, <1>2, <1>3, LeaseAssumption DEF Tokens
<1>6. /\ \A w \in Workers : wk'[w].tok # None => wk'[w].tok <= minted
      /\ \A v, w \in Workers : wk'[v].tok # None /\ wk'[v].tok = wk'[w].tok => v = w
  BY <1>1 DEF Tokens
<1>7. row'.token # None => row'.token = minted
  BY <1>2
<1> QED
  BY <1>4, <1>5, <1>6, <1>7 DEF Tokens

LEMMA TokensStep == TypeOK /\ Shapes /\ Tokens /\ [Next]_vars => Tokens'
<1> SUFFICES ASSUME TypeOK, Shapes, Tokens, [Next]_vars PROVE Tokens'
  OBVIOUS
<1>t. TypeOK' /\ Shapes'
  BY TypeStep
<1>a. \A t \in Executions : t > minted => \A k \in Tools : runs[t][k] = "absent"
  BY DEF Tokens
<1>b. row.token # None <=> row.status = "running"
  BY DEF Tokens
<1>1. CASE UNCHANGED vars
  BY <1>1 DEF vars, hist, Tokens
<1>2. ASSUME NEW w \in Workers, Quits(w) \/ Advances(w) PROVE Tokens'
  <2>1. PICK x : Moves(w, x)
    BY <1>2 DEF Quits, Advances
  <2>2. /\ wk'[w] = x /\ \A v \in Workers : v # w => wk'[v] = wk[v]
        /\ row' = row /\ runs' = runs /\ reqs' = reqs /\ minted' = minted /\ winners' = winners
    BY <2>1, MovesOK
  <2>3. \A v \in Workers : wk'[v].tok \in {wk[v].tok, None}
    BY <2>1, <2>2 DEF Moves
  <2> QED
    BY <2>2, <2>3, <1>t, <1>a, <1>b, TokensKept
<1>3. ASSUME NEW w \in Workers, LeaseClaim(w) PROVE Tokens'
  <2>1. /\ minted' = minted + 1 /\ minted' \in Executions
        /\ row'.token = minted' /\ row'.status = "running"
        /\ runs' = runs /\ reqs' = reqs /\ winners' = winners
        /\ \A v \in Workers : v # w => wk'[v] = wk[v]
        /\ wk'[w].tok \in {minted', None}
    BY <1>3, ClaimOK DEF Idle
  <2>2. /\ \A v \in Workers : wk[v].tok \in Executions \cup {None}
        /\ \A t \in winners : t \in Executions
        /\ \A r \in reqs : r.tok \in Executions
        /\ minted \in 0 .. MaxExecutions
    BY DEF TypeOK, WorkerStates, Requests
  <2>n. \A t \in Executions : t \in Nat /\ t # None
    BY LeaseAssumption DEF Executions, None
  <2>3. row'.token # None
    BY <2>1, <2>n
  <2>o. minted \in Nat /\ minted' \in Nat /\ minted <= minted' /\ \A t \in Nat : t <= minted => t <= minted'
    BY <2>1, <2>2, LeaseAssumption
  <2>4. \A v \in Workers : wk'[v].tok # None => wk'[v].tok <= minted'
    <3>1. \A v \in Workers : wk[v].tok # None => wk[v].tok <= minted /\ wk[v].tok \in Nat
      BY <2>2, <2>n DEF Tokens
    <3> QED
      BY <2>1, <2>o, <3>1
  <2>5. \A v, u \in Workers : wk'[v].tok # None /\ wk'[v].tok = wk'[u].tok => v = u
    <3>1. \A v \in Workers : v # w => wk'[v].tok # minted'
      BY <2>1, <2>2, <2>n DEF Tokens
    <3> QED
      BY <2>1, <3>1 DEF Tokens
  <2>6. (\A t \in winners' : t <= minted') /\ \A r \in reqs' : r.tok <= minted'
    BY <2>1, <2>2, <2>n, <2>o DEF Tokens
  <2>7. \A t \in Executions : t > minted' => \A k \in Tools : runs'[t][k] = "absent"
    <3>1. \A t \in Executions : t > minted' => t > minted
      BY <2>o, <2>n
    <3>2. \A t \in Executions : t > minted => \A k \in Tools : runs[t][k] = "absent"
      BY DEF Tokens
    <3>3. runs' = runs
      BY <2>1
    <3> QED
      BY <3>1, <3>2, <3>3
  <2> QED
    BY <2>1, <2>3, <2>4, <2>5, <2>6, <2>7 DEF Tokens
<1>4. ASSUME NEW w \in Workers, PostAdmitted(w) PROVE Tokens'
  <2>1. /\ row.token = wk[w].tok /\ reqs' = reqs \cup {RequestOf(w)}
        /\ wk'[w] = [wk[w] EXCEPT !.wait = TRUE]
        /\ \A v \in Workers : v # w => wk'[v] = wk[v]
        /\ row' = row /\ runs' = runs /\ minted' = minted /\ winners' = winners
    BY <1>4, AdmitOK
  <2>2. wk'[w].tok = wk[w].tok
    BY <2>1 DEF TypeOK, WorkerStates
  <2>3. \A v \in Workers : wk'[v].tok \in {wk[v].tok, None}
    BY <2>1, <2>2
  <2>4. \A r \in reqs' : r \in reqs \/ r.tok = row.token
    BY <2>1 DEF RequestOf
  <2> QED
    BY <2>1, <2>3, <2>4, <1>t, <1>a, <1>b, TokensKept
<1>5. ASSUME NEW w \in Workers, Complete(w) PROVE Tokens'
  <2>1. /\ row.token = wk[w].tok /\ wk[w].st \in Terminal
        /\ row'.status = wk[w].st /\ row'.token = None
        /\ winners' = winners \cup {wk[w].tok}
        /\ wk'[w] = Idle /\ \A v \in Workers : v # w => wk'[v] = wk[v]
        /\ runs' = runs /\ reqs' = reqs /\ minted' = minted
    BY <1>5, CompleteOK DEF Owns
  <2>2. \A v \in Workers : wk'[v].tok \in {wk[v].tok, None}
    BY <2>1 DEF Idle
  <2>3. row'.status # "running"
    BY <2>1 DEF Terminal
  <2> QED
    BY <2>1, <2>2, <2>3, <1>t, <1>a, TokensKept
<1>6. ASSUME NEW r \in reqs, Store(r) PROVE Tokens'
  <2>1. /\ row' = row /\ minted' = minted /\ winners' = winners /\ reqs' = reqs \ {r}
        /\ \A t \in Executions, k \in Tools : ~(t = r.tok /\ k = r.tool) => runs'[t][k] = runs[t][k]
    BY <1>6, StoreOK
  <2>2. ASSUME NEW w \in Workers PROVE wk'[w].tok = wk[w].tok
    <3>1. Unanswered(w, r) \/ Retries(w, r) \/ Answered(w, r)
      BY <1>6, StoreOK
    <3>2. wk[w] \in WorkerStates /\ Shape(wk[w])
      BY DEF TypeOK, Shapes
    <3>3. CASE Unanswered(w, r) \/ Retries(w, r)
      BY <3>2, <3>3 DEF Unanswered, Retries, WorkerStates
    <3>4. CASE Answered(w, r)
      BY <3>2, <3>4, AfterOK DEF Answered, Waits
    <3> QED
      BY <3>1, <3>3, <3>4
  <2>3. r.tok \in Executions /\ r.tok <= minted /\ minted \in 0 .. MaxExecutions
    BY DEF TypeOK, Requests, Tokens
  <2>4. \A t \in Executions : t > minted => \A k \in Tools : runs'[t][k] = "absent"
    BY <2>1, <2>3, <1>a, LeaseAssumption DEF Executions
  <2> QED
    BY <2>1, <2>2, <2>4, <1>t, <1>b, TokensKept
<1>7. CASE RowOnly
  <2>1. /\ wk' = wk /\ reqs' = reqs /\ minted' = minted /\ winners' = winners /\ runs' = runs
        /\ row'.token \in {row.token, None}
        /\ row'.token # None <=> row'.status = "running"
    BY <1>7, <1>b DEF RowOnly
  <2> QED
    BY <2>1, <1>t, <1>a, TokensKept
<1>8. CASE Reconcile
  <2>1. /\ wk' = wk /\ reqs' = reqs /\ minted' = minted /\ winners' = winners /\ row' = row
        /\ \A t \in Executions, k \in Tools : runs[t][k] = "absent" => runs'[t][k] = "absent"
    BY <1>8, ReconcileOK
  <2> QED
    BY <2>1, <1>t, <1>a, <1>b, TokensKept
<1>r. ASSUME NEW r \in reqs, ReadRun(r) PROVE Tokens'
  <2>1. PICK p : reqs' = (reqs \ {r}) \cup {p} /\ p.tok = r.tok
    BY <1>r, ReadOK
  <2>2. wk' = wk /\ row' = row /\ runs' = runs /\ minted' = minted /\ winners' = winners
    BY <1>r, ReadOK
  <2>3. \A q \in reqs' : q.tok <= minted
    BY <2>1 DEF Tokens
  <2> QED
    BY <2>2, <2>3 DEF Tokens
<1>9. CASE Next
  BY <1>2, <1>3, <1>4, <1>5, <1>6, <1>7, <1>8, <1>9, <1>r, Steps
<1> QED
  BY <1>1, <1>9

-----------------------------------------------------------------------------
(* The records                                                             *)

\* A POST that is stored neither touches an untouched tool nor spoils a clean one.
LEMMA CleanStore ==
    ASSUME TypeOK, Shapes, NEW r \in reqs, Store(r), NEW t \in Executions, NEW k \in Tools
    PROVE  /\ Untouched(t, k) => Untouched(t, k)'
           /\ Clean(t, k) => Clean(t, k)'
<1>1. /\ reqs' = reqs \ {r}
      /\ ~(t = r.tok /\ k = r.tool) => runs'[t][k] = runs[t][k]
      /\ r.kind = "started" => runs'[r.tok][r.tool] = Opened(runs[r.tok][r.tool])
      /\ r.kind = "evidence" => runs'[r.tok][r.tool] = runs[r.tok][r.tool]
  BY StoreOK
<1>2. r.kind \in Kinds
  BY DEF TypeOK, Requests
<1>3. Untouched(t, k) => Untouched(t, k)'
  BY <1>1 DEF Untouched
<1>4. ASSUME Clean(t, k) PROVE Clean(t, k)'
  <2>1. runs'[t][k] = runs[t][k]
    BY <1>1, <1>2, <1>4 DEF Clean, Opened, Kinds
  <2> QED
    BY <1>1, <1>4, <2>1 DEF Clean
<1> QED
  BY <1>3, <1>4

\* An untouched tool is clean.
LEMMA UntouchedClean == \A t, k : Untouched(t, k) => Clean(t, k)
BY DEF Untouched, Clean

\* What the records say of the owner, given its state; Backed(w) without the
\* condition that w is the owner.
Record1(x) ==
    x.pc \notin {"idle", "asked", "complete"} =>
        /\ \A k \in Tools : k > x.tool => Untouched(x.tok, k)
        /\ x.ran \subseteq {"completed"} /\ ~x.lost =>
              \A k \in Tools :
                  k < x.tool \/ (k = x.tool /\ x.pc \in {"leased", "probe"}) => Clean(x.tok, k)

Record2(w) ==
    wk[w].pc \in Kinds \cup {"tool"} =>
        /\ runs[wk[w].tok][wk[w].tool] \in {"absent", "running"}
        /\ \A r \in reqs : r.tok = wk[w].tok /\ r.tool = wk[w].tool /\ r.kind = "result" =>
              wk[w].wait /\ Sent(r) = RequestOf(w)

Record3(x) == x.pc = "complete" /\ x.st = "completed" => \A k \in Tools : Clean(x.tok, k)

LEMMA BackedParts ==
    ASSUME NEW w \in Workers
    PROVE  Backed(w) <=> (wk[w].tok # None /\ row.token = wk[w].tok =>
                             Record1(wk[w]) /\ Record2(w) /\ Record3(wk[w]))
BY DEF Backed, Record1, Record2, Record3

\* The records of a worker that does not move stay true if neither the runs
\* nor the requests change and it does not become the owner.
LEMMA BackedStays ==
    ASSUME NEW w \in Workers, Backed(w), wk'[w] = wk[w], runs' = runs, reqs' = reqs,
           row'.token \in {row.token, None}
    PROVE  Backed(w)'
BY DEF Backed, Untouched, Clean, RequestOf

\* A worker that gives up or goes on with its tools keeps its records true.
LEMMA RecordsMove ==
    ASSUME TypeOK, Shapes, RecordInv, NEW w \in Workers, Quits(w) \/ Advances(w)
    PROVE  RecordInv'
<1> DEFINE y == wk[w]
<1>1. PICK x : /\ Moves(w, x)
               /\ \/ x.pc \in {"idle", "asked"} \/ (x.pc = "complete" /\ x.st = "failed")
                  \/ /\ x.tok = wk[w].tok
                     /\ \/ /\ wk[w].pc = "leased" /\ x.pc = "probe"
                           /\ x.tool = wk[w].tool /\ x.ran = wk[w].ran /\ x.lost = wk[w].lost
                        \/ /\ wk[w].pc = "probe" /\ x.pc \in {"probe", "started"}
                           /\ x.tool = wk[w].tool + 1 /\ x.ran = wk[w].ran /\ x.lost = wk[w].lost
                        \/ /\ wk[w].pc = "tool" /\ x.pc \in {"evidence", "result"}
                           /\ x.tool = wk[w].tool /\ x.ran = wk[w].ran /\ x.lost = wk[w].lost
                        \/ /\ wk[w].pc = "probe" /\ x.pc = "complete"
                           /\ x.st = "completed" => wk[w].ran \subseteq {"completed"} /\ ~wk[w].lost
                        \/ /\ wk[w].pc \in Kinds
                           /\ \E outcome \in {"lost", "refused"} : x = After(wk[w], outcome)
  BY DEF Quits, Advances
<1>2. /\ wk'[w] = x /\ \A v \in Workers : v # w => wk'[v] = wk[v]
      /\ row' = row /\ runs' = runs /\ reqs' = reqs /\ minted' = minted /\ winners' = winners
  BY <1>1, MovesOK
<1>3. \A v \in Workers : v # w => Backed(v)'
  BY <1>2, BackedStays DEF RecordInv
<1>4. CompletedBacked'
  BY <1>2 DEF RecordInv, CompletedBacked, Clean
<1>y. y \in WorkerStates /\ Shape(y) /\ x \in WorkerStates /\ Shape(x)
  BY <1>1 DEF TypeOK, Shapes, Moves
<1>z. y.tool \in 0 .. NumTools /\ y.tool \in Int /\ \A k \in Tools : k \in Int
  BY <1>y, LeaseAssumption DEF WorkerStates, Tools
<1>u. \A t, k : (Untouched(t, k)' <=> Untouched(t, k)) /\ (Clean(t, k)' <=> Clean(t, k))
  BY <1>2 DEF Untouched, Clean
<1>5. ASSUME wk'[w].tok # None, row'.token = wk'[w].tok
      PROVE  Record1(wk[w])' /\ Record2(w)' /\ Record3(wk[w])'
  <2>1. x.tok # None /\ x.tok = y.tok /\ row.token = y.tok
    BY <1>1, <1>2, <1>5 DEF Moves
  <2>2. Record1(y) /\ Record2(w) /\ Record3(y)
    BY <2>1, BackedParts DEF RecordInv
  <2> SUFFICES /\ x.pc \notin {"idle", "asked", "complete"} =>
                     /\ \A k \in Tools : k > x.tool => Untouched(x.tok, k)
                     /\ x.ran \subseteq {"completed"} /\ ~x.lost =>
                           \A k \in Tools :
                               k < x.tool \/ (k = x.tool /\ x.pc \in {"leased", "probe"}) => Clean(x.tok, k)
               /\ x.pc \in Kinds \cup {"tool"} =>
                     /\ runs[x.tok][x.tool] \in {"absent", "running"}
                     /\ \A r \in reqs : r.tok = x.tok /\ r.tool = x.tool => r.kind # "result"
               /\ x.pc = "complete" /\ x.st = "completed" => \A k \in Tools : Clean(x.tok, k)
    BY <1>2, <1>u DEF Record1, Record2, Record3
  <2>3. CASE x.pc \in {"idle", "asked"} \/ (x.pc = "complete" /\ x.st = "failed")
    BY <2>3, <2>1, <1>y DEF Shape, Kinds
  <2>4. CASE /\ y.pc = "leased" /\ x.pc = "probe"
             /\ x.tool = y.tool /\ x.ran = y.ran /\ x.lost = y.lost
    BY <2>1, <2>2, <2>4 DEF Record1, Kinds
  <2>5. CASE /\ y.pc = "probe" /\ x.pc \in {"probe", "started"}
             /\ x.tool = y.tool + 1 /\ x.ran = y.ran /\ x.lost = y.lost
    <3>1. \A k \in Tools : k > y.tool => Untouched(y.tok, k)
      BY <2>2, <2>5 DEF Record1
    <3>2. y.ran \subseteq {"completed"} /\ ~y.lost => \A k \in Tools : k <= y.tool => Clean(y.tok, k)
      BY <2>2, <2>5, <1>z DEF Record1
    <3>3. \A k \in Tools : k > x.tool => Untouched(x.tok, k)
      BY <2>1, <2>5, <3>1, <1>z
    <3>4. y.ran \subseteq {"completed"} /\ ~y.lost => \A k \in Tools : k <= x.tool => Clean(x.tok, k)
      BY <2>1, <2>5, <3>1, <3>2, <1>z, UntouchedClean
    <3>5. x.pc = "started" => Untouched(x.tok, x.tool)
      BY <2>1, <2>5, <3>1, <1>y, <1>z DEF Shape, Kinds
    <3>6. x.ran \subseteq {"completed"} /\ ~x.lost =>
             \A k \in Tools : k < x.tool \/ (k = x.tool /\ x.pc \in {"leased", "probe"}) => Clean(x.tok, k)
      BY <2>5, <3>4, <1>z
    <3>7. x.pc \in Kinds \cup {"tool"} =>
             /\ runs[x.tok][x.tool] \in {"absent", "running"}
             /\ \A r \in reqs : r.tok = x.tok /\ r.tool = x.tool => r.kind # "result"
      BY <2>5, <3>5 DEF Untouched, Kinds
    <3> QED
      BY <2>5, <3>3, <3>6, <3>7
  <2>6. CASE /\ y.pc = "tool" /\ x.pc \in {"evidence", "result"}
             /\ x.tool = y.tool /\ x.ran = y.ran /\ x.lost = y.lost
    <3>1. ~y.wait
      BY <2>6, <1>y DEF Shape, Kinds
    <3> QED
      BY <2>1, <2>2, <2>6, <3>1 DEF Record1, Record2, Kinds
  <2>7. CASE /\ y.pc = "probe" /\ x.pc = "complete"
             /\ x.st = "completed" => y.ran \subseteq {"completed"} /\ ~y.lost
    <3>1. x.st = "completed" => \A k \in Tools : Clean(x.tok, k)
      BY <2>1, <2>2, <2>7, <1>z, UntouchedClean DEF Record1
    <3> QED
      BY <2>7, <3>1 DEF Kinds
  <2>8. CASE y.pc \in Kinds /\ \E outcome \in {"lost", "refused"} : x = After(y, outcome)
    <3>1. PICK outcome \in {"lost", "refused"} : x = After(y, outcome)
      BY <2>8
    <3>2. /\ x.tool = y.tool /\ ~x.wait
          /\ y.pc = "started" => x.pc = "tool" /\ x.ran = y.ran /\ x.lost = y.lost
          /\ y.pc = "evidence" => x.pc = "result" /\ x.ran = y.ran /\ x.lost = y.lost
          /\ y.pc = "result" => x.pc = "probe" /\ x.lost = (y.lost \/ outcome # "ok")
      BY <2>8, <3>1, <1>y, AfterOK
    <3>3. CASE y.pc \in {"started", "evidence"}
      <4>1. \A r \in reqs : r.tok = y.tok /\ r.tool = y.tool => r.kind # "result"
        <5>1. \A r \in reqs : Sent(r).kind = r.kind
          BY DEF TypeOK, Requests, Sent
        <5> QED
          BY <2>2, <2>8, <3>3, <5>1 DEF Record2, RequestOf
      <4> QED
        BY <2>1, <2>2, <2>8, <3>2, <3>3, <4>1 DEF Record1, Record2, Kinds
    <3>4. CASE y.pc = "result"
      <4>1. x.lost /\ x.pc = "probe"
        BY <3>1, <3>2, <3>4
      <4> QED
        BY <2>1, <2>2, <3>2, <3>4, <4>1 DEF Record1, Kinds
    <3> QED
      BY <2>8, <3>3, <3>4 DEF Kinds
  <2> QED
    BY <1>1, <2>3, <2>4, <2>5, <2>6, <2>7, <2>8
<1>6. Backed(w)'
  BY <1>5 DEF Backed, Record1, Record2, Record3
<1> QED
  BY <1>3, <1>4, <1>6 DEF RecordInv

\* Storing a POST keeps the records true, whoever waits for the answer.
LEMMA RecordsStore ==
    ASSUME TypeOK, Shapes, RecordInv, Reports, NEW r \in reqs, Store(r)
    PROVE  RecordInv'
<1>r. r.tok \in Executions /\ r.tool \in Tools /\ r.kind \in Kinds /\ r.saw \in Sights
  BY DEF TypeOK, Requests
<1>s. /\ Sent(r).tok = r.tok /\ Sent(r).tool = r.tool /\ Sent(r).st = r.st
  BY DEF TypeOK, Requests, Sent
<1>1. /\ row' = row /\ minted' = minted /\ winners' = winners /\ reqs' = reqs \ {r}
      /\ \A t \in Executions, k \in Tools : ~(t = r.tok /\ k = r.tool) => runs'[t][k] = runs[t][k]
      /\ r.kind = "started" => runs'[r.tok][r.tool] = Opened(runs[r.tok][r.tool])
      /\ r.kind = "evidence" => runs'[r.tok][r.tool] = runs[r.tok][r.tool]
      /\ r.kind = "result" => runs'[r.tok][r.tool] = Record(r, runs[r.tok][r.tool])
  BY StoreOK
<1>2. CompletedBacked'
  <2>1. minted \in winners => minted \in Executions
    BY DEF TypeOK
  <2> QED
    BY <1>1, <2>1, CleanStore DEF RecordInv, CompletedBacked
<1>3. ASSUME NEW w \in Workers, wk'[w].tok # None, row'.token = wk'[w].tok
      PROVE  Record1(wk[w])' /\ Record2(w)' /\ Record3(wk[w])'
  <2> DEFINE y == wk[w]
             x == wk'[w]
  <2>y. y \in WorkerStates /\ Shape(y)
    BY DEF TypeOK, Shapes
  <2>w. Unanswered(w, r) \/ Retries(w, r) \/ Answered(w, r)
    BY StoreOK
  <2>1. x.tok = y.tok /\ x.tool = y.tool
    <3>1. CASE Unanswered(w, r) \/ Retries(w, r)
      BY <2>y, <3>1 DEF Unanswered, Retries, WorkerStates
    <3>2. CASE Answered(w, r)
      BY <2>y, <3>2, AfterOK DEF Answered, Waits
    <3> QED
      BY <2>w, <3>1, <3>2
  <2>2. Record1(y) /\ Record2(w) /\ Record3(y)
    BY <1>1, <1>3, <2>1, BackedParts DEF RecordInv
  <2>t. y.tok \in Executions /\ y.tool \in 0 .. NumTools /\ \A k \in Tools : k \in Int
    BY <1>3, <2>1, <2>y, LeaseAssumption DEF WorkerStates, Tools
  <2> DEFINE t == y.tok
             U(k) == /\ runs'[t][k] = "absent"
                     /\ \A q \in reqs' : ~(q.tok = t /\ q.tool = k)
             C(k) == /\ runs'[t][k] \in {"absent", "completed"}
                     /\ \A q \in reqs' : q.tok = t /\ q.tool = k =>
                           q.kind # "result" /\ (q.kind = "started" => runs'[t][k] = "completed")
  <2>u. \A k \in Tools : (Untouched(t, k) => U(k)) /\ (Clean(t, k) => C(k))
    <3> SUFFICES ASSUME NEW e \in Executions, e = t, NEW k \in Tools
                 PROVE  (Untouched(e, k) => U(k)) /\ (Clean(e, k) => C(k))
      BY <2>t
    <3>1. (Untouched(e, k) => Untouched(e, k)') /\ (Clean(e, k) => Clean(e, k)')
      BY CleanStore
    <3> QED
      BY <3>1 DEF Untouched, Clean
  <2> SUFFICES /\ x.pc \notin {"idle", "asked", "complete"} =>
                     /\ \A k \in Tools : k > x.tool => U(k)
                     /\ x.ran \subseteq {"completed"} /\ ~x.lost =>
                           \A k \in Tools :
                               k < x.tool \/ (k = x.tool /\ x.pc \in {"leased", "probe"}) => C(k)
               /\ x.pc \in Kinds \cup {"tool"} =>
                     /\ runs'[t][x.tool] \in {"absent", "running"}
                     /\ \A q \in reqs' : q.tok = t /\ q.tool = x.tool /\ q.kind = "result" =>
                           x.wait /\ Sent(q) = RequestOf(w)'
               /\ x.pc = "complete" /\ x.st = "completed" => \A k \in Tools : C(k)
    BY <2>1 DEF Record1, Record2, Record3, Untouched, Clean
  <2> HIDE DEF U, C
  <2>3. CASE Unanswered(w, r)
    <3>0. x = y /\ ~(y.wait /\ RequestOf(w) = Sent(r))
      BY <2>3 DEF Unanswered
    <3>1. RequestOf(w)' = RequestOf(w)
      BY <3>0 DEF RequestOf
    <3>2. ASSUME y.pc \in Kinds \cup {"tool"}
          PROVE  /\ runs'[t][y.tool] \in {"absent", "running"}
                 /\ \A q \in reqs' : q.tok = t /\ q.tool = y.tool /\ q.kind = "result" =>
                       y.wait /\ Sent(q) = RequestOf(w)
      <4>1. /\ runs[t][y.tool] \in {"absent", "running"} /\ y.tool \in Tools
            /\ \A q \in reqs : q.tok = t /\ q.tool = y.tool /\ q.kind = "result" =>
                  y.wait /\ Sent(q) = RequestOf(w)
        BY <2>2, <2>y, <3>2 DEF Record2, Shape
      <4>2. ~(r.tok = t /\ r.tool = y.tool /\ r.kind = "result")
        BY <3>0, <4>1
      <4>3. runs'[t][y.tool] \in {"absent", "running"}
        BY <1>1, <1>r, <2>t, <4>1, <4>2 DEF Opened, Kinds
      <4> QED
        BY <1>1, <4>1, <4>3
    <3> QED
      BY <2>2, <3>0, <2>u, <3>1, <3>2 DEF Record1, Record3
  <2>6. ASSUME Waits(w, r)
        PROVE  /\ runs[t][y.tool] \in {"absent", "running"} /\ y.tool \in Tools
               /\ r.tok = t /\ r.tool = y.tool /\ (r.kind = "result" => r.st = y.st)
               /\ \A q \in reqs' : q.tok = t /\ q.tool = y.tool => q.kind # "result"
               /\ \A k \in Tools : k > y.tool => U(k)
               /\ y.ran \subseteq {"completed"} /\ ~y.lost => \A k \in Tools : k < y.tool => C(k)
    <3>1. y.wait /\ RequestOf(w) = Sent(r) /\ y.pc = r.kind /\ y.pc \in Kinds
      BY <2>6 DEF Waits
    <3>2. r.tok = t /\ r.tool = y.tool /\ (r.kind = "result" => r.st = y.st)
      BY <3>1, <1>s DEF RequestOf
    <3>3. /\ runs[t][y.tool] \in {"absent", "running"} /\ y.tool \in Tools
          /\ \A q \in reqs : q.tok = t /\ q.tool = y.tool /\ q.kind = "result" =>
                Sent(q) = RequestOf(w)
      BY <2>2, <2>y, <3>1 DEF Record2, Shape
    <3>4. ASSUME NEW q \in reqs', q.tok = t, q.tool = y.tool, q.kind = "result" PROVE FALSE
      <4>1. q \in reqs /\ q # r /\ Sent(q) = Sent(r)
        BY <1>1, <3>1, <3>3, <3>4
      <4>2. r.kind = "result"
        <5>1. q \in Requests /\ r \in Requests
          BY <4>1 DEF TypeOK
        <5> QED
          BY <3>4, <4>1, <5>1 DEF Sent, Requests
      <4> QED
        BY <3>2, <3>4, <4>1, <4>2 DEF Reports
    <3>5. /\ \A k \in Tools : k > y.tool => U(k)
          /\ y.ran \subseteq {"completed"} /\ ~y.lost => \A k \in Tools : k < y.tool => C(k)
      BY <2>2, <2>u, <3>1 DEF Record1, Kinds
    <3> QED
      BY <3>2, <3>3, <3>4, <3>5
  <2>5. CASE Retries(w, r)
    <3>1. /\ x.wait = FALSE /\ x.pc = y.pc /\ x.ran = y.ran /\ x.lost = y.lost /\ x.st = y.st
          /\ y.pc \in Kinds /\ Waits(w, r) /\ Clash(r)
      BY <2>5, <2>y DEF Retries, Waits, WorkerStates
    <3>2. runs'[t][y.tool] \in {"absent", "running"}
      <4>1. r.saw = "absent" /\ runs[r.tok][r.tool] = "running"
        BY <2>6, <3>1 DEF Clash, HasRun
      <4> QED
        BY <1>1, <1>r, <2>6, <3>1, <4>1 DEF Opened, Record, Kinds
    <3> QED
      BY <2>1, <2>6, <3>1, <3>2 DEF Kinds
  <2>4. CASE Answered(w, r)
    <3>0. y.wait /\ y.pc = r.kind /\ y.pc \in Kinds /\ Waits(w, r) /\ ~Clash(r)
      BY <2>4 DEF Answered, Waits
    <3>1. PICK outcome \in {"ok", "lost"} : (r.kind # "evidence" => outcome = "ok") /\ x = After(y, outcome)
      BY <2>4 DEF Answered
    <3>2. /\ ~x.wait
          /\ y.pc = "started" => x.pc = "tool" /\ x.ran = y.ran /\ x.lost = y.lost
          /\ y.pc = "evidence" => x.pc = "result" /\ x.ran = y.ran /\ x.lost = y.lost
          /\ y.pc = "result" => x.pc = "probe" /\ x.ran = y.ran \cup {y.st} /\ x.lost = (y.lost \/ outcome # "ok")
      BY <3>0, <2>y, <3>1, AfterOK
    <3>3. runs[t][y.tool] \in {"absent", "running"} /\ y.tool \in Tools
      BY <2>6, <3>0
    <3>4. r.tok = t /\ r.tool = y.tool /\ (r.kind = "result" => r.st = y.st)
      BY <2>6, <3>0
    <3>5. \A q \in reqs' : q.tok = t /\ q.tool = y.tool => q.kind # "result"
      BY <2>6, <3>0
    <3>6. /\ \A k \in Tools : k > y.tool => U(k)
          /\ y.ran \subseteq {"completed"} /\ ~y.lost => \A k \in Tools : k < y.tool => C(k)
      BY <2>6, <3>0
    <3>7. CASE y.pc \in {"started", "evidence"}
      <4>1. runs'[t][y.tool] \in {"absent", "running"}
        BY <1>1, <3>0, <3>3, <3>4, <3>7 DEF Opened
      <4> QED
        BY <2>1, <3>2, <3>5, <3>6, <3>7, <4>1 DEF Kinds
    <3>8. CASE y.pc = "result"
      <4>1. x.pc = "probe" /\ (x.ran \subseteq {"completed"} /\ ~x.lost =>
                                  y.ran \subseteq {"completed"} /\ ~y.lost /\ y.st = "completed")
        BY <3>2, <3>8
      <4>2. ASSUME y.st = "completed" PROVE C(y.tool)
        <5>0. r.kind = "result" /\ r.st = "completed" /\ runs[t][y.tool] \in {"absent", "running"}
          BY <3>0, <3>3, <3>4, <3>8, <4>2
        <5>2. runs[t][y.tool] = "running" => r.saw = "running"
          <6>1. r.saw # "unread"
            BY <5>0 DEF Store
          <6>2. runs[t][y.tool] = "running" => r.saw # "absent"
            BY <3>0, <3>4 DEF Clash, HasRun
          <6>3. runs[t][y.tool] = "running" => r.saw # "ended"
            BY <3>4, <5>0 DEF Reports, ToolStatuses
          <6> QED
            BY <1>r, <6>1, <6>2, <6>3 DEF Sights
        <5>1. runs'[t][y.tool] = "completed"
          BY <1>1, <3>4, <5>0, <5>2 DEF Record
        <5> QED
          BY <5>1, <3>5 DEF C
      <4> QED
        BY <2>1, <2>t, <3>6, <4>1, <4>2 DEF Kinds
    <3> QED
      BY <3>0, <3>7, <3>8 DEF Kinds
  <2> QED
    BY <2>w, <2>3, <2>4, <2>5
<1>4. \A w \in Workers : Backed(w)'
  BY <1>3 DEF Backed, Record1, Record2, Record3
<1> QED
  BY <1>2, <1>4 DEF RecordInv

\* Admitting a POST adds a request of the tool the owner is at.
LEMMA RecordsAdmit ==
    ASSUME TypeOK, Shapes, Tokens, RecordInv, NEW w \in Workers, PostAdmitted(w)
    PROVE  RecordInv'
<1> DEFINE y == wk[w]
           q == RequestOf(w)
<1>1. /\ y.pc \in Kinds /\ ~y.wait /\ row.token = y.tok
      /\ reqs' = reqs \cup {q}
      /\ wk'[w] = [y EXCEPT !.wait = TRUE]
      /\ \A v \in Workers : v # w => wk'[v] = wk[v]
      /\ row' = row /\ runs' = runs /\ minted' = minted /\ winners' = winners
  BY AdmitOK
<1>y. y \in WorkerStates /\ Shape(y) /\ y.tok # None /\ y.tool \in Tools
  BY <1>1 DEF TypeOK, Shapes, Shape, Kinds
<1>z. \A k \in Tools : k \in Int
  BY LeaseAssumption DEF Tools
<1>q. q.tok = y.tok /\ q.tool = y.tool /\ q.kind = y.pc
  BY DEF RequestOf
<1>2. CompletedBacked'
  BY <1>1, <1>y DEF Tokens, CompletedBacked
<1>3. \A v \in Workers : v # w => Backed(v)'
  <2> SUFFICES ASSUME NEW v \in Workers, v # w, wk'[v].tok # None, row'.token = wk'[v].tok PROVE FALSE
    BY DEF Backed
  <2> QED
    BY <1>1, <1>y DEF Tokens
<1>4. Record1(y) /\ Record2(w)
  BY <1>1, <1>y, BackedParts DEF RecordInv
<1>x. /\ wk'[w].wait = TRUE /\ wk'[w].pc = y.pc /\ wk'[w].tok = y.tok /\ wk'[w].tool = y.tool
      /\ wk'[w].st = y.st /\ wk'[w].ran = y.ran /\ wk'[w].lost = y.lost
  BY <1>1, <1>y DEF WorkerStates
<1>r. RequestOf(w)' = q /\ Sent(q) = q
  BY <1>x DEF RequestOf, Sent
<1> HIDE DEF q
<1>5. Record1(wk[w])'
  <2>1. /\ \A k \in Tools : k > y.tool => Untouched(y.tok, k)
        /\ y.ran \subseteq {"completed"} /\ ~y.lost => \A k \in Tools : k < y.tool => Clean(y.tok, k)
    BY <1>1, <1>4 DEF Record1, Kinds
  <2>2. \A k \in Tools : k > y.tool \/ k < y.tool => k # q.tool
    BY <1>q, <1>y, <1>z
  <2>3. y.pc \notin {"leased", "probe"}
    BY <1>1 DEF Kinds
  <2> SUFFICES /\ \A k \in Tools : k > y.tool =>
                     /\ runs[y.tok][k] = "absent"
                     /\ \A r \in reqs' : ~(r.tok = y.tok /\ r.tool = k)
               /\ y.ran \subseteq {"completed"} /\ ~y.lost =>
                     \A k \in Tools : k < y.tool =>
                        /\ runs[y.tok][k] \in {"absent", "completed"}
                        /\ \A r \in reqs' : r.tok = y.tok /\ r.tool = k =>
                              r.kind # "result" /\ (r.kind = "started" => runs[y.tok][k] = "completed")
    BY <1>1, <1>x, <2>3 DEF Record1, Untouched, Clean
  <2> QED
    BY <1>1, <2>1, <2>2 DEF Untouched, Clean
<1>6. Record2(w)'
  <2>1. /\ runs[y.tok][y.tool] \in {"absent", "running"}
        /\ \A r \in reqs : r.tok = y.tok /\ r.tool = y.tool => r.kind # "result"
    BY <1>1, <1>4 DEF Record2
  <2> QED
    BY <1>1, <1>x, <1>r, <2>1 DEF Record2
<1>7. Record3(wk[w])'
  BY <1>1, <1>x DEF Record3, Kinds
<1>8. Backed(w)'
  BY <1>5, <1>6, <1>7 DEF Backed, Record1, Record2, Record3
<1> QED
  BY <1>2, <1>3, <1>8 DEF RecordInv

\* A result that reads its tool run leaves the records as they are.
LEMMA RecordsRead ==
    ASSUME TypeOK, Shapes, RecordInv, NEW r \in reqs, ReadRun(r)
    PROVE  RecordInv'
<1>1. PICK p : /\ reqs' = (reqs \ {r}) \cup {p}
               /\ p.tok = r.tok /\ p.tool = r.tool /\ p.kind = r.kind /\ Sent(p) = Sent(r)
  BY ReadOK
<1>2. wk' = wk /\ row' = row /\ runs' = runs /\ minted' = minted /\ winners' = winners
  BY ReadOK
<1>3. \A t, k : (Untouched(t, k) => Untouched(t, k)') /\ (Clean(t, k) => Clean(t, k)')
  BY <1>1, <1>2 DEF Untouched, Clean
<1>4. CompletedBacked'
  BY <1>2, <1>3 DEF RecordInv, CompletedBacked
<1>5. ASSUME NEW w \in Workers, wk'[w].tok # None, row'.token = wk'[w].tok
      PROVE  Record1(wk[w])' /\ Record2(w)' /\ Record3(wk[w])'
  <2>1. Record1(wk[w]) /\ Record2(w) /\ Record3(wk[w])
    BY <1>2, <1>5, BackedParts DEF RecordInv
  <2>2. RequestOf(w)' = RequestOf(w)
    BY <1>2 DEF RequestOf
  <2>3. Record2(w)'
    BY <1>1, <1>2, <2>1, <2>2 DEF Record2
  <2>4. Record1(wk[w])' /\ Record3(wk[w])'
    BY <1>2, <1>3, <2>1 DEF Record1, Record3
  <2> QED
    BY <2>3, <2>4
<1>6. \A w \in Workers : Backed(w)'
  BY <1>5 DEF Backed, Record1, Record2, Record3
<1> QED
  BY <1>4, <1>6 DEF RecordInv

\* The records are kept by every step.
LEMMA RecordStep ==
    TypeOK /\ Shapes /\ Tokens /\ RecordInv /\ Reports /\ [Next]_vars => RecordInv'
<1> SUFFICES ASSUME TypeOK, Shapes, Tokens, RecordInv, Reports, [Next]_vars PROVE RecordInv'
  OBVIOUS
<1>b. /\ row.token # None <=> row.status = "running"
      /\ row.token # None => row.token = minted
  BY DEF Tokens
<1>c. \A w \in Workers : wk[w].tok # None /\ row.token = wk[w].tok =>
         Record1(wk[w]) /\ Record2(w) /\ Record3(wk[w])
  BY BackedParts DEF RecordInv
<1>1. CASE UNCHANGED vars
  <2>1. UNCHANGED <<row, wk, runs, reqs, minted, winners>>
    BY <1>1 DEF vars, hist
  <2>2. \A w \in Workers : Backed(w)'
    BY <2>1, BackedStays DEF RecordInv
  <2> QED
    BY <2>1, <2>2 DEF RecordInv, CompletedBacked, Clean
<1>2. ASSUME NEW w \in Workers, LeaseClaim(w) PROVE RecordInv'
  <2>1. /\ minted' = minted + 1 /\ minted' \in Executions
        /\ row'.token = minted' /\ row'.status = "running"
        /\ runs' = runs /\ reqs' = reqs
        /\ \A v \in Workers : v # w => wk'[v] = wk[v]
        /\ \/ wk'[w].pc = "leased" /\ wk'[w].tok = minted' /\ wk'[w].tool = 0
           \/ wk'[w] = Idle
    BY <1>2, ClaimOK
  <2>m. minted \in Nat /\ minted' > minted /\ ~(minted' <= minted)
    BY <2>1, LeaseAssumption DEF TypeOK
  <2>2. ASSUME NEW v \in Workers, v # w PROVE Backed(v)'
    <3>1. wk[v].tok # None => wk[v].tok # minted'
      BY <2>m DEF Tokens
    <3> QED
      BY <2>1, <2>2, <3>1 DEF Backed
  <2>3. Backed(w)'
    <3>1. CASE wk'[w] = Idle
      BY <3>1 DEF Backed, Idle
    <3>2. CASE wk'[w].pc = "leased" /\ wk'[w].tok = minted' /\ wk'[w].tool = 0
      <4>1. \A k \in Tools : runs'[minted'][k] = "absent"
        BY <2>1, <2>m DEF Tokens
      <4>2. \A r \in reqs' : r.tok # minted'
        BY <2>1, <2>m DEF Tokens
      <4>3. \A k \in Tools : ~(k < 0) /\ k # 0
        BY LeaseAssumption DEF Tools
      <4>4. Record1(wk[w])'
        BY <3>2, <4>1, <4>2, <4>3 DEF Record1, Untouched
      <4>5. Record2(w)' /\ Record3(wk[w])'
        BY <3>2 DEF Record2, Record3, Kinds
      <4> QED
        BY <4>4, <4>5 DEF Backed, Record1, Record2, Record3
    <3> QED
      BY <2>1, <3>1, <3>2
  <2> QED
    BY <2>1, <2>2, <2>3 DEF RecordInv, CompletedBacked
<1>3. ASSUME NEW w \in Workers, Complete(w) PROVE RecordInv'
  <2>1. /\ wk[w].pc = "complete" /\ row.token = wk[w].tok
        /\ row'.status = wk[w].st /\ row'.token = None
        /\ winners' = winners \cup {wk[w].tok}
        /\ runs' = runs /\ reqs' = reqs /\ minted' = minted
    BY <1>3, CompleteOK DEF Owns
  <2>2. wk[w].tok # None
    BY <2>1 DEF Shapes, Shape
  <2>3. \A v \in Workers : Backed(v)'
    BY <2>1 DEF Backed
  <2>4. minted \in winners' /\ (row'.status = "completed" => \A k \in Tools : Clean(minted, k))
    BY <2>1, <2>2, <1>b, <1>c DEF Record3
  <2> QED
    BY <2>1, <2>3, <2>4 DEF RecordInv, CompletedBacked, Clean
<1>4. CASE RowOnly
  <2>1. /\ wk' = wk /\ reqs' = reqs /\ minted' = minted /\ winners' = winners /\ runs' = runs
        /\ row'.token \in {row.token, None} /\ (row'.status = "completed" => row.status = "completed")
    BY <1>4 DEF RowOnly
  <2>2. \A w \in Workers : Backed(w)'
    BY <2>1, BackedStays DEF RecordInv
  <2> QED
    BY <2>1, <2>2 DEF RecordInv, CompletedBacked, Clean
<1>5. CASE Reconcile
  <2>1. /\ wk' = wk /\ row' = row /\ reqs' = reqs /\ minted' = minted /\ winners' = winners
        /\ row.token = None
        /\ \A t \in Executions, k \in Tools :
              runs[t][k] \in {"absent", "completed"} => runs'[t][k] = runs[t][k]
    BY <1>5, <1>b, ReconcileOK DEF Terminal
  <2>2. \A w \in Workers : Backed(w)'
    BY <2>1 DEF Backed
  <2>3. minted \in winners => minted \in Executions
    BY DEF TypeOK
  <2> QED
    BY <2>1, <2>2, <2>3 DEF RecordInv, CompletedBacked, Clean
<1>6. CASE Next
  BY <1>2, <1>3, <1>4, <1>5, <1>6, Steps, RecordsMove, RecordsRead, RecordsStore, RecordsAdmit
<1> QED
  BY <1>1, <1>6

\* So are the reports: the owner sends a result of a tool only once.
LEMMA ReportsStep ==
    TypeOK /\ Shapes /\ Tokens /\ RecordInv /\ Reports /\ [Next]_vars => Reports'
<1> SUFFICES ASSUME TypeOK, Shapes, Tokens, RecordInv, Reports, [Next]_vars PROVE Reports'
  OBVIOUS
<1>s. reqs' = reqs /\ runs' = runs => Reports'
  BY DEF Reports
<1>1. CASE UNCHANGED vars
  BY <1>1, <1>s DEF vars, hist
<1>2. ASSUME NEW w \in Workers, Quits(w) \/ Advances(w) \/ LeaseClaim(w) \/ Complete(w)
      PROVE  Reports'
  <2>1. reqs' = reqs /\ runs' = runs
    BY <1>2, MovesOK, ClaimOK, CompleteOK DEF Quits, Advances
  <2> QED
    BY <2>1, <1>s
<1>3. ASSUME NEW w \in Workers, PostAdmitted(w) PROVE Reports'
  <2> DEFINE q == RequestOf(w)
  <2>1. /\ reqs' = reqs \cup {q} /\ runs' = runs
        /\ wk[w].pc \in Kinds /\ ~wk[w].wait /\ row.token = wk[w].tok
    BY <1>3, AdmitOK
  <2>2. wk[w].tok # None
    BY <2>1 DEF Shapes, Shape, Kinds
  <2>3. Record2(w)
    BY <2>1, <2>2, BackedParts DEF RecordInv
  <2>4. q.tok = wk[w].tok /\ q.tool = wk[w].tool /\ q.saw = "unread"
    BY DEF RequestOf
  <2> HIDE DEF q
  <2>5. \A r \in reqs : r.kind = "result" => ~(r.tok = q.tok /\ r.tool = q.tool)
    BY <2>1, <2>3, <2>4 DEF Record2
  <2> QED
    BY <2>1, <2>4, <2>5 DEF Reports
<1>4. ASSUME NEW r \in reqs, ReadRun(r) PROVE Reports'
  <2>1. PICK p : /\ reqs' = (reqs \ {r}) \cup {p} /\ p.tok = r.tok /\ p.tool = r.tool
                 /\ p.saw = Sight(runs[r.tok][r.tool])
    BY <1>4, ReadOK
  <2>2. runs' = runs /\ r.kind = "result"
    BY <1>4, ReadOK
  <2>3. /\ p.saw = "running" => runs[r.tok][r.tool] = "running"
        /\ p.saw = "ended" => runs[r.tok][r.tool] \in ToolStatuses
    <3>1. runs[r.tok][r.tool] \in RunStatuses
      BY DEF TypeOK, Requests
    <3> QED
      BY <2>1, <3>1 DEF Sight, RunStatuses
  <2>4. \A q \in reqs \ {r} : q.kind = "result" => ~(q.tok = p.tok /\ q.tool = p.tool)
    BY <2>1, <2>2 DEF Reports
  <2> QED
    BY <2>1, <2>2, <2>3, <2>4 DEF Reports
<1>5. ASSUME NEW r \in reqs, Store(r) PROVE Reports'
  <2>1. /\ reqs' = reqs \ {r} /\ r.kind \in Kinds
        /\ \A t \in Executions, k \in Tools : ~(t = r.tok /\ k = r.tool) => runs'[t][k] = runs[t][k]
        /\ r.kind = "started" => runs'[r.tok][r.tool] = Opened(runs[r.tok][r.tool])
        /\ r.kind = "evidence" => runs'[r.tok][r.tool] = runs[r.tok][r.tool]
    BY <1>5, StoreOK DEF TypeOK, Requests
  <2>2. ASSUME NEW q \in reqs', q.kind = "result"
        PROVE  /\ q.saw = "running" => runs'[q.tok][q.tool] \in {"running", "failed"}
               /\ q.saw = "ended" => runs'[q.tok][q.tool] \in ToolStatuses
    <3>1. q \in reqs /\ q # r /\ q.tok \in Executions /\ q.tool \in Tools
      BY <2>1 DEF TypeOK, Requests
    <3>2. /\ q.saw = "running" => runs[q.tok][q.tool] \in {"running", "failed"}
          /\ q.saw = "ended" => runs[q.tok][q.tool] \in ToolStatuses
      BY <2>2, <3>1 DEF Reports
    <3>3. CASE q.tok = r.tok /\ q.tool = r.tool
      <4>1. r.kind # "result"
        BY <2>2, <3>1, <3>3 DEF Reports
      <4> QED
        BY <2>1, <3>2, <3>3, <4>1 DEF Opened, ToolStatuses, Kinds
    <3> QED
      BY <2>1, <3>1, <3>2, <3>3
  <2> QED
    BY <2>1, <2>2 DEF Reports
<1>6. CASE RowOnly
  BY <1>6, <1>s DEF RowOnly
<1>7. CASE Reconcile
  <2>1. /\ reqs' = reqs
        /\ \A t \in Executions, k \in Tools :
              runs'[t][k] = IF runs[t][k] = "running" THEN "failed" ELSE runs[t][k]
    BY <1>7, ReconcileOK
  <2>2. \A r \in reqs : r.tok \in Executions /\ r.tool \in Tools
    BY DEF TypeOK, Requests
  <2> QED
    BY <2>1, <2>2 DEF Reports, ToolStatuses
<1>8. CASE Next
  BY <1>2, <1>3, <1>4, <1>5, <1>6, <1>7, <1>8, Steps
<1> QED
  BY <1>1, <1>8

-----------------------------------------------------------------------------
(* Theorems                                                                *)

LeaseInv == TypeOK /\ Shapes /\ Tokens /\ RecordInv /\ Reports

LEMMA LeaseInit == Init => LeaseInv
<1> SUFFICES ASSUME Init PROVE LeaseInv
  OBVIOUS
<1>1. wk = [w \in Workers |-> Idle] /\ Idle.tok = None
  BY DEF Init, Idle
<1>2. NewRow \in Rows /\ NewRow.token = None /\ NewRow.status = "queued"
  BY AgeAssumption DEF NewRow, Rows, Statuses, AgeOrNull, Ages
<1>3. TypeOK
  <2>1. wk \in [Workers -> WorkerStates]
    BY <1>1, IdleOK
  <2>2. runs \in [Executions -> [Tools -> RunStatuses]]
    BY DEF Init, RunStatuses
  <2>3. recovery \in BOOLEAN /\ open \in BOOLEAN /\ own \in BOOLEAN
    BY DEF Init
  <2>4. done \in Ages /\ minted \in 0 .. MaxExecutions /\ faults \in Nat
    BY AgeAssumption, LeaseAssumption DEF Init, Ages
  <2>5. row \in Rows /\ reqs \in SUBSET Requests /\ winners \in SUBSET Executions
    BY <1>2 DEF Init
  <2> QED
    BY <2>1, <2>2, <2>3, <2>4, <2>5 DEF TypeOK
<1>4. Shapes
  BY <1>1, IdleOK DEF Shapes
<1>5. Tokens
  BY <1>1, <1>2 DEF Init, Tokens
<1>6. RecordInv
  BY <1>1, <1>2 DEF Init, RecordInv, Backed, CompletedBacked
<1>7. Reports
  BY DEF Init, Reports
<1> QED
  BY <1>3, <1>4, <1>5, <1>6, <1>7 DEF LeaseInv

LEMMA LeaseStep == LeaseInv /\ [Next]_vars => LeaseInv'
BY TypeStep, TokensStep, RecordStep, ReportsStep DEF LeaseInv

LEMMA LeaseInvariant == Spec => []LeaseInv
BY LeaseInit, LeaseStep, PTL DEF Spec

\* Every variable of the lease path stays in its type: no interleaving of the
\* workers, the manager's endpoints and the sweeps writes a status, a token or
\* a verdict that the schema does not have.
THEOREM LeaseTypeTheorem == Spec => []TypeOK
<1>1. LeaseInv => TypeOK
  BY DEF LeaseInv
<1> QED
  BY <1>1, LeaseInvariant, PTL

\* A scan that is reported completed is backed by the records of the execution
\* that completed it, whatever POST was lost, refused or stored late.
THEOREM StoredTheorem == Spec => []CompletedIsStored
<1>1. LeaseInv => CompletedIsStored
  <2> SUFFICES ASSUME LeaseInv, row.status = "completed" PROVE CompletedIsStored
    BY DEF CompletedIsStored
  <2>1. minted \in winners /\ \A k \in Tools : runs[minted][k] \in {"absent", "completed"}
    BY DEF LeaseInv, RecordInv, CompletedBacked, Clean
  <2>2. \A u \in winners : u <= minted
    BY DEF LeaseInv, Tokens
  <2> QED
    BY <2>1, <2>2 DEF CompletedIsStored
<1> QED
  BY <1>1, LeaseInvariant, PTL

\* A tool run that has ended keeps its status, /v1/tool-results, /v1/tool-started
\* and the reconciler notwithstanding, except that the run's own result, if it
\* had read the row while the tool was running, replaces a 'failed' that the
\* run never reported.
THEOREM RunsFinalTheorem == Spec => ReportedRunsFinal
<1> DEFINE Kept == \A t \in Executions, k \in Tools :
                      runs[t][k] \in ToolStatuses /\ runs'[t][k] # runs[t][k]
                      => /\ runs[t][k] = "failed"
                         /\ \E r \in reqs \ reqs' :
                               /\ r.tok = t /\ r.tool = k /\ r.kind = "result"
                               /\ r.saw = "running" /\ r.st = runs'[t][k]
<1>1. LeaseInv /\ [Next]_vars => [Kept]_vars
  <2> SUFFICES ASSUME LeaseInv, Next PROVE Kept
    OBVIOUS
  <2>t. TypeOK /\ Shapes /\ Reports
    BY DEF LeaseInv
  <2>1. ASSUME NEW w \in Workers,
               Quits(w) \/ Advances(w) \/ LeaseClaim(w) \/ PostAdmitted(w) \/ Complete(w)
        PROVE  Kept
    <3>1. CASE Quits(w) \/ Advances(w)
      BY <2>t, <3>1, MovesOK DEF Quits, Advances
    <3>2. CASE LeaseClaim(w) \/ PostAdmitted(w) \/ Complete(w)
      BY <2>t, <3>2, ClaimOK, AdmitOK, CompleteOK
    <3> QED
      BY <2>1, <3>1, <3>2
  <2>2. ASSUME NEW r \in reqs, Store(r) PROVE Kept
    <3> SUFFICES ASSUME NEW t \in Executions, NEW k \in Tools,
                        runs[t][k] \in ToolStatuses, runs'[t][k] # runs[t][k]
                 PROVE  /\ runs[t][k] = "failed"
                        /\ \E q \in reqs \ reqs' :
                              /\ q.tok = t /\ q.tool = k /\ q.kind = "result"
                              /\ q.saw = "running" /\ q.st = runs'[t][k]
      OBVIOUS
    <3>1. /\ t = r.tok /\ k = r.tool /\ r \in reqs \ reqs'
          /\ r.kind = "started" => runs'[t][k] = Opened(runs[t][k])
          /\ r.kind = "evidence" => runs'[t][k] = runs[t][k]
          /\ r.kind = "result" => runs'[t][k] = Record(r, runs[t][k])
      BY <2>t, <2>2, StoreOK
    <3>2. r.kind = "result"
      <4>1. r.kind \in Kinds
        BY <2>t DEF TypeOK, Requests
      <4> QED
        BY <3>1, <4>1 DEF Opened, ToolStatuses, Kinds
    <3>3. r.saw = "running" /\ r.st = runs'[t][k]
      BY <3>1, <3>2 DEF Record, ToolStatuses
    <3>4. runs[t][k] = "failed"
      BY <2>t, <3>1, <3>2, <3>3 DEF Reports, ToolStatuses
    <3> QED
      BY <3>1, <3>2, <3>3, <3>4
  <2>r. ASSUME NEW r \in reqs, ReadRun(r) PROVE Kept
    <3>1. runs' = runs
      BY <2>t, <2>r, ReadOK
    <3> QED
      BY <3>1
  <2>3. CASE RowOnly
    BY <2>3 DEF RowOnly
  <2>4. CASE Reconcile
    BY <2>t, <2>4, ReconcileOK DEF ToolStatuses
  <2> QED
    BY <2>t, <2>1, <2>2, <2>r, <2>3, <2>4, Steps
<1> QED
  BY <1>1, LeaseInvariant, PTL DEF Spec, ReportedRunsFinal

\* The lease path implements ScanOwnership: every step of it grants, concludes,
\* revokes or cancels the ownership of the scan, or leaves it alone.
THEOREM LeaseOwnershipTheorem == Spec => OwnershipKept
<1>1. Init => Ownership!OInit
  BY DEF Init, NewRow, Phase, Ownership!OInit, Ownership!NoOne, None
<1>2. LeaseInv /\ [Next]_vars => [Ownership!ONext]_(Ownership!ovars)
  <2> SUFFICES ASSUME LeaseInv, [Next]_vars PROVE [Ownership!ONext]_(Ownership!ovars)
    OBVIOUS
  <2>t. TypeOK /\ Shapes
    BY DEF LeaseInv
  <2>b. /\ row.token # None <=> row.status = "running"
        /\ row.status \in Statuses
    BY DEF LeaseInv, Tokens, TypeOK, Rows
  <2>s. ASSUME row'.status = row.status, row'.token = row.token, winners' = winners
        PROVE  [Ownership!ONext]_(Ownership!ovars)
    <3>1. Phase' = Phase
      BY <2>s DEF Phase
    <3> QED
      BY <2>s, <3>1 DEF Ownership!ovars
  <2>1. CASE UNCHANGED vars
    BY <2>1, <2>s DEF vars, hist
  <2>2. ASSUME NEW w \in Workers, Quits(w) \/ Advances(w) \/ PostAdmitted(w)
        PROVE  [Ownership!ONext]_(Ownership!ovars)
    <3>1. row' = row /\ winners' = winners
      BY <2>t, <2>2, MovesOK, AdmitOK DEF Quits, Advances
    <3> QED
      BY <3>1, <2>s
  <2>3. ASSUME NEW w \in Workers, LeaseClaim(w)
        PROVE  [Ownership!ONext]_(Ownership!ovars)
    <3>1. /\ minted' = minted + 1 /\ minted' \in Executions
          /\ row'.token = minted' /\ row'.status = "running" /\ CanClaim(row)
          /\ winners' = winners
      BY <2>t, <2>3, ClaimOK
    <3>2. minted' \in Nat \ winners
      <4>1. minted \in Nat /\ minted' \in Nat /\ ~(minted' <= minted)
        BY <2>t, <3>1, LeaseAssumption DEF TypeOK
      <4>2. \A t \in winners : t <= minted
        BY DEF LeaseInv, Tokens
      <4> QED
        BY <4>1, <4>2
    <3>3. Phase \in {"open", "failed"} /\ Phase' = "held"
      BY <3>1 DEF Phase, CanClaim, Claimable
    <3> QED
      BY <3>1, <3>2, <3>3 DEF Ownership!ONext, Ownership!Grant
  <2>4. ASSUME NEW w \in Workers, Complete(w)
        PROVE  [Ownership!ONext]_(Ownership!ovars)
    <3>1. /\ Owns(row, wk[w].tok) /\ wk[w].st \in Terminal
          /\ row'.status = wk[w].st /\ row'.token = None /\ winners' = winners \cup {wk[w].tok}
      BY <2>t, <2>4, CompleteOK
    <3>2. Phase = "held" /\ Phase' \in {"failed", "settled"}
      BY <3>1 DEF Phase, Owns, Terminal
    <3> QED
      BY <3>1, <3>2 DEF Ownership!ONext, Ownership!Conclude, Ownership!NoOne, None, Owns
  <2>5. ASSUME NEW r \in reqs, ReadRun(r) \/ Store(r)
        PROVE  [Ownership!ONext]_(Ownership!ovars)
    <3>1. row' = row /\ winners' = winners
      BY <2>t, <2>5, ReadOK, StoreOK
    <3> QED
      BY <3>1, <2>s
  <2>6. CASE RowOnly
    <3>1. winners' = winners
      BY <2>6 DEF RowOnly
    <3>2. CASE row'.status = row.status /\ row'.token = row.token
      BY <3>1, <3>2, <2>s
    <3>3. CASE row.status = "running" /\ row'.status = "failed" /\ row'.token = None
      <4>1. Phase = "held" /\ Phase' = "failed"
        BY <3>3 DEF Phase
      <4> QED
        BY <3>1, <3>3, <4>1 DEF Ownership!ONext, Ownership!Revoke, Ownership!NoOne, None
    <3>4. CASE row.status \in {"queued", "running"} /\ row'.status = "cancelled" /\ row'.token = None
      <4>1. Phase \in {"open", "held"} /\ Phase' = "settled"
        BY <3>4 DEF Phase
      <4> QED
        BY <3>1, <3>4, <4>1 DEF Ownership!ONext, Ownership!Cancel, Ownership!NoOne, None
    <3> QED
      BY <2>6, <3>2, <3>3, <3>4 DEF RowOnly
  <2>7. CASE Reconcile
    <3>1. row' = row /\ winners' = winners
      BY <2>t, <2>7, ReconcileOK
    <3> QED
      BY <3>1, <2>s
  <2> QED
    BY <2>t, <2>1, <2>2, <2>3, <2>4, <2>5, <2>6, <2>7, Steps
<1> QED
  BY <1>1, <1>2, LeaseInvariant, PTL DEF Spec, OwnershipKept, Ownership!OSpec

=============================================================================
