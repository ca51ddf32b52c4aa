-------------------------- MODULE WorkerFleetProofs --------------------------
(***************************************************************************)
(* Theorems about WorkerFleet for every fleet, every stale window and any  *)
(* number of platform outages.                                             *)
(***************************************************************************)
EXTENDS WorkerFleet, TLAPS

-----------------------------------------------------------------------------
(* Types                                                                   *)

\* The initial fleet has the right types.
LEMMA FleetTypeInit == Init => TypeOK
BY FleetAssumption DEF Init, TypeOK, Statuses, Ages

\* Ages stay ages, and a fresh one becomes at most one tick old.
LEMMA OlderAge == /\ \A a \in Ages : Older(a) \in Ages
                  /\ 0 \in Ages /\ Older(0) = 1
BY FleetAssumption DEF Older, Ages

\* Every step keeps the types.
LEMMA FleetTypeStep == TypeOK /\ [Next]_vars => TypeOK'
<1> SUFFICES ASSUME TypeOK, [Next]_vars PROVE TypeOK'
  OBVIOUS
<1> USE DEF TypeOK, wvars, pvars, svars
<1>1. ASSUME NEW w \in Workers, Step(w) PROVE TypeOK'
  <2>1. CASE Start(w)
    BY <2>1 DEF Start
  <2>2. CASE Die(w)
    BY <2>2 DEF Die
  <2>3. CASE Beat(w)
    BY <2>3, OlderAge DEF Beat
  <2>4. CASE BeatRolledBack(w)
    BY <2>4 DEF BeatRolledBack
  <2>5. CASE LeaseAsk(w)
    BY <2>5 DEF LeaseAsk
  <2>6. CASE LeaseRefused(w)
    BY <2>6 DEF LeaseRefused
  <2>7. CASE LeaseAnswer(w)
    <3>1. PICK got \in {FALSE, open[w]} : busy' = [busy EXCEPT ![w] = got]
      BY <2>7 DEF LeaseAnswer
    <3>2. got \in BOOLEAN
      BY <3>1
    <3>3. busy' \in [Workers -> BOOLEAN]
      BY <3>1, <3>2
    <3>4. asking' \in [Workers -> BOOLEAN]
      BY <2>7 DEF LeaseAnswer
    <3> QED
      BY <2>7, <3>3, <3>4, Zenon DEF LeaseAnswer
  <2>8. CASE Report(w) \/ ReportRefused(w) \/ ReportUnreachable(w)
    BY <2>8 DEF Report, ReportRefused, ReportUnreachable
  <2>9. CASE Drain(w) \/ Revoke(w)
    BY <2>9 DEF Drain, Revoke, Statuses
  <2>10. CASE Reactivate(w)
    BY <2>10 DEF Reactivate, Statuses
  <2>11. CASE SwitchSite(w)
    BY <2>11 DEF SwitchSite
  <2> QED
    BY <1>1, <2>1, <2>2, <2>3, <2>4, <2>5, <2>6, <2>7, <2>8, <2>9, <2>10, <2>11 DEF Step
<1>2. CASE SweepSelect
  BY <1>2 DEF SweepSelect
<1>3. CASE SweepUpdate
  <2>1. status' \in [Workers -> Statuses]
    BY <1>3 DEF SweepUpdate, Statuses
  <2>2. audit' \in SUBSET Workers
    BY <1>3 DEF SweepUpdate
  <2> QED
    BY <1>3, <2>1, <2>2 DEF SweepUpdate
<1>4. CASE PlatformDown
  <2>0. outages > 0 /\ outages' = outages - 1 /\ uptime' = 0
    BY <1>4, Zenon DEF PlatformDown
  <2>1. outages' \in Nat /\ uptime' \in Ages
    BY <2>0, OlderAge
  <2> QED
    BY <1>4, <2>1, Zenon DEF PlatformDown
<1>5. CASE PlatformUp
  BY <1>5 DEF PlatformUp
<1>6. CASE Tick
  <2>1. seen' \in [Workers -> Ages] /\ uptime' \in Ages
    BY <1>6, OlderAge DEF Tick
  <2> QED
    BY <1>6, <2>1, Zenon DEF Tick
<1>7. CASE UNCHANGED vars
  BY <1>7 DEF vars
<1> QED
  BY <1>1, <1>2, <1>3, <1>4, <1>5, <1>6, <1>7 DEF Next

\* Every variable of the fleet stays in its type.
THEOREM FleetTypeTheorem == Spec => []TypeOK
BY FleetTypeInit, FleetTypeStep, PTL DEF Spec

-----------------------------------------------------------------------------
(* The inductive invariant                                                 *)

\* A sweep that has selected is past the startup grace.
PastGrace == /\ ~up => uptime = 0
             /\ sweep = "selected" => up /\ uptime >= StaleAfter

\* A worker is not given a second scan.
OneScan == \A w \in Workers : ~(asking[w] /\ busy[w])

\* Once a full tick has passed since the platform came back, a worker that is
\* alive, may act and whose latest beat was accepted has been heard.
Heard == \A w \in Workers :
    up /\ uptime >= 1 /\ proc[w] /\ status[w] \in Working /\ beat[w] = "accepted" => seen[w] <= 1

FleetInv == PastGrace /\ OneScan /\ Heard

\* Nobody has been judged or heard yet.
LEMMA FleetInvInit == Init => FleetInv
BY FleetAssumption DEF Init, FleetInv, PastGrace, OneScan, Heard

\* Every step keeps it.
LEMMA FleetInvStep == TypeOK /\ FleetInv /\ [Next]_vars => FleetInv'
<1> SUFFICES ASSUME TypeOK, FleetInv, [Next]_vars PROVE FleetInv'
  OBVIOUS
<1> USE DEF wvars, pvars, svars, FleetInv
<1>1. ASSUME NEW w \in Workers, Step(w) PROVE FleetInv'
  <2>g. PastGrace'
    BY <1>1 DEF Step, PastGrace, Start, Die, Beat, BeatRolledBack, LeaseAsk, LeaseRefused,
       LeaseAnswer, Report, ReportRefused, ReportUnreachable, Drain, Reactivate, Revoke, SwitchSite
  <2>o. OneScan'
    <3>1. CASE LeaseAsk(w) \/ LeaseAnswer(w)
      <4>1. \A v \in Workers : v # w => asking'[v] = asking[v] /\ busy'[v] = busy[v]
        BY <3>1 DEF LeaseAsk, LeaseAnswer, TypeOK
      <4>2. ~asking'[w] \/ ~busy'[w]
        BY <3>1 DEF LeaseAsk, LeaseAnswer, TypeOK
      <4> QED
        BY <4>1, <4>2 DEF OneScan
    <3>2. CASE Die(w) \/ Report(w) \/ ReportRefused(w) \/ ReportUnreachable(w)
      BY <3>2 DEF Die, Report, ReportRefused, ReportUnreachable, OneScan, TypeOK
    <3>3. CASE ~(LeaseAsk(w) \/ LeaseAnswer(w) \/ Die(w) \/ Report(w) \/ ReportRefused(w) \/ ReportUnreachable(w))
      BY <1>1, <3>3 DEF Step, Start, Beat, BeatRolledBack, LeaseRefused, Drain, Reactivate,
         Revoke, SwitchSite, OneScan
    <3> QED
      BY <3>1, <3>2, <3>3
  <2>h. Heard'
    <3>1. CASE Start(w)
      BY <3>1 DEF Start, Heard, TypeOK
    <3>2. CASE Die(w) \/ LeaseRefused(w)
      BY <3>2 DEF Die, LeaseRefused, Heard, TypeOK
    <3>3. CASE Beat(w) \/ BeatRolledBack(w)
      <4>1. \A v \in Workers : v # w => seen'[v] = seen[v] /\ beat'[v] = beat[v]
        BY <3>3 DEF Beat, BeatRolledBack, TypeOK
      <4>2. beat'[w] = "accepted" => seen'[w] = 0
        BY <3>3 DEF Beat, BeatRolledBack, TypeOK
      <4>3. UNCHANGED <<up, uptime, proc, status>>
        BY <3>3 DEF Beat, BeatRolledBack
      <4> QED
        BY <4>1, <4>2, <4>3 DEF Heard
    <3>4. CASE LeaseAsk(w) \/ LeaseAnswer(w) \/ Report(w) \/ ReportRefused(w) \/ ReportUnreachable(w) \/ SwitchSite(w)
      BY <3>4 DEF LeaseAsk, LeaseAnswer, Report, ReportRefused, ReportUnreachable, SwitchSite, Heard
    <3>5. CASE Drain(w) \/ Revoke(w) \/ Reactivate(w)
      BY <3>5, ZenonT(60) DEF Drain, Revoke, Reactivate, Heard, TypeOK, Working
    <3> QED
      BY <1>1, <3>1, <3>2, <3>3, <3>4, <3>5 DEF Step
  <2> QED
    BY <2>g, <2>o, <2>h
<1>2. CASE SweepSelect
  <2>1. PastGrace'
    <3>1. up /\ ~WithinStartupGrace /\ UNCHANGED <<up, uptime>>
      BY <1>2, Zenon DEF SweepSelect
    <3>2. uptime >= StaleAfter
      BY <3>1, FleetAssumption DEF WithinStartupGrace, TypeOK, Ages
    <3> QED
      BY <3>1, <3>2 DEF PastGrace
  <2> QED
    BY <1>2, <2>1 DEF SweepSelect, OneScan, Heard
<1>3. CASE SweepUpdate
  <2>1. \A w \in Workers : status'[w] \in Working => status[w] \in Working
    BY <1>3 DEF SweepUpdate, Working
  <2> QED
    BY <1>3, <2>1 DEF SweepUpdate, PastGrace, OneScan, Heard
<1>4. CASE PlatformDown
  BY <1>4 DEF PlatformDown, PastGrace, OneScan, Heard
<1>5. CASE PlatformUp
  BY <1>5 DEF PlatformUp, PastGrace, OneScan, Heard
<1>6. CASE Tick
  <2>1. PastGrace'
    BY <1>6 DEF Tick, PastGrace
  <2>2. ASSUME NEW w \in Workers, up', proc'[w], status'[w] \in Working, beat'[w] = "accepted"
        PROVE  seen'[w] <= 1
    <3>1. seen[w] = 0
      BY <1>6, <2>2 DEF Tick, InTouch, MayAct
    <3>2. seen'[w] = Older(seen[w])
      BY <1>6 DEF Tick
    <3> QED
      BY <3>1, <3>2, OlderAge
  <2> QED
    BY <1>6, <2>1, <2>2 DEF Tick, OneScan, Heard
<1>7. CASE UNCHANGED vars
  BY <1>7 DEF vars, PastGrace, OneScan, Heard
<1> QED
  BY <1>1, <1>2, <1>3, <1>4, <1>5, <1>6, <1>7 DEF Next

\* A worker that is alive and whose beats were accepted is not suspended by
\* the sweep, however long the platform was down.
THEOREM LiveTheorem == Spec => LiveNotReaped
<1>1. TypeOK /\ FleetInv /\ [Next]_vars =>
        [\A w \in Workers : status[w] = "active" /\ status'[w] = "suspended"
              => ~proc[w] \/ beat[w] # "accepted"]_vars
  <2> SUFFICES ASSUME TypeOK, FleetInv, [Next]_vars, NEW w \in Workers,
                      status[w] = "active", status'[w] = "suspended"
               PROVE  ~proc[w] \/ beat[w] # "accepted"
    OBVIOUS
  <2> USE DEF wvars, pvars, svars
  <2>1. SweepUpdate
    BY DEF Next, Step, vars, Start, Die, Beat, BeatRolledBack, LeaseAsk, LeaseRefused, LeaseAnswer,
       Report, ReportRefused, ReportUnreachable, Drain, Reactivate, Revoke, SwitchSite, SweepSelect, PlatformDown,
       PlatformUp, Tick, TypeOK
  <2>2. sweep = "selected" /\ seen[w] > StaleAfter
    BY <2>1 DEF SweepUpdate, Stale
  <2>3. up /\ uptime >= StaleAfter
    BY <2>2 DEF FleetInv, PastGrace
  <2>4. uptime >= 1 /\ ~(seen[w] <= 1)
    <3>1. uptime \in Nat /\ seen[w] \in Nat /\ StaleAfter \in Nat \ {0}
      BY FleetAssumption DEF TypeOK, Ages
    <3> QED
      BY <2>2, <2>3, <3>1
  <2> QED
    BY <2>3, <2>4 DEF FleetInv, Heard, Working
<1> QED
  BY <1>1, FleetTypeInit, FleetTypeStep, FleetInvInit, FleetInvStep, PTL DEF Spec, LiveNotReaped

\* Lease authority is given and taken in order, and draining never makes the
\* manager refuse a report of an open site.
THEOREM AuthorityTheorem == Spec => OrderlyAuthority
<1> DEFINE Orderly(w) ==
          /\ status[w] = "revoked" => status'[w] = "revoked"
          /\ status[w] = "pending" => status'[w] \in {"pending", "revoked"}
          /\ status[w] = "suspended" /\ status'[w] = "active" => Reactivate(w)
          /\ status[w] = "draining" =>
                /\ status'[w] \in {"draining", "revoked"}
                /\ ~busy[w] /\ ~asking[w] => ~busy'[w] /\ ~asking'[w]
                /\ open[w] => ~ReportRefused(w)
<1>1. TypeOK /\ FleetInv /\ [Next]_vars => [\A w \in Workers : Orderly(w)]_vars
  <2> SUFFICES ASSUME TypeOK, FleetInv, Next, NEW w \in Workers PROVE Orderly(w)
    OBVIOUS
  <2> USE DEF wvars, pvars, svars
  <2>0. status[w] = "draining" /\ open[w] => ~ReportRefused(w)
    BY DEF ReportRefused, MayAct, Working
  <2>1. ASSUME NEW v \in Workers, Step(v) PROVE Orderly(w)
    <3>1. CASE v # w
      <4>1. status'[w] = status[w] /\ busy'[w] = busy[w] /\ asking'[w] = asking[w]
        BY <2>1, <3>1 DEF Step, Start, Die, Beat, BeatRolledBack, LeaseAsk, LeaseRefused,
           LeaseAnswer, Report, ReportRefused, ReportUnreachable, Drain, Reactivate, Revoke, SwitchSite, TypeOK
      <4> QED
        BY <2>0, <4>1
    <3>2. CASE v = w
      <4>1. CASE Start(w) \/ Beat(w) \/ BeatRolledBack(w) \/ LeaseRefused(w) \/ SwitchSite(w)
        BY <2>0, <4>1 DEF Start, Beat, BeatRolledBack, LeaseRefused, SwitchSite
      <4>2. CASE Die(w) \/ Report(w) \/ ReportUnreachable(w)
        BY <2>0, <4>2 DEF Die, Report, ReportUnreachable, TypeOK
      <4>3. CASE ReportRefused(w)
        BY <2>0, <4>3 DEF ReportRefused, TypeOK
      <4>4. CASE LeaseAsk(w)
        BY <2>0, <4>4 DEF LeaseAsk, MayLease, LeaseEligible, TypeOK
      <4>5. CASE LeaseAnswer(w)
        <5>1. asking[w] /\ ~busy[w] /\ UNCHANGED status
          BY <4>5 DEF LeaseAnswer, FleetInv, OneScan
        <5> QED
          BY <2>0, <5>1
      <4>6. CASE Drain(w) \/ Revoke(w)
        BY <2>0, <4>6 DEF Drain, Revoke, TypeOK
      <4>7. CASE Reactivate(w)
        <5>1. status[w] = "suspended"
          BY <4>7 DEF Reactivate
        <5> QED
          BY <2>0, <4>7, <5>1
      <4> QED
        BY <2>1, <3>2, <4>1, <4>2, <4>3, <4>4, <4>5, <4>6, <4>7 DEF Step
    <3> QED
      BY <3>1, <3>2
  <2>2. CASE SweepUpdate
    BY <2>0, <2>2 DEF SweepUpdate, Stale, TypeOK
  <2>3. CASE PlatformDown
    BY <2>0, <2>3 DEF PlatformDown
  <2>4. CASE SweepSelect \/ PlatformUp \/ Tick
    BY <2>0, <2>4 DEF SweepSelect, PlatformUp, Tick
  <2> QED
    BY <2>1, <2>2, <2>3, <2>4 DEF Next
<1> QED
  BY <1>1, FleetTypeInit, FleetTypeStep, FleetInvInit, FleetInvStep, PTL DEF Spec, OrderlyAuthority
=============================================================================
