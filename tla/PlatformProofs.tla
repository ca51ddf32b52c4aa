---------------------------- MODULE PlatformProofs ----------------------------
(***************************************************************************)
(* Theorems about the components of the control plane that share no state, *)
(* for every value of the constants: alerts, asset metadata, coverage,     *)
(* accounts, scope, locations and reports, each about the specification of *)
(* its component.  The types of every component follow, findings, members  *)
(* and proofs included; the last two theorems are about all the components *)
(* side by side.                                                           *)
(***************************************************************************)
EXTENDS MCPlatform, StorageProofs, FiniteSetTheorems, TLAPS

-----------------------------------------------------------------------------
(* Alerts                                                                  *)

AlertsSpec == AlertsInit /\ [][AlertsNext]_alertVars

\* What Redis let through in a window has its key in Redis, so the next one is
\* seen: OneAlertPerWindow needs this to be kept.
AlertsInv == OneAlertPerWindow /\ \A p \in passed : p[1] \in marks

\* The take of a mail keeps it: a key is let through on Redis' word only when
\* it was not there, and is there afterwards.
LEMMA TakeMailOK ==
    ASSUME AlertsInv, NEW e \in Events, TakeMail(e)
    PROVE  AlertsInv'
<1> DEFINE key == mails[e].key
           first == mails[e].retries = 0
<1>1. CASE first /\ cacheUp /\ key \notin marks
  <2>1. marks' = marks \cup {key} /\ passed' = passed \cup {<<key, e>>}
    BY <1>1 DEF TakeMail, _dedup_seen_and_mark
  <2> HIDE DEF key
  <2>2. \A p \in passed : p[1] # key
    BY <1>1 DEF AlertsInv
  <2> QED
    BY <2>1, <2>2 DEF AlertsInv, OneAlertPerWindow
<1>2. CASE ~(first /\ cacheUp /\ key \notin marks)
  <2>1. passed' = passed /\ marks \subseteq marks'
    BY <1>2 DEF TakeMail, _dedup_seen_and_mark
  <2> QED
    BY <2>1 DEF AlertsInv, OneAlertPerWindow
<1> QED
  BY <1>1, <1>2

\* At most one alert of a key passes the deduplication in a window, whichever
\* workers race, retry or die and whenever Redis stops answering.
THEOREM AlertTheorem == AlertsSpec => []OneAlertPerWindow
<1>1. AlertsInit => AlertsInv
  BY DEF AlertsInit, AlertsInv, OneAlertPerWindow
<1>2. AlertsInv /\ [AlertsNext]_alertVars => AlertsInv'
  <2> SUFFICES ASSUME AlertsInv, [AlertsNext]_alertVars PROVE AlertsInv'
    OBVIOUS
  <2>1. ASSUME NEW e \in Events, TakeMail(e) PROVE AlertsInv'
    BY <2>1, TakeMailOK
  <2>2. ASSUME NEW key \in marks, WindowEnds(key) PROVE AlertsInv'
    BY <2>2 DEF WindowEnds, AlertsInv, OneAlertPerWindow
  <2>3. CASE UNCHANGED <<marks, passed>>
    BY <2>3 DEF AlertsInv, OneAlertPerWindow
  <2>4. ASSUME NEW e \in Events,
               \/ \E k \in Kinds, n \in Counts, b \in BOOLEAN : notify_scan_finished(e, k, n, b)
               \/ \E k \in System, b \in BOOLEAN : SystemAlert(e, k, b)
               \/ \E b \in BOOLEAN : _emit_scan_notification(e, b)
               \/ Disabled(e) \/ Sent(e) \/ DeliveryError(e) \/ OtherError(e) \/ WorkerDies(e)
        PROVE  UNCHANGED <<marks, passed>>
    BY <2>4 DEF notify_scan_finished, SystemAlert, _emit_scan_notification, Disabled, Sent, DeliveryError,
                OtherError, WorkerDies, Ends
  <2>5. ASSUME (\E some \in SUBSET notes : mark_read(some)) \/ CacheFlips \/ UNCHANGED alertVars
        PROVE  UNCHANGED <<marks, passed>>
    BY <2>5 DEF mark_read, CacheFlips, alertVars
  <2> QED
    BY <2>1, <2>2, <2>3, <2>4, <2>5 DEF AlertsNext
<1>3. AlertsInv => OneAlertPerWindow
  BY DEF AlertsInv
<1> QED
  BY <1>1, <1>2, <1>3, PTL DEF AlertsSpec

-----------------------------------------------------------------------------
(* Asset metadata                                                          *)

AssetSpec == AssetInit /\ [][AssetNext]_assetVars

\* The property, of any document.
Marked(d) == d.keys \cap Inferable \subseteq d.inferred

\* It holds of the row and of every stale copy a tool run still holds.
AssetInv ==
    /\ Marked(doc) /\ upsert = [u \in Upserts |-> upsert[u]]
    /\ \A u \in Upserts : upsert[u].at = "read" => Marked(upsert[u].old)

\* Merging a report into a marked document, however old, marks the result.
LEMMA MergeOK ==
    ASSUME NEW old, NEW u \in Upserts, Marked(old)
    PROVE  Marked(merge_asset_metadata(old, u))
<1> DEFINE d == merge_asset_metadata(old, u)
<1>1. /\ d.keys = old.keys \cup Report[u].keys
      /\ d.inferred = IF old.inferred = {} /\ Report[u].inferred = {} THEN {}
                      ELSE (old.inferred \cup Report[u].inferred) \cap d.keys
  BY DEF merge_asset_metadata, _union_tech
<1> HIDE DEF d
<1>2. Report[u].keys \cap Inferable \subseteq Report[u].inferred
  BY AssetsAssumption DEF Inferable
<1>3. Marked(d)
  BY <1>1, <1>2 DEF Marked
<1> QED
  BY <1>3 DEF d

\* A key that a reporter inferred stays marked, in whatever order the tool
\* runs read and overwrite the row.
THEOREM MarkedTheorem == AssetSpec => []InferenceStaysMarked
<1>1. ASSUME AssetInit PROVE AssetInv
  <2>1. NoDoc.keys = {} /\ NotBegun.at = "idle"
    BY DEF NoDoc, NotBegun
  <2>2. Marked(doc)
    BY <1>1, <2>1 DEF AssetInit, Marked
  <2>3. \A u \in Upserts : upsert[u].at = "idle"
    BY <1>1, <2>1 DEF AssetInit
  <2> QED
    BY <1>1, <2>2, <2>3 DEF AssetInit, AssetInv
<1>2. AssetInv /\ [AssetNext]_assetVars => AssetInv'
  <2> SUFFICES ASSUME AssetInv, [AssetNext]_assetVars PROVE AssetInv'
    OBVIOUS
  <2>1. ASSUME NEW u \in Upserts, UpsertRead(u) PROVE AssetInv'
    <3> DEFINE r == [at |-> "read", old |-> doc]
    <3>1. doc' = doc /\ upsert' = [upsert EXCEPT ![u] = r] /\ r.old = doc
      BY <2>1 DEF UpsertRead
    <3> HIDE DEF r
    <3> QED
      BY <3>1 DEF AssetInv, Marked
  <2>2. ASSUME NEW u \in Upserts, UpsertWrite(u) PROVE AssetInv'
    <3>1. /\ upsert[u].at = "read" /\ doc' = merge_asset_metadata(upsert[u].old, u)
          /\ upsert' = [upsert EXCEPT ![u] = NotBegun] /\ NotBegun.at = "idle"
      BY <2>2 DEF UpsertWrite, NotBegun
    <3>2. Marked(merge_asset_metadata(upsert[u].old, u))
      BY <3>1, MergeOK DEF AssetInv
    <3>3. Marked(doc)'
      BY <3>1, <3>2 DEF Marked
    <3> QED
      BY <3>1, <3>3 DEF AssetInv, Marked
  <2>3. CASE UNCHANGED assetVars
    BY <2>3 DEF assetVars, AssetInv, Marked
  <2> QED
    BY <2>1, <2>2, <2>3 DEF AssetNext
<1>3. AssetInv => InferenceStaysMarked
  BY DEF AssetInv, Marked, InferenceStaysMarked
<1> QED
  BY <1>1, <1>2, <1>3, PTL DEF AssetSpec

-----------------------------------------------------------------------------
(* Coverage and next steps                                                 *)

CoverageSpec == CoverageInit /\ [][CoverageNext]_coverageVars

QueryStages == {"idle", "assets", "outcomes", "already", "answered"}
QueryShape(r) == DOMAIN r = {"pc", "kind", "assets", "outcomes", "already", "steps", "debt", "usable"}

\* The tool runs only grow, so what was usable when the request began is
\* usable when it reads them again, and then excluded from the candidates.
QueryOK(r) ==
    /\ QueryShape(r) /\ r.pc \in QueryStages
    /\ r.pc \in {"assets", "outcomes"} => r.usable \subseteq ToolsWith(Usable)
    /\ r.pc = "already" => r.usable \subseteq r.already
    /\ r.pc # "answered" => r.steps = {}
    /\ \A c \in r.steps : c.tool \notin r.usable /\ \E s \in r.assets : s.value = c.target /\ s.guarded

CoverageInv ==
    /\ query = [q \in Queries |-> query[q]]
    /\ \A q \in Queries : QueryOK(query[q])

\* A candidate's tool is none of the already_run ones, and its target is a
\* surface of the authorized scope.
LEMMA SelectOK ==
    ASSUME NEW assets, NEW outcomes, NEW p, NEW already, NEW last,
           NEW c \in select_adaptive_candidates(assets, outcomes, p, already, last)
    PROVE  c.tool \notin already /\ \E s \in assets : s.value = c.target /\ s.guarded
<1> DEFINE state(s) == SurfaceState(last[s.value], outcomes, {})
           step(s)  == IF s.type = "url" THEN _url_reasons(s, state(s))
                                         ELSE _http_service_reasons(state(s))
<1>1. PICK s \in assets :
        /\ s.guarded
        /\ \E t \in resolve_capability(step(s).capability, p, already) :
             c = [tool |-> t, capability |-> step(s).capability,
                  target |-> s.value, reasons |-> step(s).reasons]
  BY DEF select_adaptive_candidates
<1> HIDE DEF step
<1>2. PICK t \in resolve_capability(step(s).capability, p, already) :
        c = [tool |-> t, capability |-> step(s).capability,
             target |-> s.value, reasons |-> step(s).reasons]
  BY <1>1
<1>3. t \notin already
  BY DEF resolve_capability
<1>4. c.tool = t /\ c.target = s.value
  BY <1>2
<1> QED
  BY <1>1, <1>3, <1>4

\* More tool runs do not disturb a request.
LEMMA RunsGrow ==
    ASSUME CoverageInv, query' = query, toolruns \subseteq toolruns'
    PROVE  CoverageInv'
<1>1. ToolsWith(Usable) \subseteq ToolsWith(Usable)'
  BY DEF ToolsWith
<1> QED
  BY <1>1 DEF CoverageInv, QueryOK, QueryShape

\* One request moves on, the tool runs as they are.
LEMMA QueryMoves ==
    ASSUME CoverageInv, NEW q \in Queries, NEW r, QueryOK(r), toolruns' = toolruns,
           query' = [query EXCEPT ![q] = r]
    PROVE  CoverageInv'
<1>1. ToolsWith(Usable)' = ToolsWith(Usable)
  BY DEF ToolsWith
<1>2. query'[q] = r /\ \A o \in Queries : o # q => query'[o] = query[o]
  BY DEF CoverageInv
<1>3. \A o \in Queries : QueryOK(query'[o])
  BY <1>2 DEF CoverageInv
<1>4. \A o \in Queries : QueryOK(query[o])'
  BY <1>1, <1>3 DEF QueryOK, QueryShape
<1> QED
  BY <1>4 DEF CoverageInv

\* No request has read anything.
LEMMA CoverageStarts == CoverageInit => CoverageInv
<1> SUFFICES ASSUME CoverageInit PROVE CoverageInv
  OBVIOUS
<1>1. QueryOK(NoQuery)
  BY DEF NoQuery, QueryOK, QueryShape, QueryStages
<1> QED
  BY <1>1 DEF CoverageInit, CoverageInv

\* Each kind of step, of the scan or of a request.
LEMMA CoverageStep == CoverageInv /\ [CoverageNext]_coverageVars => CoverageInv'
<1> SUFFICES ASSUME CoverageInv, [CoverageNext]_coverageVars PROVE CoverageInv'
  OBVIOUS
<1>1. CASE \/ UNCHANGED coverageVars \/ Withdraw
           \/ \E s \in Surfaces : Discover(s) \/ Confirm(s)
           \/ \E t \in RanTools, st \in RunStatus : RunSettles(t, st)
  <2>1. query' = query /\ toolruns \subseteq toolruns'
    BY <1>1 DEF coverageVars, Withdraw, Discover, Confirm, RunSettles
  <2> QED
    BY <2>1, RunsGrow
<1>2. ASSUME NEW q \in Queries, NEW k \in {"coverage", "next_steps"}, ReadAssets(q, k) PROVE CoverageInv'
  <2> DEFINE r == [NoQuery EXCEPT !.pc = "assets", !.kind = k,
                                  !.assets = known, !.usable = ToolsWith(Usable)]
  <2>1. QueryOK(r)
    BY DEF NoQuery, QueryOK, QueryShape, QueryStages
  <2>2. query' = [query EXCEPT ![q] = r] /\ toolruns' = toolruns
    BY <1>2 DEF ReadAssets
  <2> HIDE DEF r
  <2> QED
    BY <2>1, <2>2, QueryMoves
<1>3. ASSUME NEW q \in Queries, ReadOutcomes(q) PROVE CoverageInv'
  <2> DEFINE y == query[q]
             r == [y EXCEPT !.pc = "outcomes", !.outcomes = toolruns]
  <2>1. QueryOK(y) /\ y.pc = "assets"
    BY <1>3 DEF CoverageInv, ReadOutcomes
  <2>2. query' = [query EXCEPT ![q] = r] /\ toolruns' = toolruns
    BY <1>3 DEF ReadOutcomes
  <2> HIDE DEF y
  <2>3. QueryOK(r)
    BY <2>1 DEF QueryOK, QueryShape, QueryStages
  <2> HIDE DEF r
  <2> QED
    BY <2>2, <2>3, QueryMoves
<1>4. ASSUME NEW q \in Queries, AnswerCoverage(q) PROVE CoverageInv'
  <2> DEFINE y == query[q]
             d == build_coverage(y.assets, y.outcomes, confirmed).debt
             r == [y EXCEPT !.pc = "answered", !.debt = d]
  <2>1. QueryOK(y) /\ y.pc = "outcomes"
    BY <1>4 DEF CoverageInv, AnswerCoverage
  <2>2. query' = [query EXCEPT ![q] = r] /\ toolruns' = toolruns
    BY <1>4 DEF AnswerCoverage
  <2> HIDE DEF y, d
  <2>3. QueryOK(r)
    BY <2>1 DEF QueryOK, QueryShape, QueryStages
  <2> HIDE DEF r
  <2> QED
    BY <2>2, <2>3, QueryMoves
<1>5. ASSUME NEW q \in Queries, ReadAlreadyRun(q) PROVE CoverageInv'
  <2> DEFINE y == query[q]
             r == [y EXCEPT !.pc = "already", !.already = ToolsWith(Usable)]
  <2>1. QueryOK(y) /\ y.pc = "outcomes"
    BY <1>5 DEF CoverageInv, ReadAlreadyRun
  <2>2. query' = [query EXCEPT ![q] = r] /\ toolruns' = toolruns
    BY <1>5 DEF ReadAlreadyRun
  <2> HIDE DEF y
  <2>3. QueryOK(r)
    BY <2>1 DEF QueryOK, QueryShape, QueryStages
  <2> HIDE DEF r
  <2> QED
    BY <2>2, <2>3, QueryMoves
<1>6. ASSUME NEW q \in Queries, AnswerNextSteps(q) PROVE CoverageInv'
  <2> DEFINE y == query[q]
             S(last) == select_adaptive_candidates(y.assets, y.outcomes, permit, y.already, last)
  <2>1. QueryOK(y) /\ y.pc = "already"
    BY <1>6 DEF CoverageInv, AnswerNextSteps
  <2>2. PICK last : /\ toolruns' = toolruns
                    /\ query' = [query EXCEPT ![q] = [y EXCEPT !.pc = "answered",
                                     !.steps = IF permit.granted THEN S(last) ELSE {}]]
    BY <1>6 DEF AnswerNextSteps
  <2> DEFINE T == IF permit.granted THEN S(last) ELSE {}
             r == [y EXCEPT !.pc = "answered", !.steps = T]
  <2>3. \A c \in T : c.tool \notin y.already /\ \E s \in y.assets : s.value = c.target /\ s.guarded
    BY SelectOK
  <2> HIDE DEF y, T
  <2>4. QueryOK(r)
    BY <2>1, <2>3 DEF QueryOK, QueryShape, QueryStages
  <2>5. query' = [query EXCEPT ![q] = r] /\ toolruns' = toolruns
    BY <2>2 DEF T
  <2> HIDE DEF r
  <2> QED
    BY <2>4, <2>5, QueryMoves
<1> QED
  BY <1>1, <1>2, <1>3, <1>4, <1>5, <1>6 DEF CoverageNext

\* A next step never repeats work that was done when it was asked for, and
\* points at something in scope, however the scan goes on meanwhile.
THEOREM NewWorkTheorem == CoverageSpec => []StepsAreNewWork
<1>1. CoverageInv => StepsAreNewWork
  BY DEF CoverageInv, QueryOK, StepsAreNewWork
<1> QED
  BY <1>1, CoverageStarts, CoverageStep, PTL DEF CoverageSpec

-----------------------------------------------------------------------------
(* Accounts                                                                *)

AccountSpec == AccountInit /\ [][AccountNext]_accountVars

\* Requests that have passed the lockout and not yet been counted.
Attempting == {q \in AccountRequests : areq[q].at = "attempt"}

ReqOK(r) ==
    /\ r.at = "idle" => r = AtRest
    /\ r.at # "idle" => r.born = "active"
    /\ r.at \in {"guard", "attempt"} => DOMAIN r = {"at", "born", "then"} /\ r.then \in {"enable", "issue"}

\* A request past the lockout may still add one failure, so the failures that
\* are counted and the requests that are past it are bounded together.
AccountInv ==
    /\ areq = [q \in AccountRequests |-> areq[q]] /\ \A q \in AccountRequests : ReqOK(areq[q])
    /\ fails \in Nat /\ outage \in BOOLEAN
    /\ ~outage => fails + Cardinality(Attempting) <= MaxAttempts - 1 + Cardinality(AccountRequests)

\* The requests past the lockout are finitely many, at most all.
LEMMA AttemptingFinite ==
    /\ IsFiniteSet(Attempting) /\ Cardinality(Attempting) \in Nat /\ Cardinality(AccountRequests) \in Nat
    /\ Cardinality(Attempting) <= Cardinality(AccountRequests)
<1>1. Attempting \subseteq AccountRequests /\ IsFiniteSet(AccountRequests)
  BY AccountsAssumption DEF Attempting
<1> QED
  BY <1>1, FS_Subset, FS_CardinalityType

\* One request moves: what that does to the number of those past the lockout.
LEMMA AttemptingMove ==
    ASSUME AccountInv, NEW q \in AccountRequests, NEW r, ReqOK(r), areq' = [areq EXCEPT ![q] = r]
    PROVE  /\ areq' = [o \in AccountRequests |-> areq'[o]] /\ \A o \in AccountRequests : ReqOK(areq'[o])
           /\ Cardinality(Attempting') \in Nat /\ Cardinality(Attempting') <= Cardinality(AccountRequests)
           /\ r.at # "attempt" => Cardinality(Attempting') <= Cardinality(Attempting)
           /\ r.at # "attempt" /\ areq[q].at = "attempt" => Cardinality(Attempting') = Cardinality(Attempting) - 1
<1>1. /\ areq' = [o \in AccountRequests |-> areq'[o]] /\ areq'[q] = r
      /\ \A o \in AccountRequests : o # q => areq'[o] = areq[o]
  BY DEF AccountInv
<1>2. \A o \in AccountRequests : ReqOK(areq'[o])
  BY <1>1 DEF AccountInv
<1>3. Attempting' \subseteq AccountRequests /\ IsFiniteSet(AccountRequests)
  BY AccountsAssumption DEF Attempting
<1>4. Cardinality(Attempting') \in Nat /\ Cardinality(Attempting') <= Cardinality(AccountRequests)
  BY <1>3, FS_Subset, FS_CardinalityType
<1>5. ASSUME r.at # "attempt" PROVE Attempting' = Attempting \ {q}
  BY <1>1, <1>5 DEF Attempting
<1>6. IsFiniteSet(Attempting)
  BY AttemptingFinite
<1>7. ASSUME r.at # "attempt" PROVE Cardinality(Attempting') <= Cardinality(Attempting)
  BY <1>5, <1>6, <1>7, FS_Subset
<1>8. ASSUME r.at # "attempt", areq[q].at = "attempt"
      PROVE  Cardinality(Attempting') = Cardinality(Attempting) - 1
  <2>1. q \in Attempting
    BY <1>8 DEF Attempting
  <2> QED
    BY <1>5, <1>6, <1>8, <2>1, FS_RemoveElement
<1> QED
  BY <1>1, <1>2, <1>4, <1>7, <1>8

\* What a request may become when it does not pass the lockout.
LEMMA StaysOutside ==
    ASSUME AccountInv, NEW q \in AccountRequests, NEW r, ReqOK(r), areq' = [areq EXCEPT ![q] = r],
           r.at # "attempt", UNCHANGED outage,
           fails' \in {fails, 0} \/ (fails' = fails + 1 /\ areq[q].at = "attempt")
    PROVE  AccountInv'
<1>1. /\ MaxAttempts \in Nat \ {0} /\ Cardinality(Attempting) \in Nat
      /\ Cardinality(AccountRequests) \in Nat /\ fails \in Nat
  BY AttemptingFinite, AccountsAssumption DEF AccountInv
<1>2. /\ areq' = [o \in AccountRequests |-> areq'[o]] /\ \A o \in AccountRequests : ReqOK(areq'[o])
      /\ Cardinality(Attempting') \in Nat /\ Cardinality(Attempting') <= Cardinality(Attempting)
      /\ Cardinality(Attempting') <= Cardinality(AccountRequests)
      /\ areq[q].at = "attempt" => Cardinality(Attempting') = Cardinality(Attempting) - 1
  BY AttemptingMove
<1>3. fails' \in Nat
  BY <1>1
<1>4. ~outage' => fails' + Cardinality(Attempting') <= MaxAttempts - 1 + Cardinality(AccountRequests)
  BY <1>1, <1>2 DEF AccountInv
<1>5. \A o \in AccountRequests : ReqOK(areq[o])'
  BY <1>2 DEF ReqOK
<1> QED
  BY <1>2, <1>3, <1>4, <1>5 DEF AccountInv

\* The lockout lets a request pass when the counter is below the limit, or
\* when it cannot be read.
LEMMA Passes ==
    ASSUME AccountInv, NEW q \in AccountRequests, NEW r, ReqOK(r), areq' = [areq EXCEPT ![q] = r],
           fails' = fails, (outage' = outage /\ NotLocked) \/ outage' = TRUE
    PROVE  AccountInv'
<1>1. /\ MaxAttempts \in Nat \ {0} /\ Cardinality(AccountRequests) \in Nat /\ fails \in Nat
  BY AttemptingFinite, AccountsAssumption DEF AccountInv
<1>2. /\ areq' = [o \in AccountRequests |-> areq'[o]] /\ \A o \in AccountRequests : ReqOK(areq'[o])
      /\ Cardinality(Attempting') \in Nat /\ Cardinality(Attempting') <= Cardinality(AccountRequests)
  BY AttemptingMove
<1>3. fails' \in Nat /\ outage' \in BOOLEAN
  BY <1>1 DEF AccountInv
<1>4. ~outage' => fails' + Cardinality(Attempting') <= MaxAttempts - 1 + Cardinality(AccountRequests)
  BY <1>1, <1>2 DEF NotLocked
<1>5. \A o \in AccountRequests : ReqOK(areq[o])'
  BY <1>2 DEF ReqOK
<1> QED
  BY <1>2, <1>3, <1>4, <1>5 DEF AccountInv

\* No request is under way and nothing has failed.
LEMMA AccountStarts == AccountInit => AccountInv
<1> SUFFICES ASSUME AccountInit PROVE AccountInv
  OBVIOUS
<1>1. AtRest.at = "idle" /\ ReqOK(AtRest)
  BY DEF AtRest, ReqOK
<1>2. areq = [q \in AccountRequests |-> areq[q]] /\ \A q \in AccountRequests : areq[q] = AtRest
  BY DEF AccountInit
<1>3. Cardinality(Attempting) <= Cardinality(AccountRequests) /\ fails = 0 /\ outage = FALSE
  BY AttemptingFinite DEF AccountInit
<1>4. fails + Cardinality(Attempting) <= MaxAttempts - 1 + Cardinality(AccountRequests)
  BY <1>3, AttemptingFinite, AccountsAssumption
<1> QED
  BY <1>1, <1>2, <1>3, <1>4 DEF AccountInv

\* Requests move on, and the counter with them.
LEMMA AccountStep == AccountInv /\ [AccountNext]_accountVars => AccountInv'
<1> SUFFICES ASSUME AccountInv, [AccountNext]_accountVars PROVE AccountInv'
  OBVIOUS
<1>r. ReqOK(AtRest) /\ AtRest.at = "idle"
  BY DEF AtRest, ReqOK
<1>1. CASE UNCHANGED <<areq, fails, outage>>
  BY <1>1 DEF AccountInv, Attempting, ReqOK
<1>2. CASE \/ UNCHANGED accountVars \/ Enrol \/ Disable \/ revoke_key \/ Erase
           \/ \E t \in Tokens : Reuse(t) \/ Logout(t)
  <2>1. UNCHANGED <<areq, fails, outage>>
    BY <1>2 DEF accountVars, Enrol, Disable, revoke_key, Erase, Reuse, Logout
  <2> QED
    BY <1>1, <2>1
<1>3. CASE WindowElapses
  <2>1. UNCHANGED <<areq, outage>> /\ fails' = 0
    BY <1>3 DEF WindowElapses
  <2>2. Attempting' = Attempting
    BY <2>1 DEF Attempting
  <2>3. ~outage' => fails' + Cardinality(Attempting') <= MaxAttempts - 1 + Cardinality(AccountRequests)
    BY <2>1, <2>2, AttemptingFinite, AccountsAssumption
  <2> QED
    BY <2>1, <2>3 DEF AccountInv, ReqOK
<1>4. ASSUME NEW q \in AccountRequests,
             \/ \E t \in Tokens : LoginIssue(q, t) \/ RotateWrite(q, t)
             \/ Enable(q) \/ KeyWrite(q) \/ Served(q)
      PROVE  AccountInv'
  <2>1. areq' = [areq EXCEPT ![q] = AtRest] /\ UNCHANGED <<fails, outage>>
    BY <1>4 DEF LoginIssue, RotateWrite, Enable, KeyWrite, Served, EndRequest
  <2> QED
    BY <1>r, <2>1, StaysOutside
<1>5. ASSUME NEW q \in AccountRequests, Wrong(q) PROVE AccountInv'
  <2>1. areq' = [areq EXCEPT ![q] = AtRest] /\ outage' = outage /\ fails' = fails + 1 /\ areq[q].at = "attempt"
    BY <1>5 DEF Wrong, EndRequest
  <2> QED
    BY <1>r, <2>1, StaysOutside
<1>6. ASSUME NEW q \in AccountRequests,
             LoginRead(q) \/ EnableRead(q) \/ KeyRead(q) \/ KeyUse(q) \/ \E t \in Tokens : RotateRead(q, t)
      PROVE  AccountInv'
  <2>1. PICK r : areq' = [areq EXCEPT ![q] = r] /\ ReqOK(r) /\ r.at # "attempt" /\ UNCHANGED <<fails, outage>>
    <3>1. CASE LoginRead(q)
      <4> DEFINE r == [at |-> IF acct.enabled THEN "challenged" ELSE "issue", born |-> acct.status]
      <4>1. ReqOK(r) /\ r.at # "attempt"
        BY <3>1 DEF LoginRead, ReqOK
      <4> QED
        BY <3>1, <4>1 DEF LoginRead, Begin
    <3>2. CASE EnableRead(q)
      <4> DEFINE r == [at |-> "guard", born |-> acct.status, then |-> "enable"]
      <4>1. ReqOK(r) /\ r.at # "attempt"
        BY <3>2 DEF EnableRead, ReqOK
      <4> QED
        BY <3>2, <4>1 DEF EnableRead, Begin
    <3>3. CASE KeyRead(q)
      <4> DEFINE r == [at |-> "key", born |-> acct.status]
      <4>1. ReqOK(r) /\ r.at # "attempt"
        BY <3>3 DEF KeyRead, ReqOK
      <4> QED
        BY <3>3, <4>1 DEF KeyRead, Begin
    <3>4. CASE KeyUse(q)
      <4> DEFINE r == [at |-> "served", born |-> acct.status]
      <4>1. ReqOK(r) /\ r.at # "attempt"
        BY <3>4 DEF KeyUse, ReqOK
      <4> QED
        BY <3>4, <4>1 DEF KeyUse, Begin
    <3>5. ASSUME NEW t \in Tokens, RotateRead(q, t)
          PROVE  \E r : areq' = [areq EXCEPT ![q] = r] /\ ReqOK(r) /\ r.at # "attempt" /\ UNCHANGED <<fails, outage>>
      <4> DEFINE r == [at |-> "rotate", born |-> acct.status, old |-> t]
      <4>1. ReqOK(r) /\ r.at # "attempt"
        BY <3>5 DEF RotateRead, ReqOK
      <4> QED
        BY <3>5, <4>1 DEF RotateRead, Begin
    <3> QED
      BY <1>6, <3>1, <3>2, <3>3, <3>4, <3>5
  <2> QED
    BY <2>1, StaysOutside
<1>7. ASSUME NEW q \in AccountRequests, MfaLoginRead(q) PROVE AccountInv'
  <2> DEFINE r == [at |-> "guard", born |-> areq[q].born, then |-> "issue"]
  <2>1. areq[q].at = "challenged" /\ ReqOK(areq[q])
    BY <1>7 DEF MfaLoginRead, AccountInv
  <2>2. ReqOK(r) /\ r.at # "attempt"
    BY <2>1 DEF ReqOK
  <2>3. UNCHANGED <<fails, outage>> /\ (areq' = [areq EXCEPT ![q] = r] \/ areq' = [areq EXCEPT ![q] = AtRest])
    BY <1>7 DEF MfaLoginRead, Begin, EndRequest
  <2> HIDE DEF r
  <2> QED
    BY <1>r, <2>2, <2>3, StaysOutside
<1>8. ASSUME NEW q \in AccountRequests, Guard(q) PROVE AccountInv'
  <2> DEFINE r == [areq[q] EXCEPT !.at = "attempt"]
  <2>1. areq[q].at = "guard" /\ ReqOK(areq[q])
    BY <1>8 DEF Guard, AccountInv
  <2>2. ReqOK(r)
    BY <2>1 DEF ReqOK
  <2>3. /\ fails' = fails
        /\ \/ areq' = [areq EXCEPT ![q] = r] /\ ((outage' = outage /\ NotLocked) \/ outage' = TRUE)
           \/ areq' = [areq EXCEPT ![q] = AtRest] /\ outage' = outage
    BY <1>8 DEF Guard, Begin, EndRequest
  <2> HIDE DEF r
  <2>4. CASE areq' = [areq EXCEPT ![q] = r] /\ ((outage' = outage /\ NotLocked) \/ outage' = TRUE)
    BY <2>2, <2>3, <2>4, Passes
  <2>5. CASE areq' = [areq EXCEPT ![q] = AtRest] /\ outage' = outage
    BY <1>r, <2>3, <2>5, StaysOutside
  <2> QED
    BY <2>3, <2>4, <2>5
<1>9. ASSUME NEW q \in AccountRequests, Right(q) PROVE AccountInv'
  <2> DEFINE r == [areq[q] EXCEPT !.at = areq[q].then]
  <2>1. areq[q].at = "attempt" /\ ReqOK(areq[q])
    BY <1>9 DEF Right, AccountInv
  <2>2. ReqOK(r) /\ r.at # "attempt"
    BY <2>1 DEF ReqOK
  <2>3. fails' = 0 /\ outage' = outage /\ areq' = [areq EXCEPT ![q] = r]
    BY <1>9 DEF Right, Begin
  <2> HIDE DEF r
  <2> QED
    BY <2>2, <2>3, StaysOutside
<1> QED
  BY <1>2, <1>3, <1>4, <1>5, <1>6, <1>7, <1>8, <1>9 DEF AccountNext

\* No request that began after the erasure gets anywhere, and while Redis is up
\* concurrent attempts overshoot the lockout by less than their number.
THEOREM AccountsTheorem == AccountSpec => []AccountsHold
<1>1. AccountInv => AccountsHold
  <2> SUFFICES ASSUME AccountInv PROVE AccountsHold
    OBVIOUS
  <2>1. AtRest.at = "idle"
    BY DEF AtRest
  <2>2. ErasedStaysOut
    BY <2>1 DEF AccountInv, ReqOK, ErasedStaysOut
  <2>3. LockoutHolds
    BY AttemptingFinite, AccountsAssumption DEF AccountInv, LockoutHolds
  <2> QED
    BY <2>2, <2>3 DEF AccountsHold
<1> QED
  BY <1>1, AccountStarts, AccountStep, PTL DEF AccountSpec

-----------------------------------------------------------------------------
(* Scope of a scan                                                         *)

\* Any settings, site and name servers; no target yet.
ScopeStart ==
    target = NoTarget /\ policy = NoPolicy /\ cache = <<>> /\ contacts = {} /\ verdicts = {}

ScopeSpec == ScopeStart /\ [][ScopeNext]_scopeVars

\* What the cache of the scan says of host h among the named hosts roots.
CachedScope(h, roots) ==
    /\ ~_host_excluded(h)
    /\ IF target.value.kind = "range"
       THEN IF h.kind = "range" THEN IsAddress(h) /\ In(h.range[1], target.value.range)
            ELSE cache[h.name] # {} /\ \A a \in cache[h.name] : In(a, target.value.range)
       ELSE \/ h.kind = "name" /\ Below(h.name, target.value.name)
            \/ \E n \in {target.value.name} \cup roots :
                  n \in DOMAIN cache /\ IsAddress(h) /\ h.range[1] \in cache[n]

\* Everything the decision rests on is cached: the name itself, or a root that
\* has the address, or all of them.
Cached(h, roots) ==
    \/ _host_excluded(h)
    \/ target.value.kind = "range" /\ (h.kind = "name" => h.name \in DOMAIN cache)
    \/ target.value.kind # "range" /\ ~IsAddress(h)
    \/ target.value.kind # "range" /\ CachedScope(h, roots)
    \/ target.value.kind # "range" /\ {target.value.name} \cup roots \subseteq DOMAIN cache

Pinned(h, roots, ok) == Cached(h, roots) /\ (ok <=> CachedScope(h, roots))

\* A verdict is what the cache says, so name servers cannot change it; the
\* policy of a running scan is about the target's own site.
ScopeInv ==
    /\ policy.private => policy.bound /\ target.private
    /\ policy.cidrs \subseteq Ranges
    /\ ~policy.bound => contacts = {} /\ verdicts = {}
    /\ ContactsAuthorized
    /\ \A d \in verdicts : d.ok \in BOOLEAN /\ d.host \in Hosts /\ Pinned(d.host, d.roots, d.ok)
    /\ VerdictsStick

\* An IPv4 address is its own form.
LEMMA ToIpOK == ASSUME NEW a \in 0 .. Size - 1 PROVE _to_ip(a) = a
<1>1. ASSUME NEW n \in Nat \ {0}, NEW b \in 0 .. n - 1 PROVE b % n = b
  BY <1>1, Z3
<1> QED
  BY <1>1, ScopeAssumption DEF _to_ip

\* A host is a name or a range.
LEMMA KindOK == ASSUME NEW h \in Values PROVE h.kind \in {"name", "range"} /\ (h.kind = "range" => h.range \in Ranges)
<1>1. CASE h \in {NameOf(n) : n \in Names}
  BY <1>1 DEF NameOf
<1>2. CASE h \in {RangeOf(r) : r \in Ranges}
  BY <1>2 DEF RangeOf
<1> QED
  BY <1>1, <1>2 DEF Values

\* Where everything is cached, the decision is what the cache says.
LEMMA CachedDecides ==
    ASSUME NEW h \in Hosts, NEW roots, Cached(h, roots)
    PROVE  host_in_scope(h, roots) <=> CachedScope(h, roots)
<1>1. h.kind \in {"name", "range"}
  BY KindOK DEF Hosts, Values
<1>2. CASE _host_excluded(h)
  BY <1>2 DEF host_in_scope, CachedScope
<1>3. CASE ~_host_excluded(h) /\ target.value.kind = "range"
  BY <1>1, <1>3 DEF host_in_scope, CachedScope, Cached, _ip_host_in_range, _resolve_cached
<1>4. CASE ~_host_excluded(h) /\ target.value.kind # "range"
  <2>1. \A n \in DOMAIN cache : _resolve_cached(n) = cache[n]
    BY DEF _resolve_cached
  <2> QED
    BY <1>1, <1>4, <2>1 DEF host_in_scope, CachedScope, Cached, _hostname_resolves_to
<1> QED
  BY <1>2, <1>3, <1>4

\* What is cached stays cached.
LEMMA PinnedStays ==
    ASSUME NEW h, NEW roots, NEW ok, Pinned(h, roots, ok), UNCHANGED <<settings, target>>,
           \A n \in DOMAIN cache : n \in DOMAIN cache' /\ cache'[n] = cache[n],
           h.kind \in {"name", "range"}
    PROVE  Pinned(h, roots, ok)'
<1>1. _host_excluded(h)' <=> _host_excluded(h)
  BY DEF _host_excluded
<1>2. CASE _host_excluded(h)
  BY <1>1, <1>2 DEF Pinned, Cached, CachedScope
<1>3. CASE ~_host_excluded(h) /\ target.value.kind = "range"
  BY <1>1, <1>3 DEF Pinned, Cached, CachedScope
<1>4. CASE ~_host_excluded(h) /\ target.value.kind # "range"
  BY <1>1, <1>4 DEF Pinned, Cached, CachedScope
<1> QED
  BY <1>2, <1>3, <1>4

\* The lookups of a decision leave everything it rests on in the cache.
LEMMA LookupsPin ==
    ASSUME NEW h \in Hosts, NEW roots, NEW ns \in Lookups(h, roots), cache' = Remembered(ns),
           UNCHANGED <<settings, target>>, NEW ok, ok <=> host_in_scope(h, roots)
    PROVE  Pinned(h, roots, ok)'
<1>k. h.kind \in {"name", "range"}
  BY KindOK DEF Hosts, Values
<1>1. _host_excluded(h)' <=> _host_excluded(h)
  BY DEF _host_excluded
<1>2. DOMAIN cache' = ns \cup DOMAIN cache /\ \A n \in DOMAIN cache' : cache'[n] = _resolve_cached(n)
  BY DEF Remembered
<1>3. CASE _host_excluded(h)
  BY <1>1, <1>3 DEF Pinned, Cached, CachedScope, host_in_scope
<1>4. CASE ~_host_excluded(h) /\ target.value.kind = "range"
  <2>1. h.kind = "name" => h.name \in DOMAIN cache'
    BY <1>2, <1>4 DEF Lookups
  <2> QED
    BY <1>k, <1>1, <1>2, <1>4, <2>1 DEF Pinned, Cached, CachedScope, host_in_scope, _ip_host_in_range
<1>5. CASE ~_host_excluded(h) /\ target.value.kind # "range" /\ ~IsAddress(h)
  BY <1>1, <1>5 DEF Pinned, Cached, CachedScope, host_in_scope, _hostname_resolves_to
<1>6. CASE ~_host_excluded(h) /\ target.value.kind # "range" /\ IsAddress(h)
  <2> DEFINE d == target.value.name
             hits == {n \in roots : _hostname_resolves_to(n, h)}
  <2>0. h.kind = "range"
    BY <1>6 DEF IsAddress
  <2>1. CASE _hostname_resolves_to(d, h)
    <3>1. d \in DOMAIN cache' /\ h.range[1] \in cache'[d]
      BY <1>2, <1>6, <2>1 DEF Lookups, _hostname_resolves_to
    <3> QED
      BY <1>1, <1>6, <2>1, <3>1 DEF Pinned, Cached, CachedScope, host_in_scope
  <2>2. CASE ~_hostname_resolves_to(d, h) /\ hits = {}
    <3>1. {d} \cup roots \subseteq DOMAIN cache'
      BY <1>2, <1>6, <2>2 DEF Lookups
    <3>2. \A n \in {d} \cup roots : ~(h.range[1] \in cache'[n])
      BY <1>2, <1>6, <2>2, <3>1 DEF _hostname_resolves_to
    <3> QED
      BY <1>1, <1>6, <2>0, <2>2, <3>1, <3>2 DEF Pinned, Cached, CachedScope, host_in_scope
  <2>3. CASE ~_hostname_resolves_to(d, h) /\ hits # {}
    <3>1. PICK n \in hits, missed \in SUBSET (roots \ hits) : ns = {d, n} \cup missed
      BY <1>6, <2>3 DEF Lookups
    <3>2. n \in roots /\ n \in DOMAIN cache' /\ h.range[1] \in cache'[n] /\ _hostname_resolves_to(n, h)
      BY <1>2, <3>1 DEF _hostname_resolves_to
    <3> QED
      BY <1>1, <1>6, <3>2 DEF Pinned, Cached, CachedScope, host_in_scope
  <2> QED
    BY <2>1, <2>2, <2>3
<1> QED
  BY <1>3, <1>4, <1>5, <1>6

\* An allowed private address lies in the networks of the policy.
LEMMA AllowedOK ==
    ASSUME NEW a, NEW p, is_ip_allowed(a, p), _to_ip(a) \in Private
    PROVE  settings.private /\ p.private /\ \E c \in p.cidrs : In(_to_ip(a), c)
BY DEF is_ip_allowed, allows_private_ip

\* What resolve_and_validate lets through, as a range.
LEMMA ValidatedRange ==
    ASSUME ScopeInv, NEW v \in Values, v.kind = "range", resolve_and_validate(v, policy) = "ok",
           v.range[1] \in Private
    PROVE  /\ settings.private /\ policy.private
           /\ \A a \in v.range[1] .. v.range[2] :
                 a = v.range[1] \/ v.range[1] \notin Multicast => \E c \in policy.cidrs : In(a, c)
<1>1. v.range \in Ranges /\ v.range[1] \in 0 .. Size - 1 /\ v.range[2] \in v.range[1] .. Size - 1
  BY KindOK, ScopeAssumption
<1>2. is_ip_allowed(v.range[1], policy) /\ _assert_network_within_policy(v.range, policy)
  BY DEF resolve_and_validate
<1>3. _to_ip(v.range[1]) = v.range[1]
  BY <1>1, ToIpOK
<1>4. settings.private /\ policy.private /\ \E c \in policy.cidrs : In(v.range[1], c)
  BY <1>2, <1>3, AllowedOK
<1>5. ASSUME v.range[1] \notin Multicast, NEW a \in v.range[1] .. v.range[2]
      PROVE  \E c \in policy.cidrs : In(a, c)
  <2>1. PICK c \in policy.cidrs : c[1] <= v.range[1] /\ v.range[2] <= c[2]
    BY <1>2, <1>3, <1>5 DEF _assert_network_within_policy
  <2>2. c[1] \in Int /\ c[2] \in Int /\ Size \in Nat
    BY ScopeAssumption DEF ScopeInv
  <2>3. In(a, c)
    BY <1>1, <1>5, <2>1, <2>2 DEF In
  <2> QED
    BY <2>3
<1> QED
  BY <1>4, <1>5

\* A host is handed to a tool.
LEMMA ContactOK ==
    ASSUME ScopeInv, NEW v \in Values, ResolveScanHost(v)
    PROVE  ContactsAuthorized'
<1>0. UNCHANGED <<settings, target, policy>> /\ policy.bound /\ resolve_and_validate(v, policy) = "ok"
      /\ (policy.private => target.private)
  BY DEF ResolveScanHost, ScopeInv
<1>1. CASE v.kind = "range" /\ contacts' = contacts \cup {v.range}
  <2> DEFINE w == v.range
  <2>1. w[1] \in Private => /\ settings.private /\ target.private
                            /\ \A a \in w[1] .. w[2] :
                                  a = w[1] \/ w[1] \notin Multicast => \E c \in policy.cidrs : In(a, c)
    BY <1>0, <1>1, ValidatedRange
  <2>2. contacts' = contacts \cup {w}
    BY <1>1
  <2> HIDE DEF w
  <2> QED
    BY <1>0, <2>1, <2>2 DEF ScopeInv, ContactsAuthorized
<1>2. ASSUME v.kind = "name", NEW b \in resolve_hostname(v.name, policy),
             contacts' = contacts \cup {<<_to_ip(b), _to_ip(b)>>}
      PROVE  ContactsAuthorized'
  <2> DEFINE x == _to_ip(b)
             w == <<x, x>>
  <2>1. is_ip_allowed(b, policy)
    BY <1>0, <1>2 DEF resolve_and_validate
  <2>2. x \in Private => /\ settings.private /\ policy.private /\ \E c \in policy.cidrs : In(x, c)
    BY <2>1, AllowedOK
  <2> HIDE DEF x
  <2>3. x \in Private => x \in Int
    BY ScopeAssumption
  <2>4. w[1] = x /\ w[2] = x
    OBVIOUS
  <2>5. x \in Private => \A a \in w[1] .. w[2] : a = x
    BY <2>3, <2>4
  <2>6. contacts' = contacts \cup {w}
    BY <1>2 DEF x
  <2> HIDE DEF w
  <2> QED
    BY <1>0, <2>2, <2>4, <2>5, <2>6 DEF ScopeInv, ContactsAuthorized
<1> QED
  BY <1>1, <1>2 DEF ResolveScanHost

\* A decision of the scope guard agrees with the earlier ones.
LEMMA DecisionOK ==
    ASSUME ScopeInv, NEW h \in Hosts, NEW hosts, DecideScope(h, hosts)
    PROVE  /\ \A d \in verdicts' : d.ok \in BOOLEAN /\ d.host \in Hosts /\ Pinned(d.host, d.roots, d.ok)'
           /\ VerdictsStick'
<1>r. PICK roots : roots = derived_scope_roots(hosts)
  OBVIOUS
<1>o. PICK ok : ok = host_in_scope(h, roots)
  OBVIOUS
<1> DEFINE v == [host |-> h, roots |-> roots, ok |-> ok]
<1>1. PICK ns \in Lookups(h, roots) : cache' = Remembered(ns)
  BY <1>r DEF DecideScope
<1>2. verdicts' = verdicts \cup {v} /\ UNCHANGED <<settings, target>>
  BY <1>r, <1>o DEF DecideScope
<1>3. ok \in BOOLEAN /\ (ok <=> host_in_scope(h, roots))
  BY <1>o DEF host_in_scope
<1>4. v.host = h /\ v.roots = roots /\ v.ok = ok
  OBVIOUS
<1> HIDE DEF v
<1>5. Pinned(h, roots, ok)'
  BY <1>1, <1>2, <1>3, LookupsPin
<1>6. \A n \in DOMAIN cache : n \in DOMAIN cache' /\ cache'[n] = cache[n]
  BY <1>1 DEF Remembered, _resolve_cached
<1>7. ASSUME NEW d \in verdicts
      PROVE  /\ d.ok \in BOOLEAN /\ d.host \in Hosts /\ Pinned(d.host, d.roots, d.ok)'
             /\ d.host = h /\ d.roots = roots => d.ok = ok
  <2>1. d.ok \in BOOLEAN /\ d.host \in Hosts /\ Pinned(d.host, d.roots, d.ok)
    BY DEF ScopeInv
  <2>2. d.host.kind \in {"name", "range"}
    BY <2>1, KindOK DEF Hosts, Values
  <2>3. Pinned(d.host, d.roots, d.ok)'
    BY <1>2, <1>6, <2>1, <2>2, PinnedStays
  <2>4. ASSUME d.host = h, d.roots = roots PROVE d.ok = ok
    BY <1>3, <2>1, <2>4, CachedDecides DEF Pinned
  <2> QED
    BY <2>1, <2>3, <2>4
<1>8. \A d \in verdicts' : d \in verdicts \/ d = v
  BY <1>2
<1>9. VerdictsStick'
  <2> SUFFICES ASSUME NEW d \in verdicts', NEW e \in verdicts', d.host = e.host, d.roots = e.roots
               PROVE  d.ok = e.ok
    BY DEF VerdictsStick
  <2>1. CASE d \in verdicts /\ e \in verdicts
    BY <2>1 DEF VerdictsStick, ScopeInv
  <2>2. CASE d \in verdicts /\ e = v
    BY <1>4, <1>7, <2>2
  <2>3. CASE d = v /\ e \in verdicts
    BY <1>4, <1>7, <2>3
  <2> QED
    BY <1>8, <2>1, <2>2, <2>3
<1>10. \A d \in verdicts' : d.ok \in BOOLEAN /\ d.host \in Hosts /\ Pinned(d.host, d.roots, d.ok)'
  BY <1>3, <1>4, <1>5, <1>7, <1>8
<1> QED
  BY <1>9, <1>10

\* Whatever name servers answer and operators change, what a scan touches lies
\* in the networks its own site authorized, and its verdicts agree.
THEOREM ScopeTheorem == ScopeSpec => []ScopeHolds
<1>1. ASSUME ScopeStart PROVE ScopeInv
  <2>1. NoPolicy.private = FALSE /\ NoPolicy.cidrs = {}
    BY DEF NoPolicy
  <2> QED
    BY <1>1, <2>1 DEF ScopeStart, ScopeInv, ContactsAuthorized, VerdictsStick
<1>2. ScopeInv /\ [ScopeNext]_scopeVars => ScopeInv'
  <2> SUFFICES ASSUME ScopeInv, [ScopeNext]_scopeVars PROVE ScopeInv'
    OBVIOUS
  \* A step that leaves the scan alone.
  <2>q. ASSUME UNCHANGED <<settings, target, policy, cache, contacts, verdicts>> PROVE ScopeInv'
    <3>1. ContactsAuthorized' /\ VerdictsStick'
      BY <2>q DEF ScopeInv, ContactsAuthorized, VerdictsStick
    <3>2. \A d \in verdicts' : Pinned(d.host, d.roots, d.ok)'
      BY <2>q DEF ScopeInv, Pinned, Cached, CachedScope, _host_excluded
    <3> QED
      BY <2>q, <3>1, <3>2 DEF ScopeInv
  <2>1. CASE \/ UNCHANGED scopeVars
             \/ \E r \in DOMAIN dns, n \in Names, a \in Answers : DnsChanges(r, n, a)
             \/ \E st \in {"active", "suspended"}, c \in SiteNets :
                  SiteRowChanges([site EXCEPT !.status = st, !.cidrs = c])
    <3>1. UNCHANGED <<settings, target, policy, cache, contacts, verdicts>>
      BY <2>1 DEF scopeVars, DnsChanges, SiteRowChanges
    <3> QED
      BY <2>q, <3>1
  <2>2. ASSUME NEW v \in Values, NEW private \in BOOLEAN, CreateTarget(v, private) PROVE ScopeInv'
    <3>1. ~policy.bound /\ UNCHANGED <<settings, policy, contacts, verdicts>>
      BY <2>2 DEF CreateTarget
    <3>2. contacts' = {} /\ verdicts' = {} /\ ~policy'.private
      BY <3>1 DEF ScopeInv
    <3> QED
      BY <3>1, <3>2 DEF ScopeInv, ContactsAuthorized, VerdictsStick
  <2>3. CASE BeginScan
    <3>1. PICK p \in build_scan_network_policy(target) : policy' = p
      BY <2>3 DEF BeginScan
    <3>2. p.bound /\ (p.private => target.private) /\ p.cidrs \subseteq Ranges
      BY <3>1 DEF build_scan_network_policy, build_public_policy, build_private_policy, _parse_cidrs, NoPolicy
    <3>3. contacts' = {} /\ verdicts' = {} /\ target' = target
      BY <2>3 DEF BeginScan
    <3> QED
      BY <3>1, <3>2, <3>3 DEF ScopeInv, ContactsAuthorized, VerdictsStick
  <2>4. CASE EndScopedScan
    <3>1. policy' = NoPolicy /\ contacts' = {} /\ verdicts' = {}
      BY <2>4 DEF EndScopedScan
    <3>2. NoPolicy.private = FALSE /\ NoPolicy.cidrs = {}
      BY DEF NoPolicy
    <3> QED
      BY <3>1, <3>2 DEF ScopeInv, ContactsAuthorized, VerdictsStick
  <2>5. ASSUME NEW v \in Values, ResolveScanHost(v) PROVE ScopeInv'
    <3>1. UNCHANGED <<settings, target, policy, cache, verdicts>> /\ policy.bound
      BY <2>5 DEF ResolveScanHost
    <3>2. \A d \in verdicts' : Pinned(d.host, d.roots, d.ok)'
      BY <3>1 DEF ScopeInv, Pinned, Cached, CachedScope, _host_excluded
    <3>3. VerdictsStick'
      BY <3>1 DEF ScopeInv, VerdictsStick
    <3>4. ContactsAuthorized'
      BY <2>5, ContactOK
    <3> QED
      BY <3>1, <3>2, <3>3, <3>4 DEF ScopeInv
  <2>6. ASSUME NEW h \in Hosts, NEW g \in Hosts, DecideScope(h, {h, g}) PROVE ScopeInv'
    <3>1. UNCHANGED <<settings, target, policy, contacts>> /\ policy.bound
      BY <2>6 DEF DecideScope
    <3>2. ContactsAuthorized'
      BY <3>1 DEF ScopeInv, ContactsAuthorized
    <3>3. /\ \A d \in verdicts' : d.ok \in BOOLEAN /\ d.host \in Hosts /\ Pinned(d.host, d.roots, d.ok)'
          /\ VerdictsStick'
      BY <2>6, DecisionOK
    <3> QED
      BY <3>1, <3>2, <3>3 DEF ScopeInv
  <2> QED
    BY <2>1, <2>2, <2>3, <2>4, <2>5, <2>6 DEF ScopeNext
<1>3. ScopeInv => ScopeHolds
  BY DEF ScopeInv, ScopeHolds
<1> QED
  BY <1>1, <1>2, <1>3, PTL DEF ScopeSpec
-----------------------------------------------------------------------------
(* Locations                                                               *)

LocationsSpec == LocationsInit /\ [][LocationsNext]_locationVars

\* What a request carries of a path or a query.
Carried(ts) == [i \in DOMAIN ts |-> <<ts[i][1], IF ts[i][1] = "%" THEN Lower(ts[i][2]) ELSE ts[i][2]>>]

\* Of a path or a query, normalization leaves what a request carries.
LEMMA EscapesCarried == ASSUME NEW ts \in Escaped PROVE _lowercase_percent_escapes(ts) = Carried(ts)
<1>1. \A i \in DOMAIN ts : ts[i] \in STRING \X STRING
  BY DEF Escaped
<1>2. ASSUME NEW i \in DOMAIN ts
      PROVE  (IF ts[i][1] = "%" THEN <<"%", Lower(ts[i][2])>> ELSE ts[i])
               = <<ts[i][1], IF ts[i][1] = "%" THEN Lower(ts[i][2]) ELSE ts[i][2]>>
  <2>1. ts[i] = <<ts[i][1], ts[i][2]>>
    BY <1>1
  <2>2. CASE ts[i][1] = "%"
    BY <2>2
  <2>3. CASE ts[i][1] # "%"
    BY <2>1, <2>3
  <2> QED
    BY <2>2, <2>3
<1> QED
  BY <1>2 DEF _lowercase_percent_escapes, Carried

\* The port a request goes to, and the one the normal form names.
PortOf(p, s) == IF p \notin {"none", ""} THEN p ELSE IF s = "http" THEN "80" ELSE "443"
PortLeft(p, s) == IF p \in {"", _DEFAULT_PORTS[s]} THEN "none" ELSE p
PathOf(ts) == IF ts = <<>> THEN <<<<"text", "/">>>> ELSE Carried(ts)

\* An explicit default port and an empty one are no port.
LEMMA PortsAgree ==
    ASSUME NEW s \in {"http", "https"}, NEW p \in STRING, NEW q \in STRING
    PROVE  PortLeft(p, s) = PortLeft(q, s) <=> PortOf(p, s) = PortOf(q, s)
<1>1. _DEFAULT_PORTS["http"] = "80" /\ _DEFAULT_PORTS["https"] = "443"
  BY DEF _DEFAULT_PORTS
<1>2. CASE s = "http"
  BY <1>1, <1>2 DEF PortLeft, PortOf
<1>3. CASE s = "https"
  BY <1>1, <1>3 DEF PortLeft, PortOf
<1> QED
  BY <1>2, <1>3

\* Lower-casing keeps texts texts, and only the empty one empty.
LEMMA LowerType == ASSUME NEW t \in STRING PROVE Lower(t) \in STRING /\ (Lower(t) = "" <=> t = "")
BY LocationsAssumption DEF Lower

\* A normal form is its parts.
Form(s, name, h, p, path, q) ==
    [kind |-> "url", splits |-> TRUE, scheme |-> s, authority |-> [user |-> name, host |-> h, port |-> p],
     path |-> path, query |-> q, fragment |-> ""]

\* Forms are equal when their parts are.
LEMMA FormIsParts ==
    ASSUME NEW s, NEW name, NEW h, NEW p, NEW path, NEW q, NEW s2, NEW name2, NEW h2, NEW p2, NEW path2, NEW q2
    PROVE  Form(s, name, h, p, path, q) = Form(s2, name2, h2, p2, path2, q2) <=>
             s = s2 /\ name = name2 /\ h = h2 /\ p = p2 /\ path = path2 /\ q = q2
<1>1. ASSUME Form(s, name, h, p, path, q) = Form(s2, name2, h2, p2, path2, q2)
      PROVE  s = s2 /\ name = name2 /\ h = h2 /\ p = p2 /\ path = path2 /\ q = q2
  <2> DEFINE f == Form(s, name, h, p, path, q)
             g == Form(s2, name2, h2, p2, path2, q2)
  <2>1. /\ f.scheme = s /\ f.authority.user = name /\ f.authority.host = h /\ f.authority.port = p
        /\ f.path = path /\ f.query = q
    BY DEF Form
  <2>2. /\ g.scheme = s2 /\ g.authority.user = name2 /\ g.authority.host = h2 /\ g.authority.port = p2
        /\ g.path = path2 /\ g.query = q2
    BY DEF Form
  <2> HIDE DEF f, g
  <2>3. f = g
    BY <1>1 DEF f, g
  <2> QED
    BY <2>1, <2>2, <2>3
<1> QED
  BY <1>1

\* The parts of the normal form of a web address.
LEMMA NormalForm ==
    ASSUME NEW u \in Url, Comparable(u)
    PROVE  /\ normalize_location(u) =
                Form(Lower(u.scheme), u.authority.user, Lower(u.authority.host),
                     PortLeft(u.authority.port, Lower(u.scheme)), PathOf(u.path), Carried(u.query))
           /\ RequestOf(u) = <<Lower(u.scheme), u.authority.user, Lower(u.authority.host),
                               PortOf(u.authority.port, Lower(u.scheme)),
                               PathOf(u.path), Carried(u.query)>>
<1>1. /\ u.splits /\ u.authority.host # "" /\ Lower(u.scheme) \in {"http", "https"}
      /\ u.authority \in Authority /\ u.path \in Escaped /\ u.query \in Escaped
      /\ u.kind = "url" /\ u.splits = TRUE
  BY DEF Comparable, Url
<1>2. normalize_location(u) = normalize_url(u)
  BY <1>1 DEF normalize_location
<1>3. u.authority # NoAuthority
  <2>1. NoAuthority.host = ""
    BY DEF NoAuthority
  <2> QED
    BY <1>1, <2>1
<1>4. Lower(u.scheme) \in DOMAIN _DEFAULT_PORTS
  BY <1>1 DEF _DEFAULT_PORTS
<1> DEFINE s == Lower(u.scheme)
           a == _normalize_authority(u.authority, s)
           p == IF u.path = <<>> THEN <<<<"text", "/">>>> ELSE _lowercase_percent_escapes(u.path)
           q == _lowercase_percent_escapes(u.query)
<1>5. normalize_url(u) = [u EXCEPT !.scheme = s, !.authority = a, !.path = p, !.query = q, !.fragment = ""]
  BY <1>1, <1>3, <1>4 DEF normalize_url
<1>6. a = [user |-> u.authority.user, host |-> Lower(u.authority.host),
           port |-> PortLeft(u.authority.port, s)]
  <2> DEFINE w == u.authority
             h == Lower(w.host)
             o == PortLeft(w.port, s)
  <2>1. a = [w EXCEPT !.host = h, !.port = o]
    BY <1>1 DEF _normalize_authority, Authority, PortLeft
  <2> HIDE DEF h, o, a
  <2>2. [w EXCEPT !.host = h, !.port = o] = [user |-> w.user, host |-> h, port |-> o]
    <3> DEFINE e == [w EXCEPT !.host = h, !.port = o]
    <3>1. e.user = w.user /\ e.host = h /\ e.port = o
          /\ e = [x \in {"user", "host", "port"} |-> e[x]]
      BY <1>1 DEF Authority
    <3> HIDE DEF e
    <3>2. e = [user |-> w.user, host |-> h, port |-> o]
      BY <3>1
    <3> QED
      BY <3>2 DEF e
  <2> QED
    BY <2>1, <2>2 DEF h, o
<1>7. p = PathOf(u.path) /\ q = Carried(u.query)
  BY <1>1, EscapesCarried DEF PathOf
<1>8. RequestOf(u) = <<s, u.authority.user, Lower(u.authority.host), PortOf(u.authority.port, s),
                       PathOf(u.path), Carried(u.query)>>
  BY DEF RequestOf, PortOf, PathOf, Carried
<1> HIDE DEF s, a, p, q
<1>9. [u EXCEPT !.scheme = s, !.authority = a, !.path = p, !.query = q, !.fragment = ""]
        = [kind |-> "url", splits |-> TRUE, scheme |-> s, authority |-> a,
           path |-> p, query |-> q, fragment |-> ""]
  <2> DEFINE e == [u EXCEPT !.scheme = s, !.authority = a, !.path = p, !.query = q, !.fragment = ""]
  <2>1. /\ e.kind = u.kind /\ e.splits = u.splits /\ e.scheme = s /\ e.authority = a
        /\ e.path = p /\ e.query = q /\ e.fragment = ""
        /\ e = [x \in {"kind", "splits", "scheme", "authority", "path", "query", "fragment"} |-> e[x]]
    BY DEF Url
  <2>2. u.kind = "url" /\ u.splits = TRUE
    BY <1>1
  <2> HIDE DEF e
  <2>3. e = [kind |-> "url", splits |-> TRUE, scheme |-> s, authority |-> a,
             path |-> p, query |-> q, fragment |-> ""]
    BY <2>1, <2>2
  <2> QED
    BY <2>3 DEF e
<1> QED
  BY <1>2, <1>5, <1>6, <1>7, <1>8, <1>9 DEF s, Form

\* Two web addresses have one normal form exactly when they ask for the same.
LEMMA NormalIsRequest ==
    ASSUME NEW u \in Url, NEW v \in Url, Comparable(u), Comparable(v)
    PROVE  normalize_location(u) = normalize_location(v) <=> RequestOf(u) = RequestOf(v)
<1> DEFINE Same == /\ Lower(u.scheme) = Lower(v.scheme)
                   /\ u.authority.user = v.authority.user
                   /\ Lower(u.authority.host) = Lower(v.authority.host)
                   /\ PathOf(u.path) = PathOf(v.path) /\ Carried(u.query) = Carried(v.query)
           left(x) == PortLeft(x.authority.port, Lower(x.scheme))
           port(x) == PortOf(x.authority.port, Lower(x.scheme))
<1>1. /\ u.authority.port \in STRING /\ v.authority.port \in STRING
      /\ Lower(u.scheme) \in {"http", "https"}
  BY DEF Comparable, Url, Authority
<1>2. normalize_location(u) = normalize_location(v) <=> Same /\ left(u) = left(v)
  BY NormalForm, FormIsParts
<1>3. RequestOf(u) = RequestOf(v) <=> Same /\ port(u) = port(v)
  <2>1. RequestOf(u) = <<Lower(u.scheme), u.authority.user, Lower(u.authority.host), port(u),
                         PathOf(u.path), Carried(u.query)>>
    BY NormalForm
  <2>2. RequestOf(v) = <<Lower(v.scheme), v.authority.user, Lower(v.authority.host), port(v),
                         PathOf(v.path), Carried(v.query)>>
    BY NormalForm
  <2> QED
    BY <2>1, <2>2
<1>4. ASSUME Lower(u.scheme) = Lower(v.scheme) PROVE left(u) = left(v) <=> port(u) = port(v)
  <2>1. PortLeft(u.authority.port, Lower(u.scheme)) = PortLeft(v.authority.port, Lower(u.scheme)) <=>
        PortOf(u.authority.port, Lower(u.scheme)) = PortOf(v.authority.port, Lower(u.scheme))
    BY <1>1, PortsAgree
  <2>2. left(v) = PortLeft(v.authority.port, Lower(u.scheme)) /\ port(v) = PortOf(v.authority.port, Lower(u.scheme))
    BY <1>4
  <2> QED
    BY <2>1, <2>2
<1> QED
  BY <1>2, <1>3, <1>4

\* Nothing else is normalized to what a web address is normalized to.
LEMMA NormalIsWeb ==
    ASSUME NEW u \in Url, Comparable(u), NEW x \in Urls \cup Plain,
           normalize_location(x) = normalize_location(u)
    PROVE  x \in Url /\ Comparable(x)
<1>1. /\ normalize_location(u).kind = "url" /\ normalize_location(u).splits = TRUE
      /\ normalize_location(u).scheme \in {"http", "https"}
      /\ normalize_location(u).authority.host # ""
  <2>1. Lower(u.scheme) \in {"http", "https"} /\ u.authority.host \in STRING \ {""}
    BY DEF Comparable, Url, Authority
  <2> QED
    <3> DEFINE f == Form(Lower(u.scheme), u.authority.user, Lower(u.authority.host),
                         PortLeft(u.authority.port, Lower(u.scheme)), PathOf(u.path), Carried(u.query))
    <3>1. f.kind = "url" /\ f.splits = TRUE /\ f.scheme = Lower(u.scheme)
          /\ f.authority.host = Lower(u.authority.host)
      BY DEF Form
    <3>2. normalize_location(u) = f
      BY NormalForm
    <3> HIDE DEF f
    <3>3. Lower(u.authority.host) # ""
      BY <2>1, LowerType
    <3> QED
      BY <2>1, <3>1, <3>2, <3>3
<1>2. x \in Url
  <2> SUFFICES ASSUME x \in Text PROVE FALSE
    BY LocationsAssumption
  <2>1. x.kind = "plain" /\ x.kind # "url" /\ "kind" \in DOMAIN x
    BY DEF Text
  <2>2. CASE looks_like_source_location(x)
    <3>1. normalize_location(x) = normalize_source_location(x)
      BY <2>1, <2>2 DEF normalize_location
    <3> QED
      BY <2>1, <3>1, <1>1 DEF normalize_source_location
  <2>3. CASE ~looks_like_source_location(x)
    <3>1. normalize_location(x) = normalize_host_port(x)
      BY <2>1, <2>3 DEF normalize_location
    <3> QED
      BY <2>1, <3>1, <1>1 DEF normalize_host_port
  <2> QED
    BY <2>2, <2>3
<1>3. Comparable(x)
  <2>0. /\ x.kind = "url" /\ x.splits \in BOOLEAN /\ x.authority \in Authority /\ x.scheme \in STRING
        /\ x.authority.host \in STRING /\ DOMAIN x = {"kind", "splits", "scheme", "authority", "path", "query", "fragment"}
    BY <1>2 DEF Url, Authority
  <2>1. normalize_location(x) = normalize_url(x)
    BY <2>0 DEF normalize_location
  <2>2. CASE ~x.splits \/ Lower(x.scheme) \notin DOMAIN _DEFAULT_PORTS \/ x.authority = NoAuthority
    <3>1. normalize_location(x) = x
      BY <2>1, <2>2 DEF normalize_url
    <3>2. x.splits /\ x.scheme \in {"http", "https"} /\ x.authority.host # ""
      BY <3>1, <1>1
    <3> QED
      BY <2>0, <3>2, LocationsAssumption DEF Comparable
  <2>3. CASE x.splits /\ Lower(x.scheme) \in DOMAIN _DEFAULT_PORTS /\ x.authority # NoAuthority
    <3>1. normalize_location(x).authority = _normalize_authority(x.authority, Lower(x.scheme))
      BY <2>0, <2>1, <2>3 DEF normalize_url
    <3>2. normalize_location(x).authority.host = Lower(x.authority.host)
      BY <2>0, <3>1 DEF _normalize_authority, Authority
    <3>3. x.authority.host # ""
      BY <2>0, <3>2, <1>1, LowerType
    <3>4. Lower(x.scheme) \in {"http", "https"}
      BY <2>3 DEF _DEFAULT_PORTS
    <3> QED
      BY <2>0, <2>3, <3>3, <3>4 DEF Comparable
  <2> QED
    BY <2>0, <2>2, <2>3
<1> QED
  BY <1>2, <1>3

\* Findings of nuclei are pairwise different and stand for all lines read.
LocationsInv ==
    parser = "nuclei" =>
        /\ lines \in Seq(Line) /\ found \in Seq(Line)
        /\ \A k \in DOMAIN found : found[k].template # "junk"
        /\ \A j, k \in DOMAIN found : fingerprint(found[j]) = fingerprint(found[k]) => j = k
        /\ \A i \in DOMAIN lines : lines[i].template # "junk" =>
              \E k \in DOMAIN found : fingerprint(found[k]) = fingerprint(lines[i])

\* What is not junk matched somewhere.
LEMMA LineOK == ASSUME NEW l \in Line, l.template # "junk" PROVE l.at \in Urls \cup Plain
BY DEF Line

\* One more line.
LEMMA LocationsStep ==
    ASSUME LocationsInv, NEW l \in Line, ParseLine(l)
    PROVE  LocationsInv'
<1> SUFFICES ASSUME parser = "nuclei" PROVE LocationsInv'
  BY DEF ParseLine, LocationsInv
<1>1. /\ lines \in Seq(Line) /\ found \in Seq(Line)
      /\ lines' = Append(lines, l) /\ found' = parse_vulnerabilities(l)
  BY DEF ParseLine, LocationsInv
<1>2. /\ lines' \in Seq(Line) /\ DOMAIN lines' = DOMAIN lines \cup {Len(lines) + 1}
      /\ \A i \in DOMAIN lines : lines'[i] = lines[i]
      /\ lines'[Len(lines) + 1] = l
  BY <1>1
<1>3. CASE l.template = "junk" \/ \E i \in DOMAIN found : fingerprint(found[i]) = fingerprint(l)
  <2>1. found' = found
    BY <1>1, <1>3 DEF parse_vulnerabilities
  <2>2. \A i \in DOMAIN lines' : lines'[i].template # "junk" =>
           \E k \in DOMAIN found : fingerprint(found[k]) = fingerprint(lines'[i])
    BY <1>2, <1>3 DEF LocationsInv
  <2> QED
    BY <1>1, <1>2, <2>1, <2>2 DEF LocationsInv
<1>4. CASE l.template # "junk" /\ ~ \E i \in DOMAIN found : fingerprint(found[i]) = fingerprint(l)
  <2>1. found' = Append(found, l)
    BY <1>1, <1>4 DEF parse_vulnerabilities
  <2>2. /\ found' \in Seq(Line) /\ DOMAIN found' = DOMAIN found \cup {Len(found) + 1}
        /\ \A i \in DOMAIN found : found'[i] = found[i] /\ i # Len(found) + 1
        /\ found'[Len(found) + 1] = l
    BY <1>1, <2>1
  <2>3. \A k \in DOMAIN found' : found'[k].template # "junk"
    BY <1>4, <2>2 DEF LocationsInv
  <2>4. \A j, k \in DOMAIN found' : fingerprint(found'[j]) = fingerprint(found'[k]) => j = k
    BY <1>4, <2>2 DEF LocationsInv
  <2>5. \A i \in DOMAIN lines' : lines'[i].template # "junk" =>
           \E k \in DOMAIN found' : fingerprint(found'[k]) = fingerprint(lines'[i])
    BY <1>2, <2>2 DEF LocationsInv
  <2> QED
    BY <1>1, <1>2, <2>2, <2>3, <2>4, <2>5 DEF LocationsInv, fingerprint
<1> QED
  BY <1>3, <1>4

\* One check and one request are one finding.
LEMMA OneEach == LocationsInv => OneFindingPerRequest
<1> SUFFICES ASSUME LocationsInv, parser = "nuclei", NEW i \in WebLines
             PROVE  Cardinality({k \in DOMAIN found : /\ found[k].template = lines[i].template
                                                      /\ Comparable(found[k].at)
                                                      /\ RequestOf(found[k].at) = RequestOf(lines[i].at)}) = 1
  BY DEF OneFindingPerRequest
<1> DEFINE l == lines[i]
           S == {k \in DOMAIN found : /\ found[k].template = l.template /\ Comparable(found[k].at)
                                      /\ RequestOf(found[k].at) = RequestOf(l.at)}
<1>1. l \in Line /\ l.template # "junk" /\ Comparable(l.at) /\ i \in DOMAIN lines
  BY DEF WebLines, LocationsInv
<1>2. l.at \in Url
  <2>1. l.at \in Urls \cup Plain
    BY <1>1, LineOK
  <2>2. \A p \in Plain : p.kind # "url"
    BY LocationsAssumption DEF Text
  <2> QED
    BY <1>1, <2>1, <2>2, LocationsAssumption DEF Comparable
<1>3. \A k \in DOMAIN found : found[k] \in Line /\ found[k].template # "junk"
                              /\ found[k].at \in Urls \cup Plain
  BY LineOK DEF LocationsInv
<1>4. ASSUME NEW k \in DOMAIN found
      PROVE  fingerprint(found[k]) = fingerprint(l) <=> k \in S
  <2>1. fingerprint(found[k]) = fingerprint(l) <=>
          found[k].template = l.template /\ normalize_location(found[k].at) = normalize_location(l.at)
    BY DEF fingerprint
  <2>2. ASSUME normalize_location(found[k].at) = normalize_location(l.at)
        PROVE  Comparable(found[k].at) /\ RequestOf(found[k].at) = RequestOf(l.at)
    <3>1. found[k].at \in Url /\ Comparable(found[k].at)
      BY <1>1, <1>2, <1>3, <2>2, NormalIsWeb
    <3> QED
      BY <1>1, <1>2, <2>2, <3>1, NormalIsRequest
  <2>3. ASSUME Comparable(found[k].at), RequestOf(found[k].at) = RequestOf(l.at)
        PROVE  normalize_location(found[k].at) = normalize_location(l.at)
    <3>1. found[k].at \in Url
      <4>1. \A p \in Plain : p.kind # "url"
        BY LocationsAssumption DEF Text
      <4> QED
        BY <1>3, <2>3, <4>1, LocationsAssumption DEF Comparable
    <3> QED
      BY <1>1, <1>2, <2>3, <3>1, NormalIsRequest
  <2> QED
    BY <2>1, <2>2, <2>3
<1>5. PICK k \in DOMAIN found : fingerprint(found[k]) = fingerprint(l)
  BY <1>1 DEF LocationsInv
<1>6. S = {k}
  <2>1. k \in S
    BY <1>4, <1>5
  <2>2. ASSUME NEW j \in S PROVE j = k
    <3>1. j \in DOMAIN found /\ fingerprint(found[j]) = fingerprint(l)
      BY <1>4
    <3> QED
      BY <3>1, <1>5 DEF LocationsInv
  <2> QED
    BY <2>1, <2>2
<1> QED
  BY <1>6, FS_Singleton

\* The spelling of a web address neither splits an endpoint into two findings
\* nor merges two endpoints into one, whatever a scan reports and in what order.
THEOREM LocationsTheorem == LocationsSpec => []OneFindingPerRequest
<1>1. LocationsInit => LocationsInv
  BY DEF LocationsInit, LocationsInv
<1>2. LocationsInv /\ [LocationsNext]_locationVars => LocationsInv'
  <2> SUFFICES ASSUME LocationsInv, [LocationsNext]_locationVars PROVE LocationsInv'
    OBVIOUS
  <2>1. CASE LocationsNext
    BY <2>1, LocationsStep DEF LocationsNext
  <2>2. CASE UNCHANGED locationVars
    BY <2>2 DEF locationVars, LocationsInv, fingerprint
  <2> QED
    BY <2>1, <2>2
<1> QED
  BY <1>1, <1>2, OneEach, PTL DEF LocationsSpec

-----------------------------------------------------------------------------
(* Reports                                                                 *)

\* Induction over the subsets of a finite set, for a set of good subsets.
LEMMA EverySubset ==
    ASSUME NEW S, IsFiniteSet(S), NEW P, {} \in P,
           \A T \in SUBSET S : T # {} => \E x \in T : T \ {x} \in P => T \in P
    PROVE  \A T \in SUBSET S : T \in P
<1> DEFINE Bad == {T \in SUBSET S : T \notin P}
           R == StrictSubsetOrdering(S)
<1> SUFFICES ASSUME Bad # {} PROVE FALSE
  OBVIOUS
<1>1. IsWellFoundedOn(R, SUBSET S)
  <2>1. IsWellFoundedOn(R, FiniteSubsetsOf(S))
    BY FS_StrictSubsetOrderingWellFounded
  <2>2. FiniteSubsetsOf(S) = SUBSET S
    BY FS_FiniteSubsetsOfFinite
  <2> QED
    BY <2>1, <2>2
<1>2. Bad \subseteq SUBSET S
  OBVIOUS
<1>3. PICK T \in Bad : \A U \in Bad : ~(<<U, T>> \in R)
  <2> HIDE DEF R, Bad
  <2> QED
    BY <1>1, <1>2, WFMin
<1>4. T # {} /\ T \in SUBSET S /\ T \notin P
  OBVIOUS
<1>5. PICK x \in T : T \ {x} \in P => T \in P
  BY <1>4
<1>6. T \ {x} \in Bad
  BY <1>4, <1>5
<1>7. <<T \ {x}, T>> \in R
  BY <1>4, <1>5 DEF StrictSubsetOrdering
<1> QED
  BY <1>3, <1>6, <1>7

\* CVSS and risk scores in tenths, -1 for none.
Scores == {n \in Int : -1 <= n /\ n <= 100}

LEMMA ScoresAre == Scores = -1..100
  BY SMT DEF Scores

\* A set of scores has a greatest one.
LEMMA GreatestExists ==
    ASSUME NEW S \in SUBSET Scores, S # {}
    PROVE  \E x \in S : \A y \in S : y <= x
<1> DEFINE N == {n \in Nat : 100 - n \in S}
           R == OpToRel(<, Nat)
<1>1. N \subseteq Nat /\ N # {}
  <2>1. PICK x \in S : TRUE
    OBVIOUS
  <2>2. PICK n \in Nat : 100 - n = x
    <3>1. 100 - x \in Nat /\ 100 - (100 - x) = x
      BY DEF Scores
    <3> QED
      BY <3>1
  <2>3. n \in N
    BY <2>1, <2>2
  <2> QED
    BY <2>3
<1>2. PICK n \in N : \A m \in N : ~(<<m, n>> \in R)
  <2> HIDE DEF N, R
  <2>1. IsWellFoundedOn(R, Nat)
    BY NatLessThanWellFounded DEF R
  <2> QED
    BY <1>1, <2>1, WFMin
<1>3. \A m \in N : n <= m
  <2>1. \A i, j \in Nat : i < j => <<i, j>> \in R
    BY DEF OpToRel
  <2>2. \A i, j \in Nat : i < j \/ j <= i
    OBVIOUS
  <2> HIDE DEF R
  <2> QED
    BY <1>1, <1>2, <2>1, <2>2
<1>4. 100 - n \in S
  OBVIOUS
<1>5. \A y \in S : y <= 100 - n
  <2> SUFFICES ASSUME NEW y \in S PROVE y <= 100 - n
    OBVIOUS
  <2>1. PICK m \in Nat : 100 - m = y
    <3>1. 100 - y \in Nat /\ 100 - (100 - y) = y
      BY DEF Scores
    <3> QED
      BY <3>1
  <2>2. m \in N
    BY <2>1
  <2>3. n <= m /\ n \in Nat
    BY <2>2, <1>1, <1>3
  <2> QED
    BY <2>1, <2>3
<1> QED
  BY <1>4, <1>5

\* Highest is the greatest of the scores, or -1 when none is set.
LEMMA HighestIs ==
    ASSUME NEW S \in SUBSET Scores, NEW x \in S, \A y \in S : y <= x
    PROVE  Highest(S) = x
<1> DEFINE T == S \cup {-1}
<1>1. x \in T /\ \A y \in T : x >= y
  BY DEF Scores
<1>2. \A z \in T : (\A y \in T : z >= y) => z = x
  BY DEF Scores
<1> HIDE DEF T
<1>3. Max(T) = x
  BY <1>1, <1>2 DEF Max
<1> QED
  BY <1>3 DEF Highest, T

LEMMA HighestOK == ASSUME NEW S \in SUBSET Scores PROVE Highest(S) \in Scores
<1> DEFINE T == S \cup {-1}
<1>1. T \in SUBSET Scores /\ T # {}
  BY DEF Scores
<1>2. PICK x \in T : \A y \in T : y <= x
  BY <1>1, GreatestExists
<1>3. Highest(T) = x
  BY <1>1, <1>2, HighestIs
<1>4. Highest(S) = Highest(T)
  <2>1. T \cup {-1} = T
    OBVIOUS
  <2> QED
    BY <2>1 DEF Highest
<1> QED
  BY <1>1, <1>2, <1>3, <1>4

\* A set indexed by a finite set of keys that tells them apart is as large.
LEMMA KeyedOK ==
    ASSUME NEW K, IsFiniteSet(K), NEW g, DOMAIN g = K, \A k \in K : g[k].key = k,
           NEW T, T = {g[k] : k \in K}
    PROVE  IsFiniteSet(T) /\ Cardinality(T) = Cardinality(K) /\ {x.key : x \in T} = K
<1> DEFINE f == [k \in K |-> g[k]]
<1>1. f \in [K -> T] /\ \A t \in T : \E k \in K : f[k] = t
  OBVIOUS
<1>2. \A j, k \in K : f[j] = f[k] => j = k
  OBVIOUS
<1>3. {x.key : x \in T} = K
  OBVIOUS
<1> HIDE DEF f
<1>4. f \in Bijection(K, T)
  BY <1>1, <1>2 DEF Bijection, Injection, Surjection, IsInjective
<1>5. ExistsBijection(K, T)
  BY <1>4 DEF ExistsBijection
<1>6. IsFiniteSet(T) /\ Cardinality(T) = Cardinality(K)
  BY <1>5, FS_Bijection
<1> QED
  BY <1>3, <1>6

\* What the figures of a row are made of.
FiguresOK(r) ==
    /\ r.risk \in Scores /\ r.cvss \in Scores
    /\ r.severity \in CountedSeverities
    /\ r.evidence \subseteq {"shot", "output"}
RowsOK(rows) == IsFiniteSet(rows) /\ \A r \in rows : FiguresOK(r)

LEMMA RankOK ==
    /\ \A s \in CountedSeverities : _severity_rank(s) \in 0..4
    /\ \A s, t \in CountedSeverities : _severity_rank(s) = _severity_rank(t) => s = t
<1>1. /\ _severity_rank("critical") = 4 /\ _severity_rank("high") = 3
      /\ _severity_rank("medium") = 2 /\ _severity_rank("low") = 1 /\ _severity_rank("info") = 0
  BY DEF _severity_rank
<1> QED
  BY <1>1 DEF CountedSeverities

\* Among the active occurrences of an issue one leads: of the highest risk,
\* then the worst severity, then the highest CVSS.
LEMMA LeaderExists ==
    ASSUME NEW pool, pool # {}, \A r \in pool : FiguresOK(r)
    PROVE  \E m \in pool : \A n \in pool : RepAtMost(n, m)
<1>1. PICK x \in {m.risk : m \in pool} : \A y \in {m.risk : m \in pool} : y <= x
  <2>1. {m.risk : m \in pool} \in SUBSET Scores /\ {m.risk : m \in pool} # {}
    BY DEF FiguresOK
  <2> QED
    BY <2>1, GreatestExists
<1> DEFINE first == {m \in pool : m.risk = x}
<1>2. first # {} /\ first \subseteq pool
  OBVIOUS
<1>3. PICK s \in {_severity_rank(m.severity) : m \in first} :
           \A y \in {_severity_rank(m.severity) : m \in first} : y <= s
  <2>1. {_severity_rank(m.severity) : m \in first} \in SUBSET Scores
    <3>1. ASSUME NEW m \in first PROVE _severity_rank(m.severity) \in Scores
      <4>1. _severity_rank(m.severity) \in 0..4
        BY RankOK DEF FiguresOK
      <4> QED
        BY <4>1 DEF Scores
    <3> QED
      BY <3>1
  <2>2. {_severity_rank(m.severity) : m \in first} # {}
    BY <1>2
  <2> HIDE DEF first
  <2> QED
    BY <2>1, <2>2, GreatestExists
<1> DEFINE worst == {m \in first : _severity_rank(m.severity) = s}
<1>4. worst # {} /\ worst \subseteq first
  OBVIOUS
<1>5. PICK v \in {m.cvss : m \in worst} : \A y \in {m.cvss : m \in worst} : y <= v
  <2>1. {m.cvss : m \in worst} \in SUBSET Scores /\ {m.cvss : m \in worst} # {}
    BY <1>2, <1>4 DEF FiguresOK
  <2> HIDE DEF worst
  <2> QED
    BY <2>1, GreatestExists
<1>6. PICK m \in worst : m.cvss = v
  BY <1>5
<1>7. ASSUME NEW n \in pool PROVE RepAtMost(n, m)
  <2>1. m \in pool /\ m.risk = x /\ _severity_rank(m.severity) = s
    BY <1>6
  <2>2. n.risk \in Scores /\ n.risk <= x /\ x \in Scores
    BY <1>1 DEF FiguresOK
  <2>3. CASE n.risk # x
    BY <2>1, <2>2, <2>3 DEF RepAtMost, Scores
  <2>4. CASE n.risk = x
    <3>1. n \in first /\ _severity_rank(n.severity) <= s
      BY <1>3, <2>4
    <3>2. _severity_rank(n.severity) \in 0..4 /\ s \in 0..4
      BY <2>1, RankOK DEF FiguresOK
    <3>3. CASE _severity_rank(n.severity) # s
      BY <3>1, <3>2, <3>3, <2>1, <2>4 DEF RepAtMost
    <3>4. CASE _severity_rank(n.severity) = s
      <4>1. n.severity = m.severity
        BY <3>4, <2>1, RankOK DEF FiguresOK
      <4>2. n.cvss <= m.cvss
        BY <3>1, <3>4, <1>5, <1>6
      <4> QED
        BY <4>1, <4>2, <2>1, <2>4 DEF RepAtMost
    <3> QED
      BY <3>3, <3>4
  <2> QED
    BY <2>3, <2>4
<1> QED
  BY <1>2, <1>4, <1>6, <1>7

\* A finding block prints the risk of its representative: the highest one of
\* the active occurrences, which is what the key risks print.
LEMMA RepresentativeLeads ==
    ASSUME NEW members, \A r \in members : FiguresOK(r), ActiveIn(members) # {}
    PROVE  Representative(members).risk = Highest({m.risk : m \in ActiveIn(members)})
<1> DEFINE pool == ActiveIn(members)
           rep == CHOOSE m \in pool : \A n \in pool : RepAtMost(n, m)
<1>1. pool # {} /\ \A r \in pool : FiguresOK(r)
  BY DEF ActiveIn
<1>2. Representative(members) = rep
  BY DEF Representative
<1> HIDE DEF pool
<1>3. rep \in pool /\ \A n \in pool : RepAtMost(n, rep)
  BY <1>1, LeaderExists
<1> HIDE DEF rep
<1>4. \A n \in pool : n.risk <= rep.risk
  <2> SUFFICES ASSUME NEW n \in pool PROVE n.risk <= rep.risk
    OBVIOUS
  <2>1. n.risk \in Scores /\ rep.risk \in Scores
    BY <1>1, <1>3 DEF FiguresOK
  <2>2. RepAtMost(n, rep)
    BY <1>3
  <2>3. n.risk < rep.risk \/ n.risk = rep.risk
    BY <2>2 DEF RepAtMost
  <2> QED
    BY <2>1, <2>3 DEF Scores
<1> DEFINE S == {m.risk : m \in pool}
<1>5. S \in SUBSET Scores /\ rep.risk \in S /\ \A y \in S : y <= rep.risk
  BY <1>1, <1>3, <1>4 DEF FiguresOK
<1>6. Highest(S) = rep.risk
  <2> HIDE DEF S
  <2> QED
    BY <1>5, HighestIs
<1> QED
  BY <1>2, <1>6 DEF pool

\* Induction over the numbers, for a set of good numbers.
LEMMA EveryNumber ==
    ASSUME NEW P, 0 \in P, \A n \in Nat : n \in P => n + 1 \in P
    PROVE  \A n \in Nat : n \in P
<1> DEFINE Bad == {n \in Nat : n \notin P}
           R == OpToRel(<, Nat)
<1> SUFFICES ASSUME Bad # {} PROVE FALSE
  OBVIOUS
<1>1. PICK n \in Bad : \A m \in Bad : ~(<<m, n>> \in R)
  <2>1. IsWellFoundedOn(R, Nat)
    BY NatLessThanWellFounded
  <2>2. Bad \subseteq Nat
    OBVIOUS
  <2> HIDE DEF Bad, R
  <2> QED
    BY <2>1, <2>2, WFMin
<1>2. n \in Nat /\ n # 0 /\ n \notin P
  OBVIOUS
<1>3. n - 1 \in Nat /\ (n - 1) + 1 = n /\ n - 1 < n
  BY <1>2
<1>4. n - 1 \in Bad
  BY <1>2, <1>3
<1>5. <<n - 1, n>> \in R
  BY <1>2, <1>3 DEF OpToRel
<1> QED
  BY <1>1, <1>4, <1>5

(* The score is a fold over the scored issues: what is left of 10000 when  *)
(* each takes its penalty, in the order in which CHOOSE picks them.        *)
Picked(s) == CHOOSE x \in s : TRUE
Taken(issue, left) == (left * (10000 - issue.penalty)) \div 10000
LeftAfter(g, s) == IF s = {} THEN 10000 ELSE Taken(Picked(s), g[s \ {Picked(s)}])
LeftOf(S) == CHOOSE g : g = [s \in SUBSET S |-> LeftAfter(g, s)]

LEMMA ScoreIs == ASSUME NEW S PROVE score_from_issues(S) = (LeftOf(S)[S] + 50) \div 100
  BY DEF score_from_issues, FoldSet, MapThenFoldSet, LeftOf, LeftAfter, Picked, Taken

\* The fold exists: extend it from the sets of at most n issues to those of
\* at most n + 1.
LEMMA LeftExists ==
    ASSUME NEW S, IsFiniteSet(S)
    PROVE  LeftOf(S) = [s \in SUBSET S |-> LeftAfter(LeftOf(S), s)]
<1> DEFINE Upto(n) == {s \in SUBSET S : Cardinality(s) <= n}
           P == {n \in Nat : \E g : g = [s \in Upto(n) |-> LeftAfter(g, s)]}
<1>1. \A s \in SUBSET S : IsFiniteSet(s) /\ Cardinality(s) \in Nat /\ Cardinality(s) <= Cardinality(S)
  BY FS_Subset, FS_CardinalityType
<1>2. 0 \in P
  <2> DEFINE g == [s \in Upto(0) |-> 10000]
  <2>1. \A s \in Upto(0) : s = {}
    BY <1>1, FS_EmptySet
  <2>2. \A s \in Upto(0) : LeftAfter(g, s) = 10000
    BY <2>1 DEF LeftAfter
  <2>3. g = [s \in Upto(0) |-> LeftAfter(g, s)]
    BY <2>2
  <2> HIDE DEF g, Upto
  <2> QED
    BY <2>3
<1>3. ASSUME NEW n \in Nat, n \in P PROVE n + 1 \in P
  <2>1. PICK g : g = [s \in Upto(n) |-> LeftAfter(g, s)]
    BY <1>3
  <2> DEFINE h == [s \in Upto(n + 1) |-> LeftAfter(g, s)]
  <2>2. ASSUME NEW s \in Upto(n + 1), s # {}
        PROVE  s \ {Picked(s)} \in Upto(n)
    <3>1. Picked(s) \in s
      BY <2>2 DEF Picked
    <3>2. Cardinality(s \ {Picked(s)}) = Cardinality(s) - 1
      BY <1>1, <3>1, FS_RemoveElement
    <3> QED
      BY <1>1, <3>1, <3>2
  <2>3. Upto(n) \subseteq Upto(n + 1)
    BY <1>1
  <2> HIDE DEF Upto
  <2>4. \A s \in Upto(n) : h[s] = g[s]
    BY <2>1, <2>3
  <2>5. ASSUME NEW s \in Upto(n + 1) PROVE LeftAfter(g, s) = LeftAfter(h, s)
    <3>1. s # {} => h[s \ {Picked(s)}] = g[s \ {Picked(s)}]
      BY <2>2, <2>4
    <3> HIDE DEF h
    <3> QED
      BY <3>1 DEF LeftAfter
  <2>6. h = [s \in Upto(n + 1) |-> LeftAfter(h, s)]
    BY <2>5, Zenon
  <2> HIDE DEF h
  <2>7. \E k : k = [s \in Upto(n + 1) |-> LeftAfter(k, s)]
    BY <2>6
  <2>8. n + 1 \in Nat
    OBVIOUS
  <2> QED
    BY <2>7, <2>8
<1>4. Cardinality(S) \in P
  <2> HIDE DEF P
  <2>1. \A n \in Nat : n \in P
    BY <1>2, <1>3, EveryNumber
  <2> QED
    BY <2>1, FS_CardinalityType
<1>5. Upto(Cardinality(S)) = SUBSET S
  BY <1>1
<1>6. \E g : g = [s \in SUBSET S |-> LeftAfter(g, s)]
  BY <1>4, <1>5
<1> QED
  BY <1>6 DEF LeftOf

\* What an issue takes off is never less than a fortieth of a point and leaves
\* at least a third; a score of 97 is the most a scored issue leaves.
PenaltyOK(issue) == issue.penalty \in Nat /\ 255 <= issue.penalty /\ issue.penalty <= 6500
FullScore == {n \in Nat : n <= 10000}
DentedScore == {n \in Nat : n <= 9745}

LEMMA ScoreNumbers ==
    /\ 10000 \in FullScore /\ (10000 + 50) \div 100 = 100
    /\ \A n \in DentedScore : n \in FullScore /\ (n + 50) \div 100 # 100
  BY SMT DEF FullScore, DentedScore

LEMMA TakenOK ==
    ASSUME NEW left \in FullScore, NEW issue, PenaltyOK(issue)
    PROVE  Taken(issue, left) \in DentedScore
<1> DEFINE p == issue.penalty
           r == 10000 - p
           q == left * r
<1>1. p \in Nat /\ 255 <= p /\ p <= 6500
  BY DEF PenaltyOK
<1> HIDE DEF p
<1>2. r \in Nat /\ r <= 9745
  BY <1>1, SMT
<1> HIDE DEF r
<1>3. left \in Nat /\ left <= 10000
  BY DEF FullScore
<1>4. left * r \in Nat /\ left * r <= 10000 * r
  BY <1>2, <1>3, SMT
<1>5. q \in Nat /\ q <= 97450000
  BY <1>2, <1>4, SMT
<1> HIDE DEF q
<1>6. q \div 10000 \in Nat /\ q \div 10000 <= 9745
  BY <1>5, SMT
<1> QED
  BY <1>6 DEF q, r, p, DentedScore, Taken

\* The score is full exactly when nothing is scored.
LEMMA ScoreOK ==
    ASSUME NEW S, IsFiniteSet(S), \A issue \in S : PenaltyOK(issue)
    PROVE  score_from_issues(S) = 100 <=> S = {}
<1> DEFINE L == LeftOf(S)
           P == {T \in SUBSET S : L[T] \in FullScore}
<1>1. L = [s \in SUBSET S |-> LeftAfter(L, s)]
  BY LeftExists
<1>2. L[{}] = 10000
  BY <1>1 DEF LeftAfter
<1>3. score_from_issues(S) = (L[S] + 50) \div 100
  BY ScoreIs
<1>4. ASSUME NEW T \in SUBSET S, T # {}
      PROVE  Picked(T) \in T /\ L[T] = Taken(Picked(T), L[T \ {Picked(T)}])
  <2> HIDE DEF L
  <2>1. L[T] = LeftAfter(L, T)
    BY <1>1
  <2> QED
    BY <2>1, <1>4 DEF LeftAfter, Picked
<1> HIDE DEF L
<1>5. ASSUME NEW T \in SUBSET S, T # {}, L[T \ {Picked(T)}] \in FullScore PROVE L[T] \in DentedScore
  <2>1. PenaltyOK(Picked(T))
    BY <1>4, <1>5
  <2>2. Taken(Picked(T), L[T \ {Picked(T)}]) \in DentedScore
    BY <2>1, <1>5, TakenOK
  <2> QED
    BY <2>2, <1>4, <1>5
<1>6. \A T \in SUBSET S : T \in P
  <2>1. {} \in P
    BY <1>2, ScoreNumbers
  <2>2. ASSUME NEW T \in SUBSET S, T # {} PROVE \E x \in T : T \ {x} \in P => T \in P
    <3>1. Picked(T) \in T
      BY <1>4, <2>2
    <3>2. ASSUME T \ {Picked(T)} \in P PROVE T \in P
      <4>1. L[T] \in DentedScore
        BY <3>2, <1>5, <2>2
      <4> QED
        BY <4>1, ScoreNumbers
    <3> HIDE DEF P
    <3> QED
      BY <3>1, <3>2
  <2> HIDE DEF P
  <2> QED
    BY <2>1, <2>2, EverySubset
<1>7. CASE S = {}
  BY <1>2, <1>3, <1>7, ScoreNumbers
<1>8. CASE S # {}
  <2>1. S \ {Picked(S)} \in SUBSET S /\ S \in SUBSET S
    OBVIOUS
  <2>2. L[S \ {Picked(S)}] \in FullScore
    BY <2>1, <1>6
  <2>3. L[S] \in DentedScore
    BY <2>1, <2>2, <1>5, <1>8
  <2> QED
    BY <2>3, <1>3, <1>8, ScoreNumbers
<1> QED
  BY <1>7, <1>8

LEMMA MinIs == ASSUME NEW a \in Int, NEW b \in Int PROVE Min({a, b}) = IF a <= b THEN a ELSE b
<1> DEFINE m == IF a <= b THEN a ELSE b
<1>1. m \in {a, b} /\ \A y \in {a, b} : m =< y
  OBVIOUS
<1>2. \A x \in {a, b} : (\A y \in {a, b} : x =< y) => x = m
  OBVIOUS
<1> QED
  BY <1>1, <1>2 DEF Min

\* The factors of a penalty, none of which is small.
LEMMA FactorsOK ==
    ASSUME NEW severity, NEW cvss \in Scores, NEW score \in Scores, NEW places
    PROVE  /\ _BASE_PENALTY(severity) \in Nat /\ 4 <= _BASE_PENALTY(severity)
           /\ _cvss_factor(cvss) \in Nat /\ 75 <= _cvss_factor(cvss)
           /\ _risk_factor(score) \in Nat /\ 85 <= _risk_factor(score)
           /\ _location_factor(places) \in Nat /\ 1000 <= _location_factor(places)
<1>1. _BASE_PENALTY(severity) \in Nat /\ 4 <= _BASE_PENALTY(severity)
  BY DEF _BASE_PENALTY
<1>2. _cvss_factor(cvss) \in Nat /\ 75 <= _cvss_factor(cvss)
  BY SMT DEF _cvss_factor, Scores
<1>3. _risk_factor(score) \in Nat /\ 85 <= _risk_factor(score)
  BY SMT DEF _risk_factor, Scores
<1>4. _location_factor(places) \in Nat /\ 1000 <= _location_factor(places)
  BY SMT DEF _location_factor
<1> QED
  BY <1>1, <1>2, <1>3, <1>4

LEMMA ProductOK ==
    ASSUME NEW b \in Nat, NEW c \in Nat, NEW r \in Nat, NEW n \in Nat,
           4 <= b, 75 <= c, 85 <= r, 1000 <= n
    PROVE  (b * c * r * n) \div 100000 \in Nat /\ 255 <= (b * c * r * n) \div 100000
<1>1. b * c \in Nat /\ 300 <= b * c
  BY SMT
<1> DEFINE x == b * c
<1> HIDE DEF x
<1>2. x * r \in Nat /\ 25500 <= x * r
  BY <1>1, SMT DEF x
<1> DEFINE y == x * r
<1> HIDE DEF y
<1>3. y * n \in Nat /\ 25500000 <= y * n
  BY <1>2, SMT DEF y
<1> DEFINE z == y * n
<1> HIDE DEF z
<1>4. z \div 100000 \in Nat /\ 255 <= z \div 100000
  BY <1>3, SMT DEF z
<1> QED
  BY <1>4, SMT DEF x, y, z

LEMMA IssuePenaltyOK ==
    ASSUME NEW rows, \A r \in rows : FiguresOK(r), NEW key
    PROVE  PenaltyOK(ScoredIssue(rows, key))
<1> DEFINE members == MembersOf(rows, key)
           places == Cardinality({m.at : m \in members} \ {"none"})
                       + Cardinality({m \in members : m.at = "none"})
           severity == MaxSeverity(members)
           cvss == Highest({m.cvss : m \in members})
           score == Highest({m.risk : m \in members})
           product == (_BASE_PENALTY(severity) * _cvss_factor(cvss) * _risk_factor(score)
                         * _location_factor(places)) \div 100000
<1>1. cvss \in Scores /\ score \in Scores
  <2>1. {m.cvss : m \in members} \in SUBSET Scores /\ {m.risk : m \in members} \in SUBSET Scores
    BY DEF FiguresOK, MembersOf
  <2> QED
    BY <2>1, HighestOK
<1>2. ScoredIssue(rows, key).penalty = Min({6500, product})
  BY DEF ScoredIssue
<1> HIDE DEF members, places, severity, cvss, score
<1>3. product \in Nat /\ 255 <= product
  BY <1>1, FactorsOK, ProductOK
<1> HIDE DEF product
<1>4. Min({6500, product}) = IF 6500 <= product THEN 6500 ELSE product
  BY <1>3, MinIs
<1>5. Min({6500, product}) \in Nat /\ 255 <= Min({6500, product}) /\ Min({6500, product}) <= 6500
  BY <1>3, <1>4, SMT
<1> QED
  BY <1>2, <1>5 DEF PenaltyOK

LEMMA KeysFinite == ASSUME NEW rows, IsFiniteSet(rows) PROVE IsFiniteSet(Keys(rows))
<1> DEFINE f == [r \in rows |-> r.key]
<1>1. f \in Surjection(rows, Keys(rows))
  BY DEF Surjection, Keys
<1> QED
  BY <1>1, FS_Surjection

\* Finding blocks, key risks and scored issues are one per issue.
LEMMA BlocksOK ==
    ASSUME NEW rows, IsFiniteSet(rows)
    PROVE  /\ {g.key : g \in _finding_groups(rows)} = Keys(rows)
           /\ Cardinality(_finding_groups(rows)) = Cardinality(Keys(rows))
           /\ \A g \in _finding_groups(rows) : g.key \in Keys(rows) /\ g = FindingGroup(rows, g.key)
<1> DEFINE K == Keys(rows)
           f == [k \in K |-> FindingGroup(rows, k)]
<1>1. IsFiniteSet(K)
  BY KeysFinite
<1>2. \A k \in K : FindingGroup(rows, k).key = k
  BY DEF FindingGroup
<1>3. DOMAIN f = K /\ \A k \in K : f[k].key = k
  BY <1>2
<1>4. _finding_groups(rows) = {f[k] : k \in K}
  BY DEF _finding_groups
<1> HIDE DEF f, K
<1> DEFINE T == _finding_groups(rows)
<1> HIDE DEF T
<1>5. Cardinality(T) = Cardinality(K) /\ {x.key : x \in T} = K
  <2>1. T = {f[k] : k \in K}
    BY <1>4 DEF T
  <2> QED
    BY <1>1, <1>3, <2>1, KeyedOK
<1>6. \A g \in _finding_groups(rows) : \E k \in K : g = FindingGroup(rows, k)
  BY DEF _finding_groups, K
<1> QED
  BY <1>2, <1>5, <1>6 DEF K, T

RiskGroup(active, k) ==
    LET members == MembersOf(active, k)
    IN  [key |-> k, endpoint_count |-> Cardinality(members),
         max_risk |-> Highest({m.risk : m \in members}),
         max_cvss |-> Highest({m.cvss : m \in members}),
         severity |-> MaxSeverity(members)]

LEMMA KeyRisksOK ==
    ASSUME NEW rows, IsFiniteSet(ActiveIn(rows))
    PROVE  /\ {g.key : g \in _top_risk_groups(rows)} = Keys(ActiveIn(rows))
           /\ Cardinality(_top_risk_groups(rows)) = Cardinality(Keys(ActiveIn(rows)))
           /\ \A g \in _top_risk_groups(rows) :
                g.key \in Keys(ActiveIn(rows)) /\ g = RiskGroup(ActiveIn(rows), g.key)
<1> DEFINE active == ActiveIn(rows)
           K == Keys(active)
           f == [k \in K |-> RiskGroup(active, k)]
<1>1. IsFiniteSet(K)
  BY KeysFinite
<1>2. \A k \in K : RiskGroup(active, k).key = k
  BY DEF RiskGroup
<1>3. DOMAIN f = K /\ \A k \in K : f[k].key = k
  BY <1>2
<1>4. _top_risk_groups(rows) = {RiskGroup(active, k) : k \in K}
  BY DEF _top_risk_groups, RiskGroup
<1>5. {f[k] : k \in K} = {RiskGroup(active, k) : k \in K}
  OBVIOUS
<1> HIDE DEF f, K
<1> DEFINE T == _top_risk_groups(rows)
<1> HIDE DEF T
<1>6. Cardinality(T) = Cardinality(K) /\ {x.key : x \in T} = K
  <2>1. T = {f[k] : k \in K}
    BY <1>4, <1>5 DEF T
  <2> QED
    BY <1>1, <1>3, <2>1, KeyedOK
<1>7. \A g \in _top_risk_groups(rows) : \E k \in K : g = RiskGroup(active, k)
  BY <1>4
<1> QED
  BY <1>2, <1>6, <1>7 DEF K, T

Counted(rows) == {r \in rows : scorable(r)}

LEMMA IssuesOK ==
    ASSUME NEW rows, RowsOK(rows)
    PROVE  /\ IsFiniteSet(Keys(Counted(rows)))
           /\ IsFiniteSet(group_issues(rows))
           /\ Cardinality(group_issues(rows)) = Cardinality(Keys(Counted(rows)))
           /\ \A issue \in group_issues(rows) : PenaltyOK(issue)
<1> DEFINE counted == Counted(rows)
           K == Keys(counted)
           f == [k \in K |-> ScoredIssue(counted, k)]
<1>1. IsFiniteSet(counted) /\ \A r \in counted : FiguresOK(r)
  BY FS_Subset DEF RowsOK, Counted
<1>2. IsFiniteSet(K)
  BY <1>1, KeysFinite
<1>3. DOMAIN f = K /\ \A k \in K : f[k].key = k
  BY DEF ScoredIssue
<1>4. group_issues(rows) = {ScoredIssue(counted, k) : k \in K}
  BY DEF group_issues, Counted
<1>5. {f[k] : k \in K} = {ScoredIssue(counted, k) : k \in K}
  OBVIOUS
<1> HIDE DEF f, K, counted
<1>6. IsFiniteSet({f[k] : k \in K}) /\ Cardinality({f[k] : k \in K}) = Cardinality(K)
  BY <1>2, <1>3, KeyedOK
<1>7. \A k \in K : PenaltyOK(ScoredIssue(counted, k))
  BY <1>1, IssuePenaltyOK
<1> QED
  BY <1>2, <1>4, <1>5, <1>6, <1>7 DEF K, counted

\* The active occurrences of an issue are the same whether it is the rows or
\* the issue's members that are filtered.
LEMMA ActiveMembers ==
    ASSUME NEW rows, NEW k
    PROVE  /\ ActiveIn(MembersOf(rows, k)) = MembersOf(ActiveIn(rows), k)
           /\ ActiveIn(MembersOf(ActiveIn(rows), k)) = MembersOf(ActiveIn(rows), k)
           /\ k \in Keys(ActiveIn(rows)) => MembersOf(ActiveIn(rows), k) # {}
  BY DEF ActiveIn, MembersOf, Keys

\* A block about an active issue prints the risk of the key risks, whether the
\* block spans every status or the active occurrences only.
LEMMA BlockRisk ==
    ASSUME NEW rows, RowsOK(rows), NEW k \in Keys(ActiveIn(rows)),
           NEW over \in {rows, ActiveIn(rows)}
    PROVE  FindingGroup(over, k).risk = RiskGroup(ActiveIn(rows), k).max_risk
<1> DEFINE active == MembersOf(ActiveIn(rows), k)
           members == MembersOf(over, k)
<1>1. ActiveIn(members) = active /\ active # {}
  BY ActiveMembers
<1>2. \A r \in members : FiguresOK(r)
  BY DEF RowsOK, MembersOf, ActiveIn
<1>3. FindingGroup(over, k).risk = Representative(members).risk
  BY DEF FindingGroup
<1>4. RiskGroup(ActiveIn(rows), k).max_risk = Highest({m.risk : m \in active})
  BY DEF RiskGroup
<1> HIDE DEF active, members
<1> QED
  BY <1>1, <1>2, <1>3, <1>4, RepresentativeLeads

\* Only an issue with an occurrence that has both artefacts is confirmed.
LEMMA ConfirmedOK ==
    ASSUME NEW rows, NEW k, impact_certainty(FindingGroup(rows, k).verification) = "confirmed"
    PROVE  {"shot", "output"} \subseteq FindingGroup(rows, k).evidence
<1> DEFINE members == MembersOf(rows, k)
           states == {classify_verification(m) : m \in members}
<1>1. /\ FindingGroup(rows, k).verification = Strongest(states)
      /\ FindingGroup(rows, k).evidence = UNION {m.evidence : m \in members}
  BY DEF FindingGroup
<1>2. "verified" \in states
  <2> HIDE DEF states
  <2> QED
    BY <1>1 DEF impact_certainty, Strongest
<1>3. PICK m \in members : classify_verification(m) = "verified"
  BY <1>2
<1>4. m.evidence \cap {"shot", "output"} = {"shot", "output"}
  BY <1>3 DEF classify_verification
<1> HIDE DEF members
<1> QED
  BY <1>1, <1>3, <1>4

\* A technique is counted over scored issues only.
LEMMA AttackOK ==
    ASSUME NEW rows, RowsOK(rows), NEW t \in DOMAIN ReportedTechniques(rows)
    PROVE  ReportedTechniques(rows)[t] <= Cardinality(group_issues(rows))
<1> DEFINE some == {r.key : r \in {x \in Counted(rows) : t \in x.techniques}}
<1>1. ReportedTechniques(rows)[t] = Cardinality(some)
  BY DEF ReportedTechniques, Counted
<1>2. some \subseteq Keys(Counted(rows))
  BY DEF Keys
<1> HIDE DEF some
<1>3. Cardinality(some) <= Cardinality(Keys(Counted(rows)))
  BY <1>2, IssuesOK, FS_Subset
<1> QED
  BY <1>1, <1>3, IssuesOK

\* A control is listed for the findings that made it appear.
LEMMA ControlsOK ==
    ASSUME NEW rows, NEW c \in DOMAIN compliance_coverage(rows)
    PROVE  compliance_coverage(rows)[c] # {}
<1>1. PICK r \in Counted(rows) : c \in r.controls
  BY DEF compliance_coverage, Counted
<1>2. compliance_coverage(rows)[c] = {x.id : x \in {y \in Counted(rows) : c \in y.controls}}
  BY DEF compliance_coverage, Counted
<1>3. r.id \in compliance_coverage(rows)[c]
  BY <1>1, <1>2
<1> QED
  BY <1>3

\* Every report, whatever rows it is made of.
LEMMA ReportCoherent ==
    ASSUME NEW rows, RowsOK(rows), NEW scope
    PROVE  Coherent(build_report_model(rows, scope))
<1> DEFINE m == build_report_model(rows, scope)
           active == ActiveIn(rows)
<1>1. RowsOK(active) /\ IsFiniteSet(rows) /\ IsFiniteSet(active)
  BY FS_Subset DEF RowsOK, ActiveIn
<1>2. /\ m.key_risks = _top_risk_groups(rows) /\ m.active_blocks = _finding_groups(active)
      /\ m.findings = _finding_groups(rows)
      /\ m.active_issues = Cardinality(Keys(active)) /\ m.total_issues = Cardinality(Keys(rows))
      /\ m.compliance = compliance_coverage(rows) /\ m.attack = ReportedTechniques(rows)
      /\ m.scorable_issues = Cardinality(group_issues(rows))
      /\ m.security_score = score_from_issues(group_issues(rows))
  BY DEF build_report_model, compute_security_score
<1> HIDE DEF m, active
<1>3. {k.key : k \in m.key_risks} = {g.key : g \in m.active_blocks}
  BY <1>1, <1>2, KeyRisksOK, BlocksOK DEF active
<1>4. Cardinality(m.key_risks) = m.active_issues /\ Cardinality(m.findings) = m.total_issues
  BY <1>1, <1>2, KeyRisksOK, BlocksOK DEF active
<1>5. ASSUME NEW k \in m.key_risks
      PROVE  /\ \A g \in m.active_blocks : g.key = k.key =>
                    g.risk = k.max_risk /\ g.severity = k.severity
             /\ \A g \in m.findings : g.key = k.key => g.risk = k.max_risk
  <2>1. k.key \in Keys(active) /\ k = RiskGroup(active, k.key)
    BY <1>1, <1>2, KeyRisksOK DEF active
  <2>2. ASSUME NEW g \in m.active_blocks, g.key = k.key
        PROVE  g.risk = k.max_risk /\ g.severity = k.severity
    <3>1. g = FindingGroup(active, k.key)
      BY <1>1, <1>2, <2>2, BlocksOK
    <3>2. g.severity = MaxSeverity(MembersOf(active, k.key))
      BY <3>1 DEF FindingGroup
    <3>3. k.severity = MaxSeverity(MembersOf(active, k.key))
      BY <2>1 DEF RiskGroup
    <3>4. FindingGroup(active, k.key).risk = RiskGroup(active, k.key).max_risk
      BY <2>1, BlockRisk DEF active
    <3> QED
      BY <2>1, <3>1, <3>2, <3>3, <3>4
  <2>3. ASSUME NEW g \in m.findings, g.key = k.key PROVE g.risk = k.max_risk
    <3>1. g = FindingGroup(rows, k.key)
      BY <1>1, <1>2, <2>3, BlocksOK
    <3>2. FindingGroup(rows, k.key).risk = RiskGroup(active, k.key).max_risk
      BY <2>1, BlockRisk DEF active
    <3> QED
      BY <2>1, <3>1, <3>2
  <2> QED
    BY <2>2, <2>3
<1>6. \A c \in DOMAIN m.compliance : m.compliance[c] # {}
  BY <1>2, ControlsOK
<1>7. \A t \in DOMAIN m.attack : m.attack[t] <= m.scorable_issues
  BY <1>2, AttackOK
<1>8. m.security_score = 100 <=> m.scorable_issues = 0
  <2>1. score_from_issues(group_issues(rows)) = 100 <=> group_issues(rows) = {}
    BY IssuesOK, ScoreOK
  <2>2. Cardinality(group_issues(rows)) = 0 <=> group_issues(rows) = {}
    BY IssuesOK, FS_EmptySet
  <2> QED
    BY <1>2, <2>1, <2>2
<1>9. ASSUME NEW g \in m.findings, impact_certainty(g.verification) = "confirmed"
      PROVE  {"shot", "output"} \subseteq g.evidence
  <2>1. g = FindingGroup(rows, g.key)
    BY <1>1, <1>2, BlocksOK
  <2> QED
    BY <1>9, <2>1, ConfirmedOK
<1> QED
  BY <1>3, <1>4, <1>5, <1>6, <1>7, <1>8, <1>9 DEF Coherent, m

\* The reasons printed beside a verification state are the ones that led to it.
ReasonsFit(r) ==
    LET reasons == verification_reasons(r)
    IN  /\ classify_verification(r) = "unverified" <=> "no_artefacts" \in reasons
        /\ classify_verification(r) = "verified" <=>
                /\ "corroborated_both_artefacts" \in reasons
                /\ reasons \cap {"generic_match", "inference_match", "detection_class"} = {}

LEMMA ReasonsOK == ASSUME NEW r PROVE ReasonsFit(r)
<1> DEFINE reasons == verification_reasons(r)
           has == r.evidence \cap {"shot", "output"}
           weak == r.key \in Detects \cup Inferred \/ classify(r) = "detection"
<1>1. "no_artefacts" \in reasons <=> has = {}
  BY DEF verification_reasons
<1>2. "corroborated_both_artefacts" \in reasons <=> has = {"shot", "output"}
  BY DEF verification_reasons
<1>3. /\ "generic_match" \in reasons <=> r.key \in Detects
      /\ "inference_match" \in reasons <=> r.key \in Inferred
      /\ "detection_class" \in reasons <=> classify(r) = "detection"
  BY DEF verification_reasons
<1>4. classify_verification(r) = "unverified" <=> has = {}
  BY DEF classify_verification
<1>5. classify_verification(r) = "verified" <=> has = {"shot", "output"} /\ ~weak
  BY DEF classify_verification
<1>6. reasons \cap {"generic_match", "inference_match", "detection_class"} = {} <=> ~weak
  BY <1>3
<1> HIDE DEF reasons, has, weak
<1> QED
  BY <1>1, <1>2, <1>4, <1>5, <1>6 DEF ReasonsFit, reasons

\* The matrix of modules/attack and a report made of the live rows count the
\* same issues for the same techniques.
LEMMA MatrixOK == ReportedTechniques(LiveRows) = count_issues_by_technique
<1> DEFINE counted == Counted(LiveRows)
           taught == {r \in counted : r.techniques # {}}
           T == UNION {r.techniques : r \in counted}
           some(t) == {r.key : r \in {x \in counted : t \in x.techniques}}
<1>1. ReportedTechniques(LiveRows) = [t \in T |-> Cardinality(some(t))]
  BY DEF ReportedTechniques, Counted
<1>2. taught = {r \in LiveRows : scorable(r) /\ r.techniques # {}}
  BY DEF Counted
<1>3. UNION {r.techniques : r \in taught} = T
  OBVIOUS
<1>4. ASSUME NEW t \in T PROVE Keys({r \in taught : t \in r.techniques}) = some(t)
  BY DEF Keys
<1> DEFINE other(t) == Keys({r \in taught : t \in r.techniques})
<1>5. count_issues_by_technique = [t \in T |-> Cardinality(other(t))]
  BY <1>2, <1>3 DEF count_issues_by_technique
<1> HIDE DEF T, some, other
<1>6. \A t \in T : Cardinality(other(t)) = Cardinality(some(t))
  BY <1>4 DEF other
<1> QED
  BY <1>1, <1>5, <1>6

Statuses == {"open", "confirmed", "reopened", "fixed", "false_positive"}
StoredRow ==
    [id : Occurrences, key : {IssueOf[o] : o \in Occurrences}, at : {PlaceOf[o] : o \in Occurrences},
     seen : ReportScans, severity : CountedSeverities, cvss : Scores, status : Statuses]
RowsRead(rows) == IsFiniteSet(rows) /\ rows \subseteq StoredRow

\* What is stored: a row carries its own id and the figures of a sighting.
TableOK ==
    /\ vulnRows \in [Occurrences -> StoredRow \cup {Absent}]
    /\ \A o \in Occurrences : vulnRows[o] # Absent => vulnRows[o].id = o /\ vulnRows[o].key = IssueOf[o]
    /\ risk \in [Occurrences -> Scores]
    /\ evidence \in [Occurrences -> SUBSET {"shot", "output"}]
    /\ \A o \in Occurrences : vulnRows[o] = Absent => risk[o] = -1 /\ evidence[o] = {}

LEMMA AbsentIsNoRow == \A r \in StoredRow : r # Absent
<1>1. ASSUME NEW r \in StoredRow, r = Absent PROVE FALSE
  <2>1. "id" \in DOMAIN r /\ DOMAIN Absent = {"key"}
    BY DEF StoredRow, Absent
  <2> QED
    BY <1>1, <2>1
<1> QED
  BY <1>1

LEMMA StoredOK == ASSUME TableOK PROVE RowsRead(StoredRows) /\ \A r \in StoredRows : vulnRows[r.id] = r
<1> DEFINE there == {x \in Occurrences : vulnRows[x] # Absent}
           f == [o \in there |-> vulnRows[o]]
<1>1. IsFiniteSet(there)
  BY SightingsAssumption, FS_Subset
<1>2. f \in Surjection(there, StoredRows)
  BY DEF Surjection, StoredRows
<1>3. IsFiniteSet(StoredRows)
  <2> HIDE DEF f, there
  <2> QED
    BY <1>1, <1>2, FS_Surjection
<1>4. StoredRows \subseteq StoredRow /\ \A r \in StoredRows : vulnRows[r.id] = r
  BY DEF StoredRows, TableOK
<1> QED
  BY <1>3, <1>4 DEF RowsRead

\* The later queries of a report give a row its risk and its evidence.
LEMMA VulnRowsOK ==
    ASSUME TableOK, NEW rows, RowsRead(rows) PROVE RowsOK({VulnRow(r) : r \in rows})
<1> DEFINE f == [r \in rows |-> VulnRow(r)]
           T == {VulnRow(r) : r \in rows}
<1>1. f \in Surjection(rows, T)
  BY DEF Surjection
<1>2. IsFiniteSet(T)
  <2> HIDE DEF f, T
  <2> QED
    BY <1>1, FS_Surjection DEF RowsRead
<1>3. ASSUME NEW r \in rows PROVE FiguresOK(VulnRow(r))
  <2>1. r \in StoredRow
    BY DEF RowsRead
  <2>2. r.id \in Occurrences /\ r.cvss \in Scores /\ r.severity \in CountedSeverities
    BY <2>1 DEF StoredRow
  <2>3. risk[r.id] \in Scores /\ evidence[r.id] \subseteq {"shot", "output"}
    BY <2>2 DEF TableOK
  <2> QED
    BY <2>2, <2>3 DEF FiguresOK, VulnRow
<1> QED
  BY <1>2, <1>3 DEF RowsOK

\* The dashboard counts the rows of the table, a report what it made of them.
LEMMA SummaryOK ==
    ASSUME TableOK
    PROVE  build_report_model(LiveRows, {}).severity = get_summary
<1> DEFINE stored(s) == {r \in StoredRows : r.status \in ACTIVE_STATUSES /\ r.severity = s}
           live(s) == {r \in ActiveIn(LiveRows) : r.severity = s}
<1>1. ASSUME NEW s \in CountedSeverities PROVE Cardinality(live(s)) = Cardinality(stored(s))
  <2> DEFINE f == [r \in stored(s) |-> VulnRow(r)]
  <2>1. IsFiniteSet(stored(s))
    BY StoredOK, FS_Subset DEF RowsRead
  <2>a. \A r \in StoredRows : VulnRow(r).status = r.status /\ VulnRow(r).severity = r.severity
    BY DEF VulnRow
  <2>2. f \in [stored(s) -> live(s)] /\ \A t \in live(s) : \E r \in stored(s) : f[r] = t
    BY <2>a DEF LiveRows, ActiveIn
  <2>3. \A p, q \in stored(s) : f[p] = f[q] => p = q
    <3> SUFFICES ASSUME NEW p \in stored(s), NEW q \in stored(s), f[p] = f[q] PROVE p = q
      OBVIOUS
    <3>1. VulnRow(p).id = p.id /\ VulnRow(q).id = q.id /\ VulnRow(p) = VulnRow(q)
      BY DEF VulnRow
    <3>2. vulnRows[p.id] = p /\ vulnRows[q.id] = q
      BY StoredOK
    <3> QED
      BY <3>1, <3>2
  <2> HIDE DEF f, stored, live
  <2>4. f \in Bijection(stored(s), live(s))
    BY <2>2, <2>3 DEF Bijection, Injection, Surjection, IsInjective
  <2>5. ExistsBijection(stored(s), live(s))
    BY <2>4 DEF ExistsBijection
  <2> QED
    BY <2>1, <2>5, FS_Bijection
<1>2. get_summary = [s \in CountedSeverities |-> Cardinality(stored(s))]
  BY DEF get_summary
<1>3. build_report_model(LiveRows, {}).severity = [s \in CountedSeverities |-> Cardinality(live(s))]
  BY DEF build_report_model, Tally
<1> HIDE DEF stored, live
<1> QED
  BY <1>1, <1>2, <1>3

ClerkFields == {"pc", "scope", "draft", "rows", "prev"}
AssessmentFields == {"status", "summary", "frozen", "prev", "at", "trend", "advice", "report"}

\* A request has read rows of the table, or what a report is made of.
ClerkOK(c) ==
    /\ DOMAIN clerk[c] = ClerkFields
    /\ clerk[c].pc \in {"idle", "rows", "data", "render"}
    /\ clerk[c].pc = "rows" => RowsRead(clerk[c].rows)
    /\ clerk[c].pc = "data" => RowsOK(clerk[c].rows)

DraftOK(d) ==
    /\ DOMAIN assessment[d] = AssessmentFields
    /\ assessment[d].status \in {"absent", "draft", "issued"}
    /\ assessment[d].status = "issued" <=> assessment[d].summary # NoSummary

ReportsInv ==
    /\ TableOK
    /\ DOMAIN clerk = Clerks /\ \A c \in Clerks : ClerkOK(c)
    /\ DOMAIN assessment = Drafts /\ \A d \in Drafts : DraftOK(d)
    /\ \A m \in figures : Coherent(m)
    /\ finished \subseteq ReportScans /\ ingests \in 0..MaxIngests

LEMMA RiskOK ==
    ASSUME NEW x \in Sightings
    PROVE  compute_risk(x.cvss, x.criticality) \in Scores
<1> DEFINE w == CRITICALITY_WEIGHT[x.criticality]
           q == (x.cvss * w) \div 10
<1>1. x.cvss \in Scores
  BY SightingsAssumption, ScoresAre
<1>2. w \in Nat
  BY SightingsAssumption DEF CRITICALITY_WEIGHT
<1> HIDE DEF w
<1>3. CASE x.cvss = -1
  BY <1>3 DEF compute_risk, Scores
<1>4. CASE x.cvss # -1
  <2>1. x.cvss \in Nat
    BY <1>1, <1>4 DEF Scores
  <2>2. x.cvss * w \in Nat
    BY <1>2, <2>1
  <2>3. q \in Nat
    BY <2>2, SMT
  <2> HIDE DEF q
  <2>4. Min({100, q}) = IF 100 <= q THEN 100 ELSE q
    BY <2>3, MinIs
  <2>5. Min({100, q}) \in Scores
    BY <2>3, <2>4, SMT DEF Scores
  <2> QED
    BY <1>4, <2>5 DEF compute_risk, q, w
<1> QED
  BY <1>3, <1>4

LEMMA ReportsStart == ReportingInit => ReportsInv
<1> SUFFICES ASSUME ReportingInit PROVE ReportsInv
  OBVIOUS
<1>1. TableOK
  BY DEF ReportingInit, TableOK, Scores
<1>2. DOMAIN clerk = Clerks /\ \A c \in Clerks : ClerkOK(c)
  BY DEF ReportingInit, NoClerk, ClerkOK, ClerkFields
<1>3. DOMAIN assessment = Drafts /\ \A d \in Drafts : DraftOK(d)
  BY DEF ReportingInit, NoAssessment, DraftOK, AssessmentFields
<1> QED
  BY <1>1, <1>2, <1>3, IngestBound DEF ReportingInit, ReportsInv

LEMMA RowsReadOK == ASSUME TableOK, NEW scope PROVE RowsRead(RowsIn(scope))
  BY StoredOK, FS_Subset DEF RowsIn, RowsRead

\* A sighting leaves a row of the table, with a risk and its artefacts.
LEMMA SightOK ==
    ASSUME ReportsInv, NEW o \in Occurrences, NEW s \in ReportScans, NEW x \in Sightings, Sight(o, s, x)
    PROVE  ReportsInv'
<1> DEFINE old == vulnRows[o]
           new == [id |-> o, key |-> IssueOf[o], at |-> PlaceOf[o], seen |-> s,
                   severity |-> x.severity, cvss |-> x.cvss,
                   status |-> IF old = Absent THEN "open"
                              ELSE IF old.status = "fixed" THEN "reopened" ELSE old.status]
<1>1. /\ vulnRows' = [vulnRows EXCEPT ![o] = new]
      /\ risk' = [risk EXCEPT ![o] = compute_risk(x.cvss, x.criticality)]
      /\ evidence' = [evidence EXCEPT ![o] = @ \cup x.evidence]
      /\ ingests < MaxIngests /\ ingests' = ingests + 1
  BY DEF Sight
<1>2. (IF old = Absent THEN "open" ELSE IF old.status = "fixed" THEN "reopened" ELSE old.status) \in Statuses
  BY DEF ReportsInv, TableOK, StoredRow, Statuses
<1>3. x.severity \in CountedSeverities /\ x.cvss \in Scores /\ x.evidence \subseteq {"shot", "output"}
  BY SightingsAssumption, ScoresAre DEF CountedSeverities
<1>4. new \in StoredRow /\ new.id = o /\ new.key = IssueOf[o]
  BY <1>2, <1>3 DEF StoredRow
<1>5. new # Absent
  BY <1>4, AbsentIsNoRow
<1> HIDE DEF old, new
<1>6. TableOK'
  <2>1. vulnRows' \in [Occurrences -> StoredRow \cup {Absent}]
    BY <1>1, <1>4 DEF ReportsInv, TableOK
  <2>2. risk' \in [Occurrences -> Scores]
    BY <1>1, RiskOK DEF ReportsInv, TableOK
  <2>3. evidence' \in [Occurrences -> SUBSET {"shot", "output"}]
    BY <1>1, <1>3 DEF ReportsInv, TableOK
  <2>4. \A p \in Occurrences : p # o => vulnRows'[p] = vulnRows[p] /\ risk'[p] = risk[p] /\ evidence'[p] = evidence[p]
    BY <1>1 DEF ReportsInv, TableOK
  <2>5. vulnRows'[o] = new
    BY <1>1 DEF ReportsInv, TableOK
  <2> QED
    BY <2>1, <2>2, <2>3, <2>4, <2>5, <1>4, <1>5 DEF ReportsInv, TableOK
<1>7. ingests' \in 0..MaxIngests
  BY <1>1, IngestBound DEF ReportsInv
<1> QED
  BY <1>6, <1>7 DEF ReportsInv, Sight, ClerkOK, DraftOK

LEMMA TriageOK ==
    ASSUME ReportsInv, NEW o \in Occurrences, NEW st \in {"fixed", "false_positive"}, Triage(o, st)
    PROVE  ReportsInv'
<1> DEFINE new == [vulnRows[o] EXCEPT !.status = st]
<1>1. vulnRows' = [vulnRows EXCEPT ![o] = new] /\ vulnRows[o] # Absent
  BY DEF Triage
<1>2. vulnRows[o] \in StoredRow /\ vulnRows[o].id = o /\ vulnRows[o].key = IssueOf[o]
  BY <1>1 DEF ReportsInv, TableOK
<1>3. new \in StoredRow /\ new.id = o /\ new.key = IssueOf[o]
  BY <1>2 DEF StoredRow, Statuses
<1>4. new # Absent
  BY <1>3, AbsentIsNoRow
<1> HIDE DEF new
<1>5. TableOK'
  BY <1>1, <1>3, <1>4 DEF ReportsInv, TableOK, Triage
<1> QED
  BY <1>5 DEF ReportsInv, Triage, ClerkOK, DraftOK

\* A request whose record changes to x, nothing of the tables with it.
LEMMA ClerkMoves ==
    ASSUME ReportsInv, NEW c \in Clerks, NEW x, clerk' = [clerk EXCEPT ![c] = x],
           DOMAIN x = ClerkFields, x.pc \in {"idle", "rows", "data", "render"},
           x.pc = "rows" => RowsRead(x.rows), x.pc = "data" => RowsOK(x.rows),
           UNCHANGED <<vulnRows, risk, evidence, finished, ingests>>,
           DOMAIN assessment' = Drafts, \A d \in Drafts : DraftOK(d)',
           \A m \in figures' : Coherent(m)
    PROVE  ReportsInv'
<1>1. DOMAIN clerk' = Clerks /\ \A b \in Clerks : clerk'[b] = IF b = c THEN x ELSE clerk[b]
  BY DEF ReportsInv
<1>2. ASSUME NEW b \in Clerks PROVE ClerkOK(b)'
  <2>1. CASE b = c
    BY <1>1, <2>1 DEF ClerkOK
  <2>2. CASE b # c
    BY <1>1, <2>2 DEF ReportsInv, ClerkOK
  <2> QED
    BY <2>1, <2>2
<1>3. TableOK'
  BY DEF ReportsInv, TableOK
<1> QED
  BY <1>1, <1>2, <1>3 DEF ReportsInv

LEMMA DraftsStay == ASSUME ReportsInv, assessment' = assessment PROVE DOMAIN assessment' = Drafts /\ \A d \in Drafts : DraftOK(d)'
  BY DEF ReportsInv, DraftOK

LEMMA NoClerkOK == DOMAIN NoClerk = ClerkFields /\ NoClerk.pc = "idle"
  BY DEF NoClerk, ClerkFields

LEMMA GatherRowsOK ==
    ASSUME ReportsInv, NEW c \in Clerks,
           \/ \E scope \in SUBSET ReportScans : GatherRows(c, scope)
           \/ \E d \in Drafts : IssueRead(c, d)
    PROVE  ReportsInv'
<1>1. PICK x, given : /\ clerk' = [clerk EXCEPT ![c] = x]
                      /\ DOMAIN x = ClerkFields /\ x.pc = "rows" /\ x.rows = RowsIn(given)
  <2>1. ASSUME NEW scope, GatherRows(c, scope)
        PROVE  \E x, given : /\ clerk' = [clerk EXCEPT ![c] = x]
                             /\ DOMAIN x = ClerkFields /\ x.pc = "rows" /\ x.rows = RowsIn(given)
    <3> DEFINE x == [NoClerk EXCEPT !.pc = "rows", !.scope = scope, !.rows = RowsIn(scope)]
    <3>1. clerk' = [clerk EXCEPT ![c] = x]
      BY <2>1 DEF GatherRows
    <3>2. DOMAIN x = ClerkFields /\ x.pc = "rows" /\ x.rows = RowsIn(scope)
      BY DEF NoClerk, ClerkFields
    <3> HIDE DEF x
    <3> QED
      BY <3>1, <3>2
  <2>2. ASSUME NEW d \in Drafts, IssueRead(c, d)
        PROVE  \E x, given : /\ clerk' = [clerk EXCEPT ![c] = x]
                             /\ DOMAIN x = ClerkFields /\ x.pc = "rows" /\ x.rows = RowsIn(given)
    <3> DEFINE x == [NoClerk EXCEPT !.pc = "rows", !.draft = d, !.rows = RowsIn({})]
    <3>1. clerk' = [clerk EXCEPT ![c] = x]
      BY <2>2 DEF IssueRead
    <3>2. DOMAIN x = ClerkFields /\ x.pc = "rows" /\ x.rows = RowsIn({})
      BY DEF NoClerk, ClerkFields
    <3> HIDE DEF x
    <3> QED
      BY <3>1, <3>2
  <2> QED
    BY <2>1, <2>2
<1>2. RowsRead(x.rows)
  BY <1>1, RowsReadOK DEF ReportsInv
<1>3. UNCHANGED <<vulnRows, risk, evidence, figures, assessment, finished, ingests>>
  BY DEF GatherRows, IssueRead
<1>4. \A m \in figures' : Coherent(m)
  BY <1>3 DEF ReportsInv
<1> QED
  BY <1>1, <1>2, <1>3, <1>4, DraftsStay, ClerkMoves

LEMMA GatherRestOK == ASSUME ReportsInv, NEW c \in Clerks, GatherRest(c) PROVE ReportsInv'
<1> DEFINE x == [clerk[c] EXCEPT !.pc = "data", !.rows = {VulnRow(r) : r \in @},
                                 !.prev = LastIssued(clerk[c].draft)]
<1>1. DOMAIN clerk[c] = ClerkFields /\ RowsRead(clerk[c].rows) /\ TableOK
  BY DEF GatherRest, ReportsInv, ClerkOK
<1>2. clerk' = [clerk EXCEPT ![c] = x]
  BY DEF GatherRest, ReportsInv
<1>3. DOMAIN x = ClerkFields /\ x.pc = "data" /\ x.rows = {VulnRow(r) : r \in clerk[c].rows}
  BY <1>1 DEF ClerkFields
<1>4. RowsOK(x.rows)
  BY <1>1, <1>3, VulnRowsOK
<1>5. UNCHANGED <<vulnRows, risk, evidence, figures, assessment, finished, ingests>>
  BY DEF GatherRest
<1> HIDE DEF x
<1>6. \A m \in figures' : Coherent(m)
  BY <1>5 DEF ReportsInv
<1> QED
  BY <1>2, <1>3, <1>4, <1>5, <1>6, DraftsStay, ClerkMoves

\* A stored report is made of rows and figures that were really read, so its
\* parts agree, whatever was committed between the queries.
LEMMA StoreReportOK ==
    ASSUME ReportsInv, NEW c \in Clerks, StoreReport(c) \/ ReportFails(c) PROVE ReportsInv'
<1>1. /\ clerk' = [clerk EXCEPT ![c] = NoClerk]
      /\ UNCHANGED <<vulnRows, risk, evidence, assessment, finished, ingests>>
  BY DEF StoreReport, ReportFails
<1>2. \A m \in figures' : Coherent(m)
  <2>1. CASE StoreReport(c)
    <3>1. RowsOK(clerk[c].rows)
      BY <2>1 DEF StoreReport, ReportsInv, ClerkOK
    <3>2. figures' = {build_report_model(clerk[c].rows, clerk[c].scope)}
      BY <2>1 DEF StoreReport
    <3> QED
      BY <3>1, <3>2, ReportCoherent
  <2>2. CASE ReportFails(c)
    BY <2>2 DEF ReportFails, ReportsInv
  <2> QED
    BY <2>1, <2>2
<1> QED
  BY <1>1, <1>2, NoClerkOK, DraftsStay, ClerkMoves

\* An assessment d that becomes x, the others as they were.
LEMMA DraftMoves ==
    ASSUME ReportsInv, NEW d, NEW x, assessment' = [assessment EXCEPT ![d] = x],
           d \in Drafts => /\ DOMAIN x = AssessmentFields
                           /\ x.status \in {"absent", "draft", "issued"}
                           /\ x.status = "issued" <=> x.summary # NoSummary
    PROVE  DOMAIN assessment' = Drafts /\ \A e \in Drafts : DraftOK(e)'
<1>1. DOMAIN assessment' = Drafts /\ \A e \in Drafts : assessment'[e] = IF e = d THEN x ELSE assessment[e]
  BY DEF ReportsInv
<1>2. ASSUME NEW e \in Drafts PROVE DraftOK(e)'
  <2>1. CASE e = d
    BY <1>1, <2>1 DEF DraftOK
  <2>2. CASE e # d
    BY <1>1, <2>2 DEF ReportsInv, DraftOK
  <2> QED
    BY <2>1, <2>2
<1> QED
  BY <1>1, <1>2

LEMMA SnapshotOK == ASSUME NEW rows PROVE _build_snapshot(rows) # NoSummary
<1>1. "active" \in DOMAIN _build_snapshot(rows) /\ "active" \notin DOMAIN NoSummary
  BY DEF _build_snapshot, NoSummary
<1> QED
  BY <1>1

LEMMA IssueCommitOK == ASSUME ReportsInv, NEW c \in Clerks, IssueCommit(c) PROVE ReportsInv'
<1> DEFINE d == clerk[c].draft
           summary == _build_snapshot(clerk[c].rows)
           old == assessment[d]
<1>1. PICK frozen, prev, at, trend, advice :
        assessment' = [assessment EXCEPT ![d] = [old EXCEPT !.status = "issued", !.summary = summary,
            !.prev = prev, !.frozen = frozen, !.at = at, !.trend = trend, !.advice = advice]]
  BY DEF IssueCommit
<1> DEFINE x == [old EXCEPT !.status = "issued", !.summary = summary,
                    !.prev = prev, !.frozen = frozen, !.at = at, !.trend = trend, !.advice = advice]
           y == [clerk[c] EXCEPT !.pc = "render"]
<1>2. assessment' = [assessment EXCEPT ![d] = x]
  BY <1>1
<1>3. summary # NoSummary
  BY SnapshotOK
<1> HIDE DEF summary
<1>4. d \in Drafts => DOMAIN x = AssessmentFields /\ x.status = "issued" /\ x.summary = summary
  BY DEF ReportsInv, DraftOK, AssessmentFields
<1>5. DOMAIN y = ClerkFields /\ y.pc = "render"
  BY DEF ReportsInv, ClerkOK, ClerkFields
<1>6. clerk' = [clerk EXCEPT ![c] = y] /\ UNCHANGED <<vulnRows, risk, evidence, figures, finished, ingests>>
  BY DEF IssueCommit, ReportsInv
<1> HIDE DEF x, y, d
<1>7. DOMAIN assessment' = Drafts /\ \A e \in Drafts : DraftOK(e)'
  BY <1>2, <1>3, <1>4, DraftMoves
<1>8. \A m \in figures' : Coherent(m)
  BY <1>6 DEF ReportsInv
<1> QED
  BY <1>5, <1>6, <1>7, <1>8, ClerkMoves

LEMMA RenderOK ==
    ASSUME ReportsInv, NEW c \in Clerks, NEW stored \in BOOLEAN, RenderAssessment(c, stored) PROVE ReportsInv'
<1> DEFINE d == clerk[c].draft
           x == [assessment[d] EXCEPT !.report = @ \/ stored]
<1>1. /\ assessment' = [assessment EXCEPT ![d] = x]
      /\ clerk' = [clerk EXCEPT ![c] = NoClerk]
      /\ UNCHANGED <<vulnRows, risk, evidence, figures, finished, ingests>>
  BY DEF RenderAssessment
<1>2. d \in Drafts => /\ DOMAIN x = AssessmentFields
                      /\ x.status = assessment[d].status /\ x.summary = assessment[d].summary
  BY DEF ReportsInv, DraftOK, AssessmentFields
<1>3. d \in Drafts => DraftOK(d)
  BY DEF ReportsInv
<1> HIDE DEF x, d
<1>4. DOMAIN assessment' = Drafts /\ \A e \in Drafts : DraftOK(e)'
  BY <1>1, <1>2, <1>3, DraftMoves DEF DraftOK
<1>5. \A m \in figures' : Coherent(m)
  BY <1>1 DEF ReportsInv
<1> QED
  BY <1>1, <1>4, <1>5, NoClerkOK, ClerkMoves

LEMMA ReportsStep == ReportsInv /\ [ReportingNext]_reportingVars => ReportsInv'
<1> SUFFICES ASSUME ReportsInv, [ReportingNext]_reportingVars PROVE ReportsInv'
  OBVIOUS
<1>1. ASSUME NEW o \in Occurrences, NEW s \in ReportScans, NEW x \in Sightings, Sight(o, s, x)
      PROVE  ReportsInv'
  BY <1>1, SightOK
<1>2. ASSUME NEW o \in Occurrences, NEW st \in {"fixed", "false_positive"}, Triage(o, st)
      PROVE  ReportsInv'
  BY <1>2, TriageOK
<1>3. ASSUME NEW s \in ReportScans, FinishScan(s) PROVE ReportsInv'
  BY <1>3 DEF FinishScan, ReportsInv, TableOK, ClerkOK, DraftOK
<1>4. ASSUME NEW c \in Clerks, \/ \E scope \in SUBSET ReportScans : GatherRows(c, scope)
                              \/ \E d \in Drafts : IssueRead(c, d)
      PROVE  ReportsInv'
  BY <1>4, GatherRowsOK
<1>5. ASSUME NEW c \in Clerks, GatherRest(c) PROVE ReportsInv'
  BY <1>5, GatherRestOK
<1>6. ASSUME NEW c \in Clerks, StoreReport(c) \/ ReportFails(c) PROVE ReportsInv'
  BY <1>6, StoreReportOK
<1>7. ASSUME NEW c \in Clerks, IssueCommit(c) PROVE ReportsInv'
  BY <1>7, IssueCommitOK
<1>8. ASSUME NEW c \in Clerks, NEW stored \in BOOLEAN, RenderAssessment(c, stored) PROVE ReportsInv'
  BY <1>8, RenderOK
<1>9. ASSUME NEW d \in Drafts, create_assessment(d) PROVE ReportsInv'
  <2> DEFINE x == [assessment[d] EXCEPT !.status = "draft"]
  <2>1. /\ assessment' = [assessment EXCEPT ![d] = x] /\ assessment[d].status = "absent"
        /\ UNCHANGED <<vulnRows, risk, evidence, clerk, figures, finished, ingests>>
    BY <1>9 DEF create_assessment
  <2>2. DOMAIN x = AssessmentFields /\ x.status = "draft" /\ x.summary = assessment[d].summary
    BY DEF ReportsInv, DraftOK, AssessmentFields
  <2>3. DraftOK(d)
    BY DEF ReportsInv
  <2> HIDE DEF x
  <2>4. DOMAIN assessment' = Drafts /\ \A e \in Drafts : DraftOK(e)'
    BY <2>1, <2>2, <2>3, DraftMoves DEF DraftOK
  <2> QED
    BY <2>1, <2>4 DEF ReportsInv, TableOK, ClerkOK
<1>10. CASE UNCHANGED reportingVars
  BY <1>10 DEF reportingVars, ReportsInv, TableOK, ClerkOK, DraftOK
<1> QED
  BY <1>1, <1>2, <1>3, <1>4, <1>5, <1>6, <1>7, <1>8, <1>9, <1>10 DEF ReportingNext

LEMMA ReportsAgree == ReportsInv => SurfacesAgree
<1> SUFFICES ASSUME ReportsInv PROVE SurfacesAgree
  OBVIOUS
<1> DEFINE now == build_report_model(LiveRows, {})
<1>1. RowsOK(LiveRows)
  BY StoredOK, VulnRowsOK DEF ReportsInv, LiveRows
<1>2. Coherent(now)
  BY <1>1, ReportCoherent
<1>3. now.attack = count_issues_by_technique
  BY MatrixOK DEF build_report_model
<1>4. now.severity = get_summary
  BY SummaryOK DEF ReportsInv
<1>5. \A r \in LiveRows : ReasonsFit(r)
  BY ReasonsOK
<1> HIDE DEF now
<1> QED
  BY <1>2, <1>3, <1>4, <1>5 DEF SurfacesAgree, ReasonsFit, ReportsInv, now

LEMMA ReportsTyped == ReportsInv => ReportingTypeOK
<1> SUFFICES ASSUME ReportsInv PROVE ReportingTypeOK
  OBVIOUS
<1>1. ASSUME NEW o \in Occurrences
      PROVE  /\ vulnRows[o] # Absent => vulnRows[o].key = IssueOf[o] /\ vulnRows[o].seen \in ReportScans
             /\ risk[o] \in -1..100
             /\ evidence[o] \subseteq {"shot", "output"}
             /\ vulnRows[o] = Absent => risk[o] = -1 /\ evidence[o] = {}
  <2>1. vulnRows[o] # Absent => vulnRows[o].seen \in ReportScans
    BY DEF ReportsInv, TableOK, StoredRow
  <2>2. risk[o] \in Scores /\ evidence[o] \subseteq {"shot", "output"}
    BY DEF ReportsInv, TableOK
  <2> QED
    BY <2>1, <2>2, ScoresAre DEF ReportsInv, TableOK
<1> QED
  BY <1>1 DEF ReportingTypeOK, ReportsInv, ClerkOK, DraftOK

\* The parts of a report agree with each other and with the matrix and the
\* dashboard of the same rows, whatever scans commit between its queries.
THEOREM SurfacesTheorem == ReportingSpec => [](SurfacesAgree /\ ReportingTypeOK)
<1> QED
  BY ReportsStart, ReportsStep, ReportsAgree, ReportsTyped, PTL DEF ReportingSpec

-----------------------------------------------------------------------------
(* Types.  For each component what its type invariant needs in order to be *)
(* kept, beside the invariant above it.                                    *)

\* Retention: a purge or a report leaves rows where there were rows.
LEMMA RetentionTyped == RetentionInv /\ RetentionTypeOK /\ [RetentionNext]_retentionVars => RetentionTypeOK'
<1> SUFFICES ASSUME RetentionInv, RetentionTypeOK, [RetentionNext]_retentionVars PROVE RetentionTypeOK'
  OBVIOUS
<1> USE DEF RetentionTypeOK
<1>0. MaxNow \in Nat /\ clock \in 0 .. MaxNow
  BY RetentionAssumption
<1> DEFINE rows == [st : {"absent", "present", "purged"}, ts : 0 .. MaxNow, cites : SUBSET ScanIds, flagged : BOOLEAN]
<1>r. [NoReport EXCEPT !.st = "purged"] \in rows
  <2>1. 0 \in 0 .. MaxNow /\ {} \in SUBSET ScanIds
    BY <1>0
  <2>2. NoReport \in rows
    BY <2>1 DEF NoReport
  <2> QED
    BY <2>2
<1>1. ASSUME NEW p \in Purges, PurgeCommit(p) PROVE RetentionTypeOK'
  <2>1. ASSUME NEW r \in ReportIds
        PROVE  report'[r] \in [st : {"absent", "present", "purged"}, ts : 0 .. MaxNow, cites : SUBSET ScanIds,
                               flagged : BOOLEAN]
    BY <1>r, <1>1 DEF PurgeCommit
  <2>2. ASSUME NEW s \in ScanIds PROVE rscan'[s] \in [st : {"running", "done", "purged"}, ts : 0 .. MaxNow]
    BY <1>1 DEF PurgeCommit
  <2> QED
    BY <1>1, <2>1, <2>2 DEF PurgeCommit
<1>2. ASSUME NEW p \in Purges, PurgeCleanup(p) PROVE RetentionTypeOK'
  BY <1>2 DEF PurgeCleanup
<1>3. ASSUME NEW p \in Purges, PurgeStart(p) \/ PurgeReports(p) \/ PurgeScans(p) \/ PurgeFails(p) PROVE RetentionTypeOK'
  BY <1>3 DEF PurgeStart, PurgeReports, PurgeScans, PurgeFails
<1>4. ASSUME NEW w \in Writers, ReportRead(w) \/ ReportStore(w) PROVE RetentionTypeOK'
  BY <1>4 DEF ReportRead, ReportStore
<1>5. ASSUME NEW w \in Writers, ReportCommit(w) PROVE RetentionTypeOK'
  <2>1. writer[w] \in Requests
    BY <1>5 DEF ReportCommit, RetentionInv, RetentionShape
  <2>2. writer[w].cites \in SUBSET ScanIds
    BY <2>1 DEF Requests
  <2> QED
    BY <1>0, <1>5, <2>2 DEF ReportCommit
<1>6. ASSUME NEW s \in ScanIds, ScanEnds(s) PROVE RetentionTypeOK'
  BY <1>6 DEF ScanEnds
<1>7. CASE Day
  BY <1>0, <1>7 DEF Day
<1>8. CASE UNCHANGED retentionVars
  BY <1>8 DEF retentionVars
<1> QED
  BY <1>1, <1>2, <1>3, <1>4, <1>5, <1>6, <1>7, <1>8 DEF RetentionNext

\* Backup: at most MaxRot files rot; the rest is BackupShape.
LEMMA BackupTyped ==
    BackupInv /\ rotted \in 0 .. MaxRot /\ [BackupNext]_backupVars => rotted' \in 0 .. MaxRot
<1> SUFFICES ASSUME rotted \in 0 .. MaxRot, [BackupNext]_backupVars PROVE rotted' \in 0 .. MaxRot
  OBVIOUS
<1>1. ASSUME NEW n \in SetNames, NEW c \in Perishable, Rot(n, c) PROVE rotted' \in 0 .. MaxRot
  BY <1>1, BackupAssumption DEF Rot
<1>2. ASSUME NEW r \in Runs,
             \/ BackupStart(r) \/ Encrypt(r) \/ WriteManifest(r) \/ Verify(r)
             \/ Replicate(r) \/ Cleanup(r) \/ BackupDies(r)
             \/ \E c \in Parts : ComponentOpen(r, c) \/ ComponentDone(r, c) \/ ComponentFails(r, c)
      PROVE  rotted' = rotted
  BY <1>2 DEF BackupStart, Encrypt, WriteManifest, Verify, Replicate, Cleanup, BackupDies, ComponentOpen,
              ComponentDone, ComponentFails
<1>3. ASSUME \/ CleanupCommand \/ RestoreLoad \/ RestoreEnds \/ Second
             \/ \E n \in SetNames, into \in {"live", "scratch"} : RestoreStart(n, into)
             \/ UNCHANGED backupVars
      PROVE  rotted' = rotted
  BY <1>3 DEF CleanupCommand, RestoreLoad, RestoreEnds, Second, RestoreStart, backupVars
<1> QED
  BY <1>1, <1>2, <1>3 DEF BackupNext

LEMMA BackupShapeTyped == BackupInv /\ rotted \in 0 .. MaxRot => BackupTypeOK
<1> SUFFICES ASSUME BackupInv, rotted \in 0 .. MaxRot PROVE BackupTypeOK
  OBVIOUS
<1>1. \A n \in SetNames : sets[n] \in Dirs
  BY DEF BackupInv, BackupShape
<1> QED
  BY <1>1 DEF BackupTypeOK, BackupInv, BackupShape, Dirs, Restores

\* Accounts: a token that is being rotated is one of the tokens.
AccountTypes ==
    /\ AccountTypeOK
    /\ \A q \in AccountRequests : areq[q].at = "rotate" => areq[q].old \in Tokens

LEMMA AccountTypesStep == AccountInv /\ AccountTypes /\ [AccountNext]_accountVars => AccountTypes'
<1> SUFFICES ASSUME AccountInv, AccountTypes, [AccountNext]_accountVars PROVE AccountTypes'
  OBVIOUS
<1> USE DEF AccountTypes, AccountTypeOK
<1>0. areq = [q \in AccountRequests |-> areq[q]] /\ AtRest.at = "idle"
  BY DEF AccountInv, AtRest
<1>1. ASSUME NEW q \in AccountRequests, NEW t \in Tokens, RotateRead(q, t) PROVE AccountTypes'
  <2> DEFINE r == [at |-> "rotate", born |-> acct.status, old |-> t]
  <2>1. areq' = [areq EXCEPT ![q] = r] /\ UNCHANGED <<acct, token, code, akey, fails>> /\ r.old = t
    BY <1>1 DEF RotateRead, Begin
  <2> HIDE DEF r
  <2> QED
    BY <1>0, <2>1
<1>2. ASSUME NEW q \in AccountRequests, NEW t \in Tokens, RotateWrite(q, t) PROVE AccountTypes'
  BY <1>0, <1>2 DEF RotateWrite, EndRequest
<1>3. ASSUME NEW q \in AccountRequests, NEW t \in Tokens, LoginIssue(q, t) PROVE AccountTypes'
  BY <1>0, <1>3 DEF LoginIssue, Issue, EndRequest
<1>4. ASSUME NEW t \in Tokens, Reuse(t) PROVE AccountTypes'
  BY <1>4 DEF Reuse
<1>5. ASSUME NEW t \in Tokens, Logout(t) PROVE AccountTypes'
  BY <1>5 DEF Logout
<1>6. ASSUME NEW q \in AccountRequests, Guard(q) \/ Right(q) \/ MfaLoginRead(q) PROVE AccountTypes'
  <2>1. areq[q].at \in {"guard", "attempt"} =>
           DOMAIN areq[q] = {"at", "born", "then"} /\ areq[q].then \in {"enable", "issue"}
    BY DEF AccountInv, ReqOK
  <2>2. \A o \in AccountRequests : areq'[o].at = "rotate" => areq'[o] = areq[o]
    BY <1>0, <1>6, <2>1 DEF Guard, Right, MfaLoginRead, Begin, EndRequest
  <2> QED
    BY <1>6, <2>2 DEF Guard, Right, MfaLoginRead
<1>7. ASSUME NEW q \in AccountRequests, LoginRead(q) \/ EnableRead(q) \/ Wrong(q) \/ Enable(q) \/ KeyRead(q)
                                        \/ KeyWrite(q) \/ KeyUse(q) \/ Served(q)
      PROVE AccountTypes'
  <2>2. \A o \in AccountRequests : areq'[o].at = "rotate" => areq'[o] = areq[o]
    BY <1>0, <1>7 DEF LoginRead, EnableRead, Wrong, Enable, KeyRead, KeyWrite, KeyUse, Served, Begin, EndRequest
  <2>3. \A o \in AccountRequests : areq'[o].at = "rotate" => areq'[o].old \in Tokens
    BY <2>2
  <2>4. AccountTypeOK'
    <3>1. CASE Wrong(q)
      BY <3>1 DEF Wrong
    <3>2. CASE Enable(q)
      BY <3>2 DEF Enable
    <3>3. CASE KeyWrite(q)
      BY <3>3 DEF KeyWrite
    <3>4. CASE LoginRead(q) \/ EnableRead(q) \/ KeyRead(q) \/ KeyUse(q) \/ Served(q)
      BY <3>4 DEF LoginRead, EnableRead, KeyRead, KeyUse, Served
    <3> QED
      BY <1>7, <3>1, <3>2, <3>3, <3>4
  <2> QED
    BY <2>3, <2>4
<1>8. CASE Enrol \/ Disable \/ WindowElapses \/ revoke_key \/ UNCHANGED accountVars
  <2>1. areq' = areq
    BY <1>8 DEF Enrol, Disable, WindowElapses, revoke_key, accountVars
  <2>2. CASE Enrol \/ Disable
    BY <2>1, <2>2 DEF Enrol, Disable
  <2>3. CASE WindowElapses
    BY <2>1, <2>3 DEF WindowElapses
  <2>5. CASE revoke_key
    <3>1. akey' = "revoked" /\ UNCHANGED <<acct, token, code, fails>>
      BY <2>5 DEF revoke_key
    <3> QED
      BY <2>1, <3>1
  <2>4. CASE UNCHANGED accountVars
    BY <2>4 DEF accountVars
  <2> QED
    BY <1>8, <2>2, <2>3, <2>4, <2>5
<1>9. CASE Erase
  <2>1. areq' = areq /\ fails' = fails /\ code' = "none" /\ akey' \in {"none", "live", "revoked"}
        /\ acct' = [status |-> "deleted", enabled |-> FALSE, secret |-> FALSE]
    BY <1>9 DEF Erase
  <2>2. token' \in [Tokens -> [st : {"none", "live", "revoked", "gone"}, next : Tokens \cup {NoNext}]]
    BY <1>9 DEF Erase, NoToken
  <2> QED
    BY <2>1, <2>2
<1> QED
  BY <1>1, <1>2, <1>3, <1>4, <1>5, <1>6, <1>7, <1>8, <1>9 DEF AccountNext

LEMMA AccountTypesInit == AccountInit => AccountTypes
BY DEF AccountInit, AccountTypes, AccountTypeOK, NoToken, AtRest

\* Members: a request that has been checked writes one of the roles.
MemberTypes ==
    /\ role \in [Members -> {"none", "viewer", "owner"}]
    /\ call \in [Calls -> {Quiet} \cup [at : {"checked"}, who : Members, to : {"none", "viewer", "owner"}]]

LEMMA MemberTypesStep == MemberTypes /\ [MemberNext]_memberVars => MemberTypes'
<1> SUFFICES ASSUME MemberTypes, [MemberNext]_memberVars PROVE MemberTypes'
  OBVIOUS
<1> USE DEF MemberTypes
<1>1. ASSUME NEW m \in Members, NEW r \in {"viewer", "owner"}, Invite(m, r) PROVE MemberTypes'
  BY <1>1 DEF Invite
<1>2. ASSUME NEW c \in Calls, NEW m \in Members, NEW r \in {"none", "viewer", "owner"}, DemoteCheck(c, m, r)
      PROVE  MemberTypes'
  BY <1>2 DEF DemoteCheck
<1>3. ASSUME NEW c \in Calls, DemoteWrite(c) PROVE MemberTypes'
  <2>1. call[c].who \in Members /\ call[c].to \in {"none", "viewer", "owner"}
    BY <1>3 DEF DemoteWrite, Quiet
  <2> QED
    BY <1>3, <2>1 DEF DemoteWrite
<1>4. CASE UNCHANGED memberVars
  BY <1>4 DEF memberVars
<1> QED
  BY <1>1, <1>2, <1>3, <1>4 DEF MemberNext

\* Proofs of authorization: the proof a verifier has read is one of them.
Proof == [verified : BOOLEAN, active : BOOLEAN, expires : 0 .. MaxDay]
ProofTypes ==
    /\ proofs \in Seq(Proof) /\ verifier \in 0 .. Len(proofs)
    /\ job \in [at : {"none", "queued", "running", "failed"}, active : BOOLEAN]

LEMMA ProofTypesStep == ProofTypes /\ [ProofNext]_proofVars => ProofTypes'
<1> SUFFICES ASSUME ProofTypes, [ProofNext]_proofVars PROVE ProofTypes'
  OBVIOUS
<1> USE DEF ProofTypes
<1>1. ASSUME NEW e \in 0 .. MaxDay, Submit(e) PROVE ProofTypes'
  <2> DEFINE p == [verified |-> FALSE, active |-> FALSE, expires |-> e]
  <2>1. p \in Proof
    BY DEF Proof
  <2>2. proofs' = Append(proofs, p) /\ UNCHANGED <<verifier, job>>
    BY <1>1 DEF Submit
  <2> HIDE DEF p
  <2>3. proofs' \in Seq(Proof) /\ Len(proofs') = Len(proofs) + 1 /\ Len(proofs) \in Nat
    BY <2>1, <2>2
  <2> QED
    BY <2>2, <2>3
<1>2. ASSUME NEW e \in 0 .. MaxDay, NEW a \in BOOLEAN, VerifyWrite(a, e) PROVE ProofTypes'
  <2> DEFINE p == [verified |-> TRUE, active |-> a, expires |-> e]
  <2>1. p \in Proof
    BY DEF Proof
  <2>2. /\ verifier \in 1 .. Len(proofs) /\ proofs' = [proofs EXCEPT ![verifier] = p]
        /\ verifier' = 0 /\ job' = job
    BY <1>2 DEF VerifyWrite
  <2> HIDE DEF p
  <2>3. proofs' \in Seq(Proof) /\ Len(proofs') \in Nat
    BY <2>1, <2>2
  <2> QED
    BY <2>2, <2>3
<1>3. ASSUME NEW i \in 1 .. MaxProofs, VerifyRead(i) PROVE ProofTypes'
  BY <1>3 DEF VerifyRead, CurrentScope
<1>4. ASSUME NEW a \in BOOLEAN, CreateScan(a) PROVE ProofTypes'
  BY <1>4 DEF CreateScan
<1>5. CASE StartCelery
  <2>1. CASE \E i \in DOMAIN proofs : require_verified_target(i, FALSE)
    <3>1. Len(proofs) \in DOMAIN proofs
      BY <2>1 DEF require_verified_target, CurrentScope
    <3>2. proofs[Len(proofs)] \in Proof
      BY <3>1
    <3>3. job' = [at |-> "running", active |-> job.active /\ proofs[Len(proofs)].active]
      BY <1>5, <2>1 DEF StartCelery
    <3>4. (job.active /\ proofs[Len(proofs)].active) \in BOOLEAN
      OBVIOUS
    <3>5. job' \in [at : {"none", "queued", "running", "failed"}, active : BOOLEAN]
      BY <3>3, <3>4
    <3> QED
      BY <1>5, <3>5 DEF StartCelery
  <2>2. CASE ~ \E i \in DOMAIN proofs : require_verified_target(i, FALSE)
    BY <1>5, <2>2 DEF StartCelery
  <2> QED
    BY <2>1, <2>2
<1>6. CASE StartLease \/ ScanOver
  <2>1. CASE StartLease
    <3>1. job' \in [at : {"none", "queued", "running", "failed"}, active : BOOLEAN]
      BY <2>1 DEF StartLease
    <3> QED
      BY <2>1, <3>1 DEF StartLease
  <2>2. CASE ScanOver
    <3>1. job' \in [at : {"none", "queued", "running", "failed"}, active : BOOLEAN]
      BY <2>2 DEF ScanOver, NoJob
    <3> QED
      BY <2>2, <3>1 DEF ScanOver
  <2> QED
    BY <1>6, <2>1, <2>2
<1>7. CASE NextDay \/ UNCHANGED proofVars
  BY <1>7 DEF NextDay, proofVars
<1> QED
  BY <1>1, <1>2, <1>3, <1>4, <1>5, <1>6, <1>7 DEF ProofNext

LEMMA AccessTyped == (AccessInit => MemberTypes /\ ProofTypes) /\ (MemberTypes /\ ProofTypes => AccessTypeOK)
<1>1. MemberInit => MemberTypes
  BY DEF MemberInit, MemberTypes
<1>2. ProofInit => ProofTypes
  BY DEF ProofInit, ProofTypes, NoJob
<1> QED
  BY <1>1, <1>2 DEF AccessInit, AccessTypeOK, MemberTypes, ProofTypes, Proof

\* Alerts: a note is about a scan, a mail is retried at most as often as the
\* setting says.
Notes == [event : Events, type : Kinds \ System, read : BOOLEAN]
Mails == [state : {"none", "queued", "sending", "ended"}, key : {<<>>} \cup Kinds \X (Counts \cup {0}),
          retries : 0 .. EMAIL_MAX_RETRIES, result : {"none", "disabled", "deduped", "sent", "failed"}]
AlertTypes ==
    /\ session \in [Events -> (Kinds \ System) \cup {"idle", "done"}]
    /\ notes \subseteq Notes /\ mails \in [Events -> Mails] /\ cacheUp \in BOOLEAN

LEMMA NoMailOK == NoMail \in Mails
<1>1. 0 \in 0 .. EMAIL_MAX_RETRIES
  BY AlertsAssumption
<1> QED
  BY <1>1 DEF NoMail, Mails

LEMMA QueuedOK == ASSUME NEW k \in Kinds, NEW n \in Counts \cup {0} PROVE Queued(_dedup_key(k, n)) \in Mails
<1>1. _dedup_key(k, n) \in Kinds \X (Counts \cup {0})
  BY DEF _dedup_key
<1> QED
  BY <1>1, NoMailOK DEF Queued, Mails

\* A task ends.
\* A mail that moves on, or is tried once more, stays a mail.
LEMMA MovedOK ==
    ASSUME NEW x \in Mails, NEW s \in {"queued", "sending", "ended"}
    PROVE  [x EXCEPT !.state = s] \in Mails
BY DEF Mails

LEMMA AgainOK ==
    ASSUME NEW x \in Mails, NEW n \in 0 .. EMAIL_MAX_RETRIES
    PROVE  [x EXCEPT !.retries = n] \in Mails
BY DEF Mails

LEMMA PostedOK ==
    ASSUME NEW m \in [Events -> Mails], NEW e \in Events, NEW x \in Mails
    PROVE  [m EXCEPT ![e] = x] \in [Events -> Mails]
OBVIOUS

LEMMA EndedOK ==
    ASSUME NEW m \in [Events -> Mails], NEW e \in Events, NEW r \in {"disabled", "deduped", "sent", "failed"}
    PROVE  [m EXCEPT ![e].state = "ended", ![e].result = r] \in [Events -> Mails]
<1> DEFINE w == [m[e] EXCEPT !.state = "ended", !.result = r]
<1>1. m[e] \in Mails
  OBVIOUS
<1>2. [m[e] EXCEPT !.state = "ended"] \in Mails
  BY <1>1 DEF Mails
<1>3. w \in Mails
  <2> DEFINE v == [m[e] EXCEPT !.state = "ended"]
  <2>1. w = [v EXCEPT !.result = r]
    BY <1>1 DEF Mails
  <2>2. v \in Mails
    BY <1>2
  <2> HIDE DEF v, w
  <2>3. [v EXCEPT !.result = r] \in Mails
    BY <2>2 DEF Mails
  <2> QED
    BY <2>1, <2>3
<1>4. [m EXCEPT ![e].state = "ended", ![e].result = r] = [m EXCEPT ![e] = w]
  BY <1>1 DEF Mails
<1> HIDE DEF w
<1> QED
  BY <1>3, <1>4

LEMMA AlertTypesStep == AlertTypes /\ [AlertsNext]_alertVars => AlertTypes'
<1> SUFFICES ASSUME AlertTypes, [AlertsNext]_alertVars PROVE AlertTypes'
  OBVIOUS
<1> USE DEF AlertTypes
<1>1. ASSUME NEW e \in Events, NEW k \in Kinds, NEW n \in Counts, NEW b \in BOOLEAN, notify_scan_finished(e, k, n, b)
      PROVE  AlertTypes'
  <2>1. Queued(_dedup_key(k, n)) \in Mails
    BY QueuedOK
  <2>2. mails' \in [Events -> Mails]
    BY <1>1, <2>1 DEF notify_scan_finished, email_scan_alert
  <2>3. session' = [session EXCEPT ![e] = k] /\ k \in Kinds \ System /\ UNCHANGED <<notes, cacheUp>>
    BY <1>1 DEF notify_scan_finished
  <2> QED
    BY <2>2, <2>3
<1>2. ASSUME NEW e \in Events, NEW k \in System, NEW b \in BOOLEAN, SystemAlert(e, k, b) PROVE AlertTypes'
  <2>1. Queued(_dedup_key(k, 0)) \in Mails
    BY QueuedOK DEF System, Kinds
  <2>2. mails' \in [Events -> Mails]
    BY <1>2, <2>1 DEF SystemAlert, email_system_alert
  <2>3. session' = [session EXCEPT ![e] = "done"] /\ UNCHANGED <<notes, cacheUp>>
    BY <1>2 DEF SystemAlert
  <2> QED
    BY <2>2, <2>3
<1>3. ASSUME NEW e \in Events, NEW b \in BOOLEAN, _emit_scan_notification(e, b) PROVE AlertTypes'
  <2>1. session[e] \in Kinds \ System
    BY <1>3 DEF _emit_scan_notification, Kinds
  <2>2. create_notification(e, session[e]) \in Notes
    BY <2>1 DEF create_notification, Notes
  <2>3. session' = [session EXCEPT ![e] = "done"] /\ UNCHANGED <<mails, cacheUp>>
        /\ notes' \in {notes, notes \cup {create_notification(e, session[e])}}
    BY <1>3 DEF _emit_scan_notification
  <2> QED
    BY <2>2, <2>3
<1>4. ASSUME NEW e \in Events, NEW r \in {"disabled", "sent", "failed"}, Ends(e, r) PROVE AlertTypes'
  BY <1>4, EndedOK DEF Ends
<1>5. ASSUME NEW e \in Events, TakeMail(e) PROVE AlertTypes'
  <2>1. mails' \in {[mails EXCEPT ![e].state = "ended", ![e].result = "deduped"], [mails EXCEPT ![e].state = "sending"]}
        /\ UNCHANGED <<session, notes, cacheUp>>
    BY <1>5 DEF TakeMail
  <2>2. [mails EXCEPT ![e].state = "sending"] \in [Events -> Mails]
    BY MovedOK, PostedOK
  <2>3. [mails EXCEPT ![e].state = "ended", ![e].result = "deduped"] \in [Events -> Mails]
    BY EndedOK
  <2> QED
    BY <2>1, <2>2, <2>3
<1>6. ASSUME NEW e \in Events, DeliveryError(e), mails[e].retries < EMAIL_MAX_RETRIES PROVE AlertTypes'
  <2>1. mails[e].retries + 1 \in 0 .. EMAIL_MAX_RETRIES
    BY <1>6, AlertsAssumption DEF Mails
  <2> DEFINE x == [mails[e] EXCEPT !.state = "queued"]
             y == [x EXCEPT !.retries = mails[e].retries + 1]
  <2>2. x \in Mails
    BY MovedOK
  <2>3. x.retries = mails[e].retries
    BY DEF Mails
  <2> HIDE DEF x
  <2>4. y \in Mails
    BY <2>1, <2>2, AgainOK
  <2>5. mails' = [mails EXCEPT ![e] = y] /\ UNCHANGED <<session, notes, cacheUp>>
    BY <1>6, <2>3 DEF DeliveryError, x
  <2> HIDE DEF y
  <2> QED
    BY <2>4, <2>5, PostedOK
<1>7. ASSUME NEW e \in Events, WorkerDies(e) PROVE AlertTypes'
  <2>1. mails' = [mails EXCEPT ![e] = [mails[e] EXCEPT !.state = "queued"]] /\ UNCHANGED <<session, notes, cacheUp>>
    BY <1>7 DEF WorkerDies
  <2>2. [mails[e] EXCEPT !.state = "queued"] \in Mails
    BY MovedOK
  <2> QED
    BY <2>1, <2>2, PostedOK
<1>8. ASSUME NEW some \in SUBSET notes, mark_read(some) PROVE AlertTypes'
  BY <1>8 DEF mark_read, Notes
<1>9. ASSUME NEW key \in marks, WindowEnds(key) PROVE AlertTypes'
  BY <1>9 DEF WindowEnds
<1>10. CASE CacheFlips
  <2>1. cacheUp' \in BOOLEAN
    BY <1>10 DEF CacheFlips
  <2> QED
    BY <1>10, <2>1 DEF CacheFlips
<1>11. CASE UNCHANGED alertVars
  BY <1>11 DEF alertVars
<1>12. ASSUME NEW e \in Events, Disabled(e) \/ Sent(e) \/ DeliveryError(e) \/ OtherError(e) PROVE AlertTypes'
  BY <1>4, <1>6, <1>12 DEF Disabled, Sent, DeliveryError, OtherError
<1> QED
  BY <1>1, <1>2, <1>3, <1>5, <1>7, <1>8, <1>9, <1>10, <1>11, <1>12 DEF AlertsNext

LEMMA AlertsTyped == (AlertsInit => AlertTypes) /\ (AlertTypes => AlertsTypeOK)
<1>1. ASSUME AlertsInit PROVE AlertTypes
  BY <1>1, NoMailOK DEF AlertsInit, AlertTypes
<1>2. ASSUME AlertTypes PROVE AlertsTypeOK
  BY <1>2 DEF AlertTypes, AlertsTypeOK, Notes, Mails
<1> QED
  BY <1>1, <1>2

\* Asset metadata: the marks are on keys of the document, and a tool run is
\* observed once, also in the stale copies.
DocOK(d) == d.inferred \subseteq d.keys /\ d.obs \in Seq(Upserts) /\ IsInjective(d.obs)
AssetTypes ==
    /\ DocOK(doc) /\ upsert = [u \in Upserts |-> upsert[u]]
    /\ \A u \in Upserts : upsert[u].at = "read" => DocOK(upsert[u].old)

LEMMA NewestIs ==
    ASSUME NEW s \in Seq(Upserts), IsInjective(s), NEW n \in Nat
    PROVE  /\ Newest(s, n) \in Seq(Upserts) /\ IsInjective(Newest(s, n))
           /\ \A i \in DOMAIN Newest(s, n) : \E j \in DOMAIN s : Newest(s, n)[i] = s[j]
<1>1. CASE Len(s) <= n
  BY <1>1 DEF Newest
<1>2. CASE Len(s) > n
  <2> DEFINE d == Len(s) - n
             w == SubSeq(s, d + 1, Len(s))
  <2>1. Newest(s, n) = w
    BY <1>2 DEF Newest
  <2>2. Len(s) \in Nat /\ d \in Nat
    BY <1>2
  <2>3. w \in Seq(Upserts) /\ Len(w) = n /\ \A i \in 1 .. n : w[i] = s[d + i]
    <3>1. d + 1 \in 1 .. Len(s) + 1 /\ Len(s) \in d .. Len(s)
      BY <1>2, <2>2
    <3>2. \A i \in 1 .. Len(s) : s[i] \in Upserts
      BY <2>2
    <3> QED
      BY <1>2, <2>2, <3>1, <3>2
  <2>4. DOMAIN w = 1 .. n /\ DOMAIN s = 1 .. Len(s)
    BY <2>3
  <2>5. \A i \in 1 .. n : d + i \in 1 .. Len(s)
    BY <1>2, <2>2
  <2> HIDE DEF w
  <2>6. IsInjective(w)
    <3> SUFFICES ASSUME NEW a \in 1 .. n, NEW b \in 1 .. n, w[a] = w[b] PROVE a = b
      BY <2>4 DEF IsInjective
    <3>1. s[d + a] = s[d + b] /\ d + a \in DOMAIN s /\ d + b \in DOMAIN s
      BY <2>3, <2>4, <2>5
    <3>2. d + a = d + b
      BY <3>1 DEF IsInjective
    <3> QED
      BY <2>2, <3>2
  <2> QED
    BY <2>1, <2>3, <2>4, <2>5, <2>6
<1> QED
  BY <1>1, <1>2

\* The merge of a report observes its tool run once.
LEMMA ObservedOnce ==
    ASSUME NEW s \in Seq(Upserts), IsInjective(s), NEW u \in Upserts, \A i \in DOMAIN s : s[i] # u
    PROVE  Append(s, u) \in Seq(Upserts) /\ IsInjective(Append(s, u))
<1>1. Append(s, u) \in Seq(Upserts) /\ DOMAIN Append(s, u) = 1 .. Len(s) + 1 /\ DOMAIN s = 1 .. Len(s)
      /\ Len(s) \in Nat /\ Append(s, u)[Len(s) + 1] = u /\ \A i \in 1 .. Len(s) : Append(s, u)[i] = s[i]
  OBVIOUS
<1> SUFFICES ASSUME NEW a \in 1 .. Len(s) + 1, NEW b \in 1 .. Len(s) + 1, Append(s, u)[a] = Append(s, u)[b]
             PROVE  a = b
  BY <1>1 DEF IsInjective
<1>2. \A i \in 1 .. Len(s) + 1 : i \in 1 .. Len(s) \/ i = Len(s) + 1
  BY <1>1
<1>3. CASE a \in DOMAIN s /\ b \in DOMAIN s
  <2>1. s[a] = s[b]
    BY <1>1, <1>3
  <2> QED
    BY <2>1, <1>3 DEF IsInjective
<1>4. CASE a \in DOMAIN s /\ b = Len(s) + 1
  BY <1>1, <1>4
<1>5. CASE b \in DOMAIN s /\ a = Len(s) + 1
  BY <1>1, <1>5
<1> QED
  BY <1>1, <1>2, <1>3, <1>4, <1>5

LEMMA MergeTyped == ASSUME NEW old, DocOK(old), NEW u \in Upserts PROVE DocOK(merge_asset_metadata(old, u))
<1> DEFINE d == merge_asset_metadata(old, u)
<1>0. MaxObservations \in Nat /\ MaxObservations - 1 \in Nat
  BY AssetsAssumption
<1>1. d.inferred \subseteq d.keys
  BY DEF merge_asset_metadata
<1>2. d.obs = IF u \in ToSet(old.obs) THEN Newest(old.obs, MaxObservations)
              ELSE Append(IF MaxObservations = 1 THEN old.obs ELSE Newest(old.obs, MaxObservations - 1), u)
  BY DEF merge_asset_metadata
<1> HIDE DEF d
<1>3. old.obs \in Seq(Upserts) /\ IsInjective(old.obs)
  BY DEF DocOK
<1>4. CASE u \in ToSet(old.obs)
  BY <1>0, <1>1, <1>2, <1>3, <1>4, NewestIs DEF DocOK, d
<1>5. CASE u \notin ToSet(old.obs)
  <2> DEFINE s == IF MaxObservations = 1 THEN old.obs ELSE Newest(old.obs, MaxObservations - 1)
  <2>1. \A i \in DOMAIN old.obs : old.obs[i] # u
    BY <1>5 DEF ToSet
  <2>2. s \in Seq(Upserts) /\ IsInjective(s) /\ \A i \in DOMAIN s : s[i] # u
    <3>1. CASE MaxObservations = 1
      BY <1>3, <2>1, <3>1
    <3>2. CASE MaxObservations # 1
      <4> DEFINE n == MaxObservations - 1
      <4>1. n \in Nat /\ s = Newest(old.obs, n)
        BY <1>0, <3>2
      <4> HIDE DEF n, s
      <4>2. /\ Newest(old.obs, n) \in Seq(Upserts) /\ IsInjective(Newest(old.obs, n))
            /\ \A i \in DOMAIN Newest(old.obs, n) :
                  \E j \in DOMAIN old.obs : Newest(old.obs, n)[i] = old.obs[j]
        BY <1>3, <4>1, NewestIs
      <4> QED
        BY <2>1, <4>1, <4>2
    <3> QED
      BY <3>1, <3>2
  <2>3. d.obs = Append(s, u)
    BY <1>2, <1>5
  <2> HIDE DEF s
  <2> QED
    BY <1>1, <2>2, <2>3, ObservedOnce DEF DocOK, d
<1> QED
  BY <1>4, <1>5

LEMMA AssetTypesStep == AssetTypes /\ [AssetNext]_assetVars => AssetTypes'
<1> SUFFICES ASSUME AssetTypes, [AssetNext]_assetVars PROVE AssetTypes'
  OBVIOUS
<1>1. ASSUME NEW u \in Upserts, UpsertRead(u) PROVE AssetTypes'
  <2> DEFINE r == [at |-> "read", old |-> doc]
  <2>1. doc' = doc /\ upsert' = [upsert EXCEPT ![u] = r] /\ r.old = doc
    BY <1>1 DEF UpsertRead
  <2> HIDE DEF r
  <2> QED
    BY <2>1 DEF AssetTypes, DocOK
<1>2. ASSUME NEW u \in Upserts, UpsertWrite(u) PROVE AssetTypes'
  <2>1. /\ upsert[u].at = "read" /\ doc' = merge_asset_metadata(upsert[u].old, u)
        /\ upsert' = [upsert EXCEPT ![u] = NotBegun] /\ NotBegun.at = "idle"
    BY <1>2 DEF UpsertWrite, NotBegun
  <2>2. DocOK(merge_asset_metadata(upsert[u].old, u))
    BY <2>1, MergeTyped DEF AssetTypes
  <2>3. DocOK(doc)'
    BY <2>1, <2>2 DEF DocOK
  <2>4. \A v \in Upserts : upsert'[v].at = "read" => upsert'[v] = upsert[v]
    BY <2>1 DEF AssetTypes
  <2>5. \A v \in Upserts : upsert'[v].at = "read" => DocOK(upsert[v].old)
    BY <2>4 DEF AssetTypes
  <2> QED
    BY <2>1, <2>3, <2>4, <2>5 DEF AssetTypes, DocOK
<1>3. CASE UNCHANGED assetVars
  BY <1>3 DEF assetVars, AssetTypes, DocOK
<1> QED
  BY <1>1, <1>2, <1>3 DEF AssetNext

LEMMA AssetTyped == (AssetInit => AssetTypes) /\ (AssetTypes => AssetTypeOK)
<1>1. ASSUME AssetInit PROVE AssetTypes
  <2>1. NoDoc.inferred = {} /\ NoDoc.keys = {} /\ NoDoc.obs = <<>> /\ NotBegun.at = "idle"
    BY DEF NoDoc, NotBegun
  <2>2. DocOK(NoDoc)
    BY <2>1 DEF DocOK, IsInjective
  <2> QED
    BY <1>1, <2>1, <2>2 DEF AssetInit, AssetTypes
<1>2. AssetTypes => AssetTypeOK
  BY DEF AssetTypes, AssetTypeOK, DocOK
<1> QED
  BY <1>1, <1>2

\* Coverage: a request has read assets of the target, and its debt is among them.
CoverageTypes ==
    /\ known \subseteq Surfaces /\ toolruns \subseteq CoverageTools \X RunStatus
    /\ \A q \in Queries : query[q].debt \subseteq query[q].assets /\ query[q].assets \subseteq known

LEMMA CoverageTypesStep == CoverageInv /\ CoverageTypes /\ [CoverageNext]_coverageVars => CoverageTypes'
<1> SUFFICES ASSUME CoverageInv, CoverageTypes, [CoverageNext]_coverageVars PROVE CoverageTypes'
  OBVIOUS
<1> USE DEF CoverageTypes
<1>0. query = [q \in Queries |-> query[q]] /\ \A q \in Queries : QueryShape(query[q])
  BY DEF CoverageInv, QueryOK
<1>1. ASSUME NEW s \in Surfaces, Discover(s) PROVE CoverageTypes'
  BY <1>1 DEF Discover
<1>2. ASSUME NEW s \in Surfaces, Confirm(s) PROVE CoverageTypes'
  BY <1>2 DEF Confirm
<1>3. ASSUME NEW t \in RanTools, NEW st \in RunStatus, RunSettles(t, st) PROVE CoverageTypes'
  BY <1>3, CoverageAssumption DEF RunSettles
<1>4. CASE Withdraw \/ UNCHANGED coverageVars
  BY <1>4 DEF Withdraw, coverageVars
<1>5. ASSUME NEW q \in Queries, NEW k \in {"coverage", "next_steps"}, ReadAssets(q, k) PROVE CoverageTypes'
  <2> DEFINE r == [NoQuery EXCEPT !.pc = "assets", !.kind = k, !.assets = known, !.usable = ToolsWith(Usable)]
  <2>1. query' = [query EXCEPT ![q] = r] /\ UNCHANGED <<known, toolruns>>
    BY <1>5 DEF ReadAssets
  <2>2. r.debt = {} /\ r.assets = known
    BY DEF NoQuery
  <2> HIDE DEF r
  <2> QED
    BY <1>0, <2>1, <2>2
<1>6. ASSUME NEW q \in Queries, ReadOutcomes(q) \/ ReadAlreadyRun(q) \/ AnswerNextSteps(q) PROVE CoverageTypes'
  <2>1. UNCHANGED <<known, toolruns>>
    BY <1>6 DEF ReadOutcomes, ReadAlreadyRun, AnswerNextSteps
  <2>2. \A o \in Queries : query'[o].debt = query[o].debt /\ query'[o].assets = query[o].assets
    <3>1. CASE ReadOutcomes(q)
      BY <1>0, <3>1 DEF ReadOutcomes, QueryShape
    <3>2. CASE ReadAlreadyRun(q)
      BY <1>0, <3>2 DEF ReadAlreadyRun, QueryShape
    <3>3. CASE AnswerNextSteps(q)
      <4>1. PICK steps : query' = [query EXCEPT ![q].pc = "answered", ![q].steps = steps]
        BY <3>3 DEF AnswerNextSteps
      <4> QED
        BY <1>0, <4>1 DEF QueryShape
    <3> QED
      BY <1>6, <3>1, <3>2, <3>3
  <2> QED
    BY <2>1, <2>2
<1>7. ASSUME NEW q \in Queries, AnswerCoverage(q) PROVE CoverageTypes'
  <2> DEFINE debt == build_coverage(query[q].assets, query[q].outcomes, confirmed).debt
  <2>1. debt \subseteq query[q].assets
    BY DEF build_coverage
  <2>2. query' = [query EXCEPT ![q].pc = "answered", ![q].debt = debt] /\ UNCHANGED <<known, toolruns>>
    BY <1>7 DEF AnswerCoverage
  <2> HIDE DEF debt
  <2>3. /\ \A o \in Queries : query'[o].assets = query[o].assets
        /\ query'[q].debt = debt /\ \A o \in Queries \ {q} : query'[o].debt = query[o].debt
    BY <1>0, <2>2 DEF QueryShape
  <2> QED
    BY <2>1, <2>2, <2>3
<1> QED
  BY <1>1, <1>2, <1>3, <1>4, <1>5, <1>6, <1>7 DEF CoverageNext

LEMMA CoverageTyped ==
    (CoverageInit => CoverageTypes) /\ (CoverageInv /\ CoverageTypes => CoverageTypeOK)
<1>1. CoverageInit => CoverageTypes
  BY DEF CoverageInit, CoverageTypes, NoQuery
<1>2. CoverageInv /\ CoverageTypes => CoverageTypeOK
  BY DEF CoverageInv, CoverageTypes, CoverageTypeOK, QueryOK, QueryStages
<1> QED
  BY <1>1, <1>2

\* Locations: every line makes at most one finding, and katana keeps MAX_URLS.
LocationTypes ==
    /\ lines \in Seq(Line) /\ found \in Seq(Line) /\ Len(found) <= Len(lines)
    /\ parser = "katana" => Len(found) <= MAX_URLS

LEMMA LocationTypesStep == LocationTypes /\ [LocationsNext]_locationVars => LocationTypes'
<1> SUFFICES ASSUME LocationTypes, [LocationsNext]_locationVars PROVE LocationTypes'
  OBVIOUS
<1>1. ASSUME NEW l \in Line, ParseLine(l) PROVE LocationTypes'
  <2>0. MAX_URLS \in Nat
    BY LocationsAssumption
  <2>1. lines' = Append(lines, l) /\ parser' = parser /\ Len(lines) \in Nat /\ Len(found) \in Nat
    BY <1>1 DEF ParseLine, LocationTypes
  <2>2. found' \in {found, Append(found, l)}
    BY <1>1 DEF ParseLine, parse, parse_vulnerabilities
  <2>3. parser = "katana" => found' = found \/ ~(Len(found) >= MAX_URLS)
    BY <1>1 DEF ParseLine, parse
  <2>4. lines' \in Seq(Line) /\ Len(lines') = Len(lines) + 1
    BY <2>1 DEF LocationTypes
  <2>5. found' \in Seq(Line) /\ (found' = found \/ Len(found') = Len(found) + 1)
    BY <2>2 DEF LocationTypes
  <2> QED
    BY <2>0, <2>1, <2>3, <2>4, <2>5 DEF LocationTypes
<1>2. CASE UNCHANGED locationVars
  BY <1>2 DEF locationVars, LocationTypes
<1> QED
  BY <1>1, <1>2 DEF LocationsNext

LEMMA LocationsTyped == (LocationsInit => LocationTypes) /\ (LocationTypes => LocationsTypeOK)
<1>1. ASSUME LocationsInit PROVE LocationTypes
  <2>1. MAX_URLS \in Nat
    BY LocationsAssumption
  <2>2. lines = <<>> /\ found = <<>>
    BY <1>1 DEF LocationsInit
  <2> QED
    BY <2>1, <2>2 DEF LocationTypes
<1>2. LocationTypes => LocationsTypeOK
  BY DEF LocationTypes, LocationsTypeOK
<1> QED
  BY <1>1, <1>2

FindingsSpec == FindingsInit /\ [][FindingsAlone]_findingVars

\* A session: the rows it has written are rows, and what it read before it
\* goes on to write a finding is a row of its own or one that is committed.
SessionKeys == {"at", "f", "seen", "ver", "pend"}
PendOK(pend) ==
    /\ pend = [g \in DOMAIN pend |-> pend[g]]
    /\ DOMAIN pend \subseteq Fingerprints /\ \A g \in DOMAIN pend : pend[g] \in Row
TxOK(t, rows) ==
    /\ DOMAIN t = SessionKeys /\ t.at \in {"idle", "write", "item"} /\ PendOK(t.pend)
    /\ t.at = "write" =>
          /\ t.f \in Fingerprints /\ t.seen \in Row \cup {None}
          /\ t.seen # None => t.f \in DOMAIN t.pend \/ rows[t.f] # None

\* A request to set a status is about a row, and a row is never removed.
OpOK(o, rows) == o.at = "status" => o.f \in Fingerprints /\ o.new \in Settable /\ rows[o.f] # None
FindingsTypes ==
    /\ vulns \in [Fingerprints -> Row \cup {None}]
    /\ scan \in [Scans -> [st : {"running", "done"}, cov : BOOLEAN]]
    /\ saw \in [Scans -> SUBSET Fingerprints]
    /\ tx = [s \in Scans |-> tx[s]] /\ \A s \in Scans : TxOK(tx[s], vulns)
    /\ op = [c \in Clients |-> op[c]] /\ \A c \in Clients : OpOK(op[c], vulns)

LEMMA RestOK == ASSUME NEW pend, PendOK(pend), NEW rows PROVE TxOK(Rest(pend), rows) /\ Rest(pend).pend = pend
BY DEF Rest, TxOK, SessionKeys

LEMMA EmptyOK == PendOK(Empty)
BY DEF Empty, PendOK

LEMMA VisibleOK == ASSUME FindingsTypes, NEW s \in Scans, NEW f \in Fingerprints
                   PROVE  /\ Visible(s, f) \in Row \cup {None}
                          /\ Visible(s, f) # None <=> Holds(s, f) \/ vulns[f] # None
<1>1. PendOK(tx[s].pend)
  BY DEF FindingsTypes, TxOK
<1>2. vulns[f] \in Row \cup {None}
  BY DEF FindingsTypes
<1> QED
  BY <1>1, <1>2, NoRowAssumption DEF Visible, Holds, PendOK

\* A session writes a row.
LEMMA WrittenOK ==
    ASSUME FindingsTypes, NEW s \in Scans, tx[s].at = "write", NEW row \in Row
    PROVE  PendOK(Written(s, row))
<1>1. PendOK(tx[s].pend) /\ tx[s].f \in Fingerprints
  BY DEF FindingsTypes, TxOK
<1> DEFINE w == Written(s, row)
<1>2. w = [g \in DOMAIN tx[s].pend \cup {tx[s].f} |-> IF g = tx[s].f THEN row ELSE tx[s].pend[g]]
  BY DEF Written
<1> HIDE DEF w
<1>3. DOMAIN w = DOMAIN tx[s].pend \cup {tx[s].f}
  BY <1>2
<1>4. \A g \in DOMAIN w : w[g] \in Row
  BY <1>1, <1>2, <1>3 DEF PendOK
<1>5. w = [g \in DOMAIN w |-> w[g]]
  BY <1>2
<1> QED
  BY <1>1, <1>3, <1>4, <1>5 DEF PendOK, w

LEMMA NewRowOK == ASSUME FindingsTypes, NEW s \in Scans, NEW f \in Fingerprints PROVE NewRow(s, f) \in Row
<1> DEFINE a == find_ancestor(s, f)
<1>1. a \in Fingerprints \cup {None} /\ (a # None => a \in Matches(s, f))
  <2>1. CASE Cardinality(Matches(s, f)) = 1
    <3>1. Matches(s, f) # {}
      BY <2>1, FS_EmptySet
    <3>2. a \in Matches(s, f)
      BY <2>1, <3>1 DEF find_ancestor
    <3> QED
      BY <3>2 DEF Matches
  <2>2. CASE Cardinality(Matches(s, f)) # 1
    BY <2>2 DEF find_ancestor
  <2> QED
    BY <2>1, <2>2
<1> DEFINE v == IF a # None /\ Visible(s, a).status \in Sticky THEN Visible(s, a).status ELSE "open"
<1>2. v \in VulnStatuses
  BY DEF VulnStatuses, Settable, Sticky
<1>3. NewRow(s, f) = [status |-> v, last |-> s, ancestor |-> a]
  BY DEF NewRow
<1> HIDE DEF a, v
<1> QED
  BY <1>1, <1>2, <1>3 DEF Row

LEMMA RefreshedOK ==
    ASSUME FindingsTypes, NEW s \in Scans, tx[s].at = "write", tx[s].seen # None
    PROVE  Refreshed(s) \in Row
<1>1. tx[s].f \in Fingerprints /\ (Holds(s, tx[s].f) \/ vulns[tx[s].f] # None)
  BY DEF FindingsTypes, TxOK, Holds
<1> DEFINE cur == Visible(s, tx[s].f)
           st == IF tx[s].seen.status = "fixed" THEN "reopened" ELSE cur.status
<1>2. cur \in Row
  BY <1>1, VisibleOK
<1>3. Refreshed(s) = [cur EXCEPT !.last = s, !.status = st]
  BY <1>2 DEF Refreshed, Row
<1> HIDE DEF cur
<1>4. st \in VulnStatuses
  BY <1>2 DEF Row, VulnStatuses
<1> HIDE DEF st
<1>5. [cur EXCEPT !.last = s] \in Row
  BY <1>2 DEF Row
<1>6. [cur EXCEPT !.last = s, !.status = st] \in Row
  BY <1>2, <1>4 DEF Row
<1> QED
  BY <1>3, <1>6

\* One session moves on and the rows are as they were.
LEMMA TxMoves ==
    ASSUME FindingsTypes, NEW s \in Scans, NEW t, TxOK(t, vulns), tx' = [tx EXCEPT ![s] = t],
           UNCHANGED <<vulns, scan, saw, op>>
    PROVE  FindingsTypes'
<1>1. tx'[s] = t /\ \A r \in Scans \ {s} : tx'[r] = tx[r]
  BY DEF FindingsTypes
<1>2. tx' = [r \in Scans |-> tx'[r]]
  BY DEF FindingsTypes
<1>3. \A r \in Scans : TxOK(tx'[r], vulns)
  BY <1>1 DEF FindingsTypes
<1> QED
  BY <1>2, <1>3 DEF FindingsTypes

\* Rows are added and changed, never removed.
LEMMA RowsMove ==
    ASSUME FindingsTypes, \A f \in Fingerprints : vulns[f] # None => vulns'[f] # None
    PROVE  /\ \A t : TxOK(t, vulns) => TxOK(t, vulns')
           /\ \A o : OpOK(o, vulns) => OpOK(o, vulns')
<1>1. ASSUME NEW t, TxOK(t, vulns) PROVE TxOK(t, vulns')
  BY <1>1 DEF TxOK
<1>2. ASSUME NEW o, OpOK(o, vulns) PROVE OpOK(o, vulns')
  BY <1>2 DEF OpOK
<1> QED
  BY <1>1, <1>2

LEMMA FindingsTypesStep == FindingsTypes /\ [FindingsAlone]_findingVars => FindingsTypes'
<1> SUFFICES ASSUME FindingsTypes, [FindingsAlone]_findingVars PROVE FindingsTypes'
  OBVIOUS
<1>1. ASSUME NEW s \in Scans, NEW f \in Fingerprints, IngestRead(s, f) PROVE FindingsTypes'
  <2> DEFINE t == [tx[s] EXCEPT !.at = "write", !.f = f, !.seen = Visible(s, f)]
  <2>1. tx' = [tx EXCEPT ![s] = t] /\ UNCHANGED <<vulns, scan, saw, op>>
    BY <1>1 DEF IngestRead
  <2>2. DOMAIN tx[s] = SessionKeys /\ PendOK(tx[s].pend)
    BY DEF FindingsTypes, TxOK
  <2>3. DOMAIN t = SessionKeys /\ t.at = "write" /\ t.f = f /\ t.seen = Visible(s, f) /\ t.pend = tx[s].pend
    BY <2>2 DEF SessionKeys
  <2> HIDE DEF t
  <2>4. TxOK(t, vulns)
    BY <2>2, <2>3, VisibleOK DEF TxOK, Holds
  <2> QED
    BY <2>1, <2>4, TxMoves
<1>2. ASSUME NEW s \in Scans, IngestCreate(s) PROVE FindingsTypes'
  <2> DEFINE t == Rest(Written(s, NewRow(s, tx[s].f)))
  <2>1. tx[s].at = "write" /\ tx' = [tx EXCEPT ![s] = t] /\ UNCHANGED <<vulns, scan, saw, op>>
    BY <1>2 DEF IngestCreate
  <2>2. tx[s].f \in Fingerprints
    BY <2>1 DEF FindingsTypes, TxOK
  <2>3. TxOK(t, vulns)
    BY <2>1, <2>2, NewRowOK, WrittenOK, RestOK
  <2> HIDE DEF t
  <2> QED
    BY <2>1, <2>3, TxMoves
<1>3. ASSUME NEW s \in Scans, IngestCollides(s) PROVE FindingsTypes'
  <2> DEFINE t == Rest(Empty)
  <2>1. tx' = [tx EXCEPT ![s] = t] /\ UNCHANGED <<vulns, scan, saw, op>>
    BY <1>3 DEF IngestCollides
  <2>2. TxOK(t, vulns)
    BY EmptyOK, RestOK
  <2> HIDE DEF t
  <2> QED
    BY <2>1, <2>2, TxMoves
<1>4. ASSUME NEW s \in Scans, IngestRefresh(s) PROVE FindingsTypes'
  <2> DEFINE r == Rest(Written(s, Refreshed(s)))
             at == IF tx[s].seen.status = "fixed" THEN "item" ELSE "idle"
             t == [r EXCEPT !.at = at]
  <2>1. /\ tx[s].at = "write" /\ tx[s].seen # None /\ tx' = [tx EXCEPT ![s] = t]
        /\ UNCHANGED <<vulns, scan, saw, op>>
    BY <1>4 DEF IngestRefresh
  <2>2. TxOK(r, vulns)
    BY <2>1, RefreshedOK, WrittenOK, RestOK
  <2> HIDE DEF r
  <2>3. DOMAIN t = SessionKeys /\ t.at = at /\ t.pend = r.pend
    BY <2>2 DEF TxOK, SessionKeys
  <2>4. t.at \in {"idle", "item"}
    BY <2>3
  <2> HIDE DEF t
  <2>5. TxOK(t, vulns)
    BY <2>2, <2>3, <2>4 DEF TxOK
  <2> QED
    BY <2>1, <2>5, TxMoves
<1>5. ASSUME NEW s \in Scans, IngestNoItem(s) PROVE FindingsTypes'
  <2> DEFINE t == Rest(tx[s].pend)
  <2>1. tx' = [tx EXCEPT ![s] = t] /\ UNCHANGED <<vulns, scan, saw, op>>
    BY <1>5 DEF IngestNoItem
  <2>2. TxOK(t, vulns)
    BY RestOK DEF FindingsTypes, TxOK
  <2> HIDE DEF t
  <2> QED
    BY <2>1, <2>2, TxMoves
<1>6. ASSUME NEW s \in Scans, CommitBatch(s) PROVE FindingsTypes'
  <2> DEFINE t == Rest(Empty)
  <2>1. /\ vulns' = [f \in Fingerprints |-> Visible(s, f)]
        /\ saw' = [saw EXCEPT ![s] = saw[s] \cup DOMAIN tx[s].pend]
        /\ tx' = [tx EXCEPT ![s] = t] /\ UNCHANGED <<scan, op>>
    BY <1>6 DEF CommitBatch, CommitRows
  <2>2. vulns' \in [Fingerprints -> Row \cup {None}]
    BY <2>1, VisibleOK
  <2>3. \A f \in Fingerprints : vulns[f] # None => vulns'[f] # None
    BY <2>1, VisibleOK
  <2>4. DOMAIN tx[s].pend \subseteq Fingerprints
    BY DEF FindingsTypes, TxOK, PendOK
  <2>5. saw' \in [Scans -> SUBSET Fingerprints]
    BY <2>1, <2>4 DEF FindingsTypes
  <2>6. TxOK(t, vulns')
    BY EmptyOK, RestOK
  <2> HIDE DEF t
  <2>7. \A r \in Scans : TxOK(tx[r], vulns')
    BY <2>3, RowsMove DEF FindingsTypes
  <2>8. tx' = [r \in Scans |-> tx'[r]] /\ \A r \in Scans : TxOK(tx'[r], vulns')
    BY <2>1, <2>6, <2>7 DEF FindingsTypes
  <2>9. \A c \in Clients : OpOK(op[c], vulns')
    BY <2>3, RowsMove DEF FindingsTypes
  <2> QED
    BY <2>1, <2>2, <2>5, <2>8, <2>9 DEF FindingsTypes
<1>7. ASSUME NEW s \in Scans, EndScan(s) PROVE FindingsTypes'
  BY <1>7 DEF EndScan, FindingsTypes
<1>8. ASSUME NEW c \in Clients, NEW f \in Fingerprints, NEW new \in Settable, StatusRead(c, f, new)
      PROVE  FindingsTypes'
  <2> DEFINE o == [at |-> "status", f |-> f, new |-> new]
  <2>1. vulns[f] # None /\ op' = [op EXCEPT ![c] = o] /\ UNCHANGED <<vulns, scan, saw, tx>>
    BY <1>8 DEF StatusRead
  <2>2. OpOK(o, vulns)
    BY <2>1 DEF OpOK
  <2> HIDE DEF o
  <2>3. op' = [d \in Clients |-> op'[d]] /\ \A d \in Clients : OpOK(op'[d], vulns)
    BY <2>1, <2>2 DEF FindingsTypes
  <2> QED
    BY <2>1, <2>3 DEF FindingsTypes
<1>9. ASSUME NEW c \in Clients, StatusWrite(c) PROVE FindingsTypes'
  <2> DEFINE f == op[c].f
  <2>1. /\ op[c].at = "status" /\ vulns' = [vulns EXCEPT ![f].status = op[c].new]
        /\ op' = [op EXCEPT ![c] = Idle] /\ UNCHANGED <<scan, saw, tx>>
    BY <1>9 DEF StatusWrite
  <2>2. f \in Fingerprints /\ op[c].new \in VulnStatuses /\ vulns[f] \in Row
    BY <2>1 DEF FindingsTypes, OpOK, VulnStatuses
  <2>3. [vulns[f] EXCEPT !.status = op[c].new] \in Row
    BY <2>2 DEF Row
  <2> HIDE DEF f
  <2>4. vulns' \in [Fingerprints -> Row \cup {None}]
    BY <2>1, <2>2, <2>3 DEF FindingsTypes
  <2>5. \A g \in Fingerprints : vulns[g] # None => vulns'[g] # None
    BY <2>1, <2>2, <2>3, NoRowAssumption DEF FindingsTypes
  <2>6. OpOK(Idle, vulns')
    BY DEF OpOK, Idle
  <2>7. op' = [d \in Clients |-> op'[d]] /\ \A d \in Clients : OpOK(op'[d], vulns')
    BY <2>1, <2>5, <2>6, RowsMove DEF FindingsTypes
  <2>8. \A r \in Scans : TxOK(tx[r], vulns')
    BY <2>5, RowsMove DEF FindingsTypes
  <2> QED
    BY <2>1, <2>4, <2>7, <2>8 DEF FindingsTypes
<1>10. CASE UNCHANGED findingVars
  BY <1>10 DEF findingVars, FindingsTypes
<1> QED
  BY <1>1, <1>2, <1>3, <1>4, <1>5, <1>6, <1>7, <1>8, <1>9, <1>10 DEF FindingsAlone, FindingsNext

\* It holds of a project without rows, and of one that an earlier scan left.
LEMMA FindingsTypesInit ==
    (FindingsInit \/ \E v \in Settable : FindingsLater(v)) => FindingsTypes
<1>0. TxOK(Rest(Empty), vulns) /\ Idle.at = "idle"
  BY EmptyOK, RestOK DEF Idle
<1>1. ASSUME FindingsInit PROVE FindingsTypes
  <2>1. tx = [s \in Scans |-> Rest(Empty)] /\ op = [c \in Clients |-> Idle]
    BY <1>1 DEF FindingsInit
  <2>2. \A s \in Scans : TxOK(tx[s], vulns)
    BY <1>0, <2>1
  <2>3. \A c \in Clients : OpOK(op[c], vulns)
    BY <1>0, <2>1 DEF OpOK
  <2> QED
    BY <1>1, <2>1, <2>2, <2>3 DEF FindingsInit, FindingsTypes
<1>2. ASSUME NEW v \in Settable, FindingsLater(v) PROVE FindingsTypes
  <2>1. tx = [s \in Scans |-> Rest(Empty)] /\ op = [c \in Clients |-> Idle]
    BY <1>2 DEF FindingsLater
  <2>2. \A s \in Scans : TxOK(tx[s], vulns)
    BY <1>0, <2>1
  <2>3. \A c \in Clients : OpOK(op[c], vulns)
    BY <1>0, <2>1 DEF OpOK
  <2>4. [status |-> v, last |-> "s1", ancestor |-> None] \in Row
    BY PlatformAssumption DEF Row, VulnStatuses
  <2>5. vulns \in [Fingerprints -> Row \cup {None}]
    BY <1>2, <2>4 DEF FindingsLater
  <2>6. scan \in [Scans -> [st : {"running", "done"}, cov : BOOLEAN]]
    BY <1>2 DEF FindingsLater
  <2>7. saw \in [Scans -> SUBSET Fingerprints]
    BY <1>2, PlatformAssumption DEF FindingsLater
  <2> QED
    BY <2>1, <2>2, <2>3, <2>5, <2>6, <2>7 DEF FindingsTypes
<1> QED
  BY <1>1, <1>2

\* Scope: what a name server answers are addresses, and the names a scan has
\* looked up are among those that occur.
DnsOK(answers) ==
    /\ answers = [r \in DOMAIN answers |-> answers[r]] /\ "public" \in DOMAIN answers
    /\ \A r \in DOMAIN answers : answers[r] \in [Names -> SUBSET Int]
Servers(list, answers) == \A i \in DOMAIN list : list[i] \in DOMAIN answers
ScopeTypes ==
    /\ ScopeTypeOK
    /\ target = NoTarget \/ target.value \in Values
    /\ policy.bound => target # NoTarget
    /\ DnsOK(dns)
    /\ DOMAIN site = {"workspace", "status", "cidrs", "dns"}
    /\ Servers(site.dns, dns) /\ Servers(policy.dns, dns)

LEMMA NameOK == ASSUME NEW h \in Values PROVE h.kind \in {"name", "range"} /\ (h.kind = "name" => h.name \in Names)
<1>1. CASE h \in {NameOf(n) : n \in Names}
  BY <1>1 DEF NameOf
<1>2. CASE h \in {RangeOf(r) : r \in Ranges}
  BY <1>2 DEF RangeOf
<1> QED
  BY <1>1, <1>2 DEF Values

LEMMA ResolvedOK ==
    ASSUME ScopeTypes, NEW n \in Names PROVE resolve_hostname(n, policy) \subseteq Int
<1>1. \A r \in DOMAIN dns : dns[r][n] \subseteq Int
  BY DEF ScopeTypes, DnsOK
<1>2. resolve_via_site_dns(n, policy.dns) \subseteq Int
  BY <1>1 DEF resolve_via_site_dns, ScopeTypes, Servers
<1>3. dns["public"][n] \subseteq Int
  BY <1>1 DEF ScopeTypes, DnsOK
<1> QED
  BY <1>2, <1>3 DEF resolve_hostname

LEMMA ToIpType == ASSUME NEW a \in Int PROVE _to_ip(a) \in 0 .. Size - 1
<1>1. ASSUME NEW n \in Nat \ {0} PROVE a % n \in 0 .. n - 1
  BY <1>1, Z3
<1>2. Size \in Nat \ {0}
  BY ScopeAssumption
<1> QED
  BY <1>1, <1>2 DEF _to_ip

LEMMA LooksUpNames ==
    ASSUME ScopeTypes, policy.bound, NEW h \in Hosts, NEW g \in Hosts,
           NEW ns \in Lookups(h, derived_scope_roots({h, g}))
    PROVE  ns \subseteq Names
<1>1. PICK roots : roots = derived_scope_roots({h, g})
  OBVIOUS
<1>2. \A x \in {h, g} : x \in Values
  BY DEF Hosts, Values
<1>3. roots \subseteq Names
  BY <1>1, <1>2, NameOK DEF derived_scope_roots
<1>4. target.value \in Values
  BY DEF ScopeTypes
<1>5. target.value.kind # "range" => target.value.name \in Names
  BY <1>4, NameOK
<1>6. h.kind = "name" => h.name \in Names
  BY <1>2, NameOK
<1>7. ns \in Lookups(h, roots)
  BY <1>1
<1> QED
  BY <1>3, <1>5, <1>6, <1>7 DEF Lookups

LEMMA ScopeTypesStep == ScopeTypes /\ [ScopeNext]_scopeVars => ScopeTypes'
<1> SUFFICES ASSUME ScopeTypes, [ScopeNext]_scopeVars PROVE ScopeTypes'
  OBVIOUS
<1>n. NoPolicy.private = FALSE /\ NoPolicy.bound = FALSE /\ NoPolicy.dns = <<>>
  BY DEF NoPolicy
<1>1. ASSUME NEW v \in Values, NEW private \in BOOLEAN, CreateTarget(v, private) PROVE ScopeTypes'
  <2>1. target' = [value |-> v, private |-> private] /\ UNCHANGED <<site, dns, policy, cache, contacts>> /\ ~policy.bound
    BY <1>1 DEF CreateTarget
  <2>2. target'.value \in Values
    BY <2>1
  <2> QED
    BY <2>1, <2>2 DEF ScopeTypes, ScopeTypeOK
<1>2. CASE BeginScan
  <2>1. PICK p \in build_scan_network_policy(target) : policy' = p
    BY <1>2 DEF BeginScan
  <2>2. cache' = <<>> /\ contacts' = {} /\ UNCHANGED <<site, dns, target>> /\ target # NoTarget
    BY <1>2 DEF BeginScan
  <2>3. p = build_public_policy \/ (~SiteRefused(site) /\ p = build_private_policy(site))
    BY <2>1 DEF build_scan_network_policy
  <2>4. (p.private => p.bound /\ p.cidrs # {}) /\ Servers(p.dns, dns)
    BY <2>3 DEF build_public_policy, build_private_policy, NoPolicy, SiteRefused, ScopeTypes, Servers
  <2> QED
    BY <2>1, <2>2, <2>4 DEF ScopeTypes, ScopeTypeOK, Servers
<1>3. CASE EndScopedScan
  <2>1. policy' = NoPolicy /\ cache' = <<>> /\ contacts' = {} /\ UNCHANGED <<site, dns, target>>
    BY <1>3 DEF EndScopedScan
  <2> QED
    BY <1>n, <2>1 DEF ScopeTypes, ScopeTypeOK, Servers
<1>4. ASSUME NEW v \in Values, ResolveScanHost(v) PROVE ScopeTypes'
  <2>1. UNCHANGED <<site, dns, target, policy, cache>>
    BY <1>4 DEF ResolveScanHost
  <2>2. Size \in Nat
    BY ScopeAssumption
  <2>3. CASE v.kind = "range" /\ contacts' = contacts \cup {v.range}
    <3> DEFINE w == v.range
    <3>1. w \in Ranges
      BY <2>3, KindOK
    <3> HIDE DEF w
    <3>2. w[1] <= w[2] /\ w[2] < Size
      BY <2>2, <3>1, ScopeAssumption
    <3>3. contacts' = contacts \cup {w}
      BY <2>3 DEF w
    <3> QED
      BY <2>1, <3>2, <3>3 DEF ScopeTypes, ScopeTypeOK
  <2>4. ASSUME v.kind = "name", NEW a \in resolve_hostname(v.name, policy),
               contacts' = contacts \cup {<<_to_ip(a), _to_ip(a)>>}
        PROVE  ScopeTypes'
    <3> DEFINE w == <<_to_ip(a), _to_ip(a)>>
    <3>1. a \in Int
      BY <2>4, NameOK, ResolvedOK
    <3>2. w[1] <= w[2] /\ w[2] < Size
      BY <2>2, <3>1, ToIpType
    <3>3. contacts' = contacts \cup {w}
      BY <2>4
    <3> HIDE DEF w
    <3> QED
      BY <2>1, <3>2, <3>3 DEF ScopeTypes, ScopeTypeOK
  <2> QED
    BY <1>4, <2>3, <2>4 DEF ResolveScanHost
<1>5. ASSUME NEW h \in Hosts, NEW g \in Hosts, DecideScope(h, {h, g}) PROVE ScopeTypes'
  <2>1. UNCHANGED <<site, dns, target, policy, contacts>> /\ policy.bound
    BY <1>5 DEF DecideScope
  <2>2. PICK ns \in Lookups(h, derived_scope_roots({h, g})) : cache' = Remembered(ns)
    BY <1>5 DEF DecideScope
  <2>3. ns \subseteq Names
    BY <2>1, LooksUpNames
  <2>4. DOMAIN cache' = ns \cup DOMAIN cache
    BY <2>2 DEF Remembered
  <2>5. DOMAIN cache' \subseteq Names
    BY <2>3, <2>4 DEF ScopeTypes, ScopeTypeOK
  <2> QED
    BY <2>1, <2>5 DEF ScopeTypes, ScopeTypeOK
<1>6. ASSUME NEW r \in DOMAIN dns, NEW n \in Names, NEW a \in Answers, DnsChanges(r, n, a) PROVE ScopeTypes'
  <2>1. dns' = [dns EXCEPT ![r][n] = a] /\ UNCHANGED <<site, target, policy, cache, contacts>>
    BY <1>6 DEF DnsChanges
  <2>2. a \in SUBSET Int
    <3>1. Size \in Nat /\ a \subseteq 0 .. 2 * Size - 1
      BY ScopeAssumption
    <3> QED
      BY <3>1
  <2>3. DOMAIN dns' = DOMAIN dns
    BY <2>1 DEF ScopeTypes, DnsOK
  <2>4. [dns[r] EXCEPT ![n] = a] \in [Names -> SUBSET Int]
    BY <2>2 DEF ScopeTypes, DnsOK
  <2>5. DnsOK(dns')
    BY <2>1, <2>3, <2>4 DEF ScopeTypes, DnsOK
  <2>6. Servers(site.dns, dns') /\ Servers(policy.dns, dns')
    BY <2>3 DEF ScopeTypes, Servers
  <2> QED
    BY <2>1, <2>5, <2>6 DEF ScopeTypes, ScopeTypeOK
<1>7. ASSUME NEW st \in {"active", "suspended"}, NEW c \in SiteNets,
             SiteRowChanges([site EXCEPT !.status = st, !.cidrs = c])
      PROVE  ScopeTypes'
  <2>1. site' = [site EXCEPT !.status = st, !.cidrs = c] /\ UNCHANGED <<dns, target, policy, cache, contacts>>
    BY <1>7 DEF SiteRowChanges
  <2>2. DOMAIN site' = DOMAIN site /\ site'.dns = site.dns
    BY <2>1 DEF ScopeTypes
  <2> QED
    BY <2>1, <2>2 DEF ScopeTypes, ScopeTypeOK, Servers
<1>8. CASE UNCHANGED scopeVars
  BY <1>8 DEF scopeVars, ScopeTypes, ScopeTypeOK
<1> QED
  BY <1>1, <1>2, <1>3, <1>4, <1>5, <1>6, <1>7, <1>8 DEF ScopeNext

LEMMA ScopeTypesInit == ScopeInit => ScopeTypes
<1> SUFFICES ASSUME ScopeInit PROVE ScopeTypes
  OBVIOUS
<1>1. NoPolicy.private = FALSE /\ NoPolicy.bound = FALSE /\ NoPolicy.dns = <<>>
  BY DEF NoPolicy
<1>2. target = NoTarget /\ policy = NoPolicy /\ cache = <<>> /\ contacts = {}
  BY DEF ScopeInit
<1>3. DOMAIN site = {"workspace", "status", "cidrs", "dns"} /\ site.dns = <<"r">>
  BY DEF ScopeInit
<1>4. PICK open \in {{0}, {2}}, inner \in {{0}} :
         dns = [r \in {"public", "r"} |-> [n \in Names |-> IF r = "public" THEN open ELSE inner]]
  BY DEF ScopeInit
<1>5. open \in SUBSET Int /\ inner \in SUBSET Int
  BY <1>4
<1>6. DnsOK(dns) /\ "r" \in DOMAIN dns
  BY <1>4, <1>5 DEF DnsOK
<1>7. Servers(<<"r">>, dns) /\ Servers(<<>>, dns)
  BY <1>6 DEF Servers
<1> QED
  BY <1>1, <1>2, <1>3, <1>6, <1>7 DEF ScopeTypes, ScopeTypeOK

-----------------------------------------------------------------------------
(* The components side by side                                             *)

\* The directory the earlier successful run left, and the empty one.
LEMMA BackupLaterOK == BackupLater => BackupInv
<1> SUFFICES ASSUME BackupLater PROVE BackupInv
  OBVIOUS
<1>1. /\ NoFile \in Files /\ NoDir \in Dirs /\ 0 \in SetNames /\ MaxSecond \in SetNames
      /\ NoDir.manifest = "none" /\ ~NoDir.stamped /\ ~NoDir.shared
  BY BackupAssumption DEF NoFile, Files, NoDir, Dirs, SetNames, Parts
<1>2. NoRestore \in Restores /\ NoRestore.at = "idle"
  BY <1>1 DEF NoRestore, Restores
<1> DEFINE full == [NoFile EXCEPT !.data = "full", !.enc = config.encrypt]
           files == [c \in Parts |-> full]
           earlier == [NoDir EXCEPT !.exists = TRUE, !.file = files, !.sum = files,
                                    !.manifest = "completed", !.enc = config.encrypt, !.stamped = TRUE]
<1>3. PICK old \in {NoDir, earlier} : sets = [n \in SetNames |-> IF n = 0 THEN old ELSE NoDir]
  BY DEF BackupLater
<1>4. config \in Deployments /\ config.encrypt \in BOOLEAN
  BY BackupAssumption DEF BackupLater
<1>5. full \in Files /\ WholeFile(full) /\ full.enc = config.encrypt
  BY <1>4 DEF NoFile, Files, WholeFile
<1>6. files \in [Parts -> Files] /\ \A c \in Parts : files[c] = full
  BY <1>5
<1> HIDE DEF full, files
<1>7. /\ earlier \in Dirs /\ earlier.exists /\ earlier.file = files /\ earlier.sum = files
      /\ earlier.manifest = "completed" /\ earlier.errors = {} /\ earlier.enc = config.encrypt
  BY <1>1, <1>4, <1>6 DEF NoDir, Dirs
<1> HIDE DEF earlier
<1>8. SetOK(NoDir) /\ SetOK(earlier)
  BY <1>1, <1>5, <1>6, <1>7 DEF SetOK, Vouched, WholeFile
<1>9. BackupShape
  BY <1>1, <1>2, <1>3, <1>4, <1>7 DEF BackupLater, BackupShape
<1> QED
  BY <1>2, <1>3, <1>8, <1>9 DEF BackupLater, BackupInv, RestoreOK

\* Each component starts as its own specification says, or, retention and
\* backups, later in its life.
LEMMA PlatformStarts ==
    Init => /\ AlertsInit /\ AssetInit /\ CoverageInit /\ AccountInit /\ ScopeStart /\ LocationsInit
            /\ ReportingInit /\ RetentionInv /\ BackupInv
<1> SUFFICES ASSUME Init
             PROVE  /\ AlertsInit /\ AssetInit /\ CoverageInit /\ AccountInit /\ ScopeStart /\ LocationsInit
                    /\ ReportingInit /\ RetentionInv /\ BackupInv
  OBVIOUS
<1>1. AlertsInit /\ AssetInit /\ CoverageInit /\ AccountInit /\ ScopeStart /\ LocationsInit /\ ReportingInit
  BY DEF Init, ScopeInit, ScopeStart
<1>2. RetentionInv
  BY RetentionStarts DEF Init, RetentionLater, NothingKept
<1>3. BackupInv
  BY BackupStarts, BackupLaterOK DEF Init
<1> QED
  BY <1>1, <1>2, <1>3

\* A step of the composition is a step of each component, or leaves it alone.
LEMMA PlatformSteps ==
    [Next]_vars =>
      /\ [AlertsNext]_alertVars /\ [AssetNext]_assetVars /\ [CoverageNext]_coverageVars
      /\ [AccountNext]_accountVars /\ [ScopeNext]_scopeVars /\ [LocationsNext]_locationVars
      /\ [ReportingNext]_reportingVars
      /\ [RetentionNext]_retentionVars /\ [BackupNext]_backupVars
<1> SUFFICES ASSUME [Next]_vars
             PROVE  /\ [AlertsNext]_alertVars /\ [AssetNext]_assetVars /\ [CoverageNext]_coverageVars
                    /\ [AccountNext]_accountVars /\ [ScopeNext]_scopeVars /\ [LocationsNext]_locationVars
                    /\ [ReportingNext]_reportingVars
                    /\ [RetentionNext]_retentionVars /\ [BackupNext]_backupVars
  OBVIOUS
<1>1. [AlertsNext]_alertVars
  BY DEF Next, Still, vars
<1>2. [AssetNext]_assetVars
  BY DEF Next, Still, vars
<1>3. [CoverageNext]_coverageVars
  BY DEF Next, Still, vars
<1>4. [AccountNext]_accountVars
  BY DEF Next, Still, vars
<1>5. [ScopeNext]_scopeVars
  BY DEF Next, Still, vars
<1>6. [LocationsNext]_locationVars
  BY DEF Next, Still, vars
<1>7. [RetentionNext]_retentionVars
  BY DEF Next, Still, vars
<1>8. [BackupNext]_backupVars
  BY DEF Next, Still, vars
<1>9. [ReportingNext]_reportingVars
  BY DEF Next, Still, vars
<1> QED
  BY <1>1, <1>2, <1>3, <1>4, <1>5, <1>6, <1>7, <1>8, <1>9

\* What the component theorems say holds of the components side by side, in
\* every behaviour of the composed specification, from the later states of
\* retention and backups on.
THEOREM PlatformTheorem ==
    Spec => /\ [](OneAlertPerWindow /\ InferenceStaysMarked /\ StepsAreNewWork)
            /\ [](AccountsHold /\ ScopeHolds /\ OneFindingPerRequest /\ SurfacesAgree)
            /\ PurgeSpares /\ BackupsHold
<1>1. Spec => AlertsSpec /\ AssetSpec /\ CoverageSpec
  BY PlatformStarts, PlatformSteps, PTL DEF Spec, AlertsSpec, AssetSpec, CoverageSpec
<1>2. Spec => AccountSpec /\ ScopeSpec /\ LocationsSpec /\ ReportingSpec
  BY PlatformStarts, PlatformSteps, PTL DEF Spec, AccountSpec, ScopeSpec, LocationsSpec, ReportingSpec
<1>3. Spec => PurgeSpares
  BY PlatformStarts, PlatformSteps, RetentionStep, PurgeStepOK, PTL DEF Spec, PurgeSpares
<1>4. Spec => BackupsHold
  BY PlatformStarts, PlatformSteps, BackupStep, BackupStepOK, PTL DEF Spec, BackupsHold
<1> QED
  BY <1>1, <1>2, <1>3, <1>4, AlertTheorem, MarkedTheorem, NewWorkTheorem, AccountsTheorem,
     ScopeTheorem, LocationsTheorem, SurfacesTheorem, PTL

\* What the components' type invariants rest on, together.
PlatformTypes ==
    /\ part \in Components
    /\ RetentionInv /\ RetentionTypeOK /\ BackupInv /\ rotted \in 0 .. MaxRot
    /\ AccountInv /\ AccountTypes /\ MemberTypes /\ ProofTypes /\ AssetTypes /\ FindingsTypes
    /\ ScopeTypes /\ LocationTypes /\ AlertTypes /\ CoverageInv /\ CoverageTypes

\* It holds in every initial state, the later ones of retention, backups and
\* findings included.
LEMMA PlatformTypesInit == Init => PlatformTypes
<1> SUFFICES ASSUME Init PROVE PlatformTypes
  OBVIOUS
<1>1. part \in Components
  BY DEF Init
<1>2. RetentionInv /\ BackupInv /\ AccountInit /\ AssetInit /\ LocationsInit /\ AlertsInit /\ CoverageInit
  BY PlatformStarts
<1>3. RetentionTypeOK
  <2>1. RetentionLater /\ 0 \in 0 .. MaxNow
    BY RetentionAssumption DEF Init
  <2>2. NoReport \in [st : {"absent", "present", "purged"}, ts : 0 .. MaxNow, cites : SUBSET ScanIds, flagged : BOOLEAN]
    BY <2>1 DEF NoReport
  <2> QED
    BY <2>1, <2>2 DEF RetentionLater, RetentionTypeOK
<1>4. rotted \in 0 .. MaxRot
  <2>1. rotted = 0
    BY DEF Init, BackupLater, BackupInit
  <2> QED
    BY <2>1, BackupAssumption
<1>5. AccountInv /\ AccountTypes
  BY <1>2, AccountStarts, AccountTypesInit
<1>6. MemberTypes /\ ProofTypes
  BY AccessTyped DEF Init
<1>7. AssetTypes /\ LocationTypes /\ AlertTypes /\ CoverageInv /\ CoverageTypes
  BY <1>2, AssetTyped, LocationsTyped, AlertsTyped, CoverageTyped, CoverageStarts
<1>8. FindingsTypes
  BY FindingsTypesInit DEF Init
<1>9. ScopeTypes
  BY ScopeTypesInit DEF Init
<1> QED
  BY <1>1, <1>2, <1>3, <1>4, <1>5, <1>6, <1>7, <1>8, <1>9 DEF PlatformTypes

\* Members, proofs and findings move alone, too.
LEMMA OtherSteps ==
    [Next]_vars => [MemberNext]_memberVars /\ [ProofNext]_proofVars /\ [FindingsAlone]_findingVars /\ part' = part
<1> SUFFICES ASSUME [Next]_vars
             PROVE  [MemberNext]_memberVars /\ [ProofNext]_proofVars /\ [FindingsAlone]_findingVars /\ part' = part
  OBVIOUS
<1>1. [MemberNext]_memberVars
  BY DEF Next, Still, vars, accessVars
<1>2. [ProofNext]_proofVars
  BY DEF Next, Still, vars, accessVars
<1>3. [FindingsAlone]_findingVars
  BY DEF Next, Still, vars
<1>4. part' = part
  BY DEF Next, Still, vars
<1> QED
  BY <1>1, <1>2, <1>3, <1>4

\* Every step keeps it.
LEMMA PlatformTypesStep == PlatformTypes /\ [Next]_vars => PlatformTypes'
<1> SUFFICES ASSUME PlatformTypes, [Next]_vars PROVE PlatformTypes'
  OBVIOUS
<1>1. (RetentionInv /\ RetentionTypeOK /\ BackupInv /\ rotted \in 0 .. MaxRot)'
  BY PlatformSteps, RetentionStep, RetentionTyped, BackupStep, BackupTyped DEF PlatformTypes
<1>2. (AccountInv /\ AccountTypes /\ MemberTypes /\ ProofTypes)'
  BY PlatformSteps, OtherSteps, AccountStep, AccountTypesStep, MemberTypesStep, ProofTypesStep DEF PlatformTypes
<1>3. (AssetTypes /\ FindingsTypes /\ ScopeTypes /\ LocationTypes /\ AlertTypes)'
  BY PlatformSteps, OtherSteps, AssetTypesStep, FindingsTypesStep, ScopeTypesStep, LocationTypesStep,
     AlertTypesStep DEF PlatformTypes
<1>4. (CoverageInv /\ CoverageTypes)'
  BY PlatformSteps, CoverageStep, CoverageTypesStep DEF PlatformTypes
<1>5. part' \in Components
  BY OtherSteps DEF PlatformTypes
<1> QED
  BY <1>1, <1>2, <1>3, <1>4, <1>5 DEF PlatformTypes

\* Whichever component moves, its state is well typed.
LEMMA PlatformTyped == PlatformTypes /\ ReportingTypeOK => TypeOK
<1> SUFFICES ASSUME PlatformTypes, ReportingTypeOK PROVE TypeOK
  OBVIOUS
<1>1. RetentionTypeOK /\ BackupTypeOK /\ AccountTypeOK /\ AccessTypeOK
  BY BackupShapeTyped, AccessTyped DEF PlatformTypes, AccountTypes
<1>2. AssetTypeOK /\ LocationsTypeOK /\ AlertsTypeOK /\ CoverageTypeOK
  BY AssetTyped, LocationsTyped, AlertsTyped, CoverageTyped DEF PlatformTypes
<1>3. FindingsTypeOK
  BY DEF PlatformTypes, FindingsTypes, FindingsTypeOK, TxOK, PendOK
<1>4. ScopeTypeOK
  BY DEF PlatformTypes, ScopeTypes
<1>5. part \in {"retention", "backup", "accounts", "members", "proofs", "assets", "findings",
                "scope", "locations", "alerts", "reporting", "coverage"}
  BY PlatformAssumption DEF PlatformTypes
<1> QED
  BY <1>1, <1>2, <1>3, <1>4, <1>5 DEF TypeOK

\* The state of the component a behaviour exercises stays well typed, whatever
\* it does and whatever the constants are.
THEOREM PlatformTypeTheorem == Spec => []TypeOK
<1>1. Spec => ReportingSpec
  BY PlatformStarts, PlatformSteps, PTL DEF Spec, ReportingSpec
<1> QED
  BY <1>1, SurfacesTheorem, PlatformTypesInit, PlatformTypesStep, PlatformTyped, PTL DEF Spec
=============================================================================
