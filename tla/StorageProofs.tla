---------------------------- MODULE StorageProofs ----------------------------
(***************************************************************************)
(* Theorems about what is kept and what is deleted: backup sets, and the   *)
(* history the retention purge takes away.  Each is about the              *)
(* specification of one component, for every value of the constants.       *)
(***************************************************************************)
EXTENDS Retention, Backup, FiniteSetTheorems, WellFoundedInduction, TLAPS

-----------------------------------------------------------------------------
(* Retention                                                               *)

RetentionSpec == RetentionInit /\ [][RetentionNext]_retentionVars

\* The rows of a table that are newer than one of them.
Above(ts, i) == {j \in DOMAIN ts : Newer(ts, j, i)}

LEMMA RankedIs == ASSUME NEW ts PROVE Ranked(ts) = {i \in DOMAIN ts : Cardinality(Above(ts, i)) >= MinKeep}
  BY DEF Ranked, Above

\* The rank argument: of the rows newer than one that may go, min_keep may not.
\* If fewer than that were out of reach, the newest row within reach among them
\* would have fewer than min_keep rows above it.
LEMMA KeptAbove ==
    ASSUME NEW S \in SUBSET Nat, IsFiniteSet(S), NEW ts \in [S -> Nat], NEW i \in Ranked(ts)
    PROVE  MinKeep <= Cardinality(Above(ts, i) \ Ranked(ts))
<1> DEFINE T == Above(ts, i) \ Ranked(ts)
           U == Above(ts, i) \cap Ranked(ts)
           rank(u) == Cardinality(Above(ts, u))
<1>0. DOMAIN ts = S /\ i \in S /\ MinKeep \in Nat /\ rank(i) >= MinKeep
  BY RankedIs, RetentionAssumption
<1>1. \A u \in S : Above(ts, u) \subseteq S /\ IsFiniteSet(Above(ts, u)) /\ rank(u) \in Nat
  <2> SUFFICES ASSUME NEW u \in S
               PROVE  Above(ts, u) \subseteq S /\ IsFiniteSet(Above(ts, u)) /\ rank(u) \in Nat
    OBVIOUS
  <2>1. Above(ts, u) \subseteq S
    BY <1>0 DEF Above
  <2> QED
    BY <2>1, FS_Subset, FS_CardinalityType
<1>2. IsFiniteSet(T) /\ Cardinality(T) \in Nat
  BY <1>0, <1>1, FS_Subset, FS_CardinalityType
<1>3. \A u, v \in S : Newer(ts, v, u) => Above(ts, v) \subseteq Above(ts, u) /\ v \notin Above(ts, v)
  <2> SUFFICES ASSUME NEW u \in S, NEW v \in S, Newer(ts, v, u)
               PROVE  Above(ts, v) \subseteq Above(ts, u) /\ v \notin Above(ts, v)
    OBVIOUS
  <2>1. ts[u] \in Nat /\ ts[v] \in Nat /\ u \in Nat /\ v \in Nat
    OBVIOUS
  <2>2. ASSUME NEW j \in S, Newer(ts, j, v) PROVE Newer(ts, j, u)
    <3>1. ts[j] \in Nat /\ j \in Nat
      OBVIOUS
    <3> QED
      BY <2>1, <2>2, <3>1 DEF Newer
  <2>3. ~Newer(ts, v, v)
    BY <2>1 DEF Newer
  <2> QED
    BY <1>0, <2>2, <2>3 DEF Above
<1> SUFFICES ASSUME Cardinality(T) < MinKeep PROVE FALSE
  BY <1>0, <1>2
<1>4. U # {}
  <2>1. CASE U = {}
    <3>1. Above(ts, i) = T
      BY <2>1
    <3> QED
      BY <3>1, <1>0, <1>1, <1>2
  <2> QED
    BY <2>1
<1>5. PICK u \in U : \A v \in U : ~(Above(ts, v) \subseteq Above(ts, u) /\ Above(ts, v) # Above(ts, u))
  <2> DEFINE W == {Above(ts, v) : v \in U}
             R == StrictSubsetOrdering(S)
  <2>1. W \subseteq SUBSET S /\ W # {}
    BY <1>0, <1>1, <1>4
  <2>2. IsWellFoundedOn(R, SUBSET S)
    <3>1. IsWellFoundedOn(R, FiniteSubsetsOf(S))
      BY FS_StrictSubsetOrderingWellFounded
    <3>2. FiniteSubsetsOf(S) = SUBSET S
      BY FS_FiniteSubsetsOfFinite
    <3> QED
      BY <3>1, <3>2
  <2> HIDE DEF R, W
  <2>3. PICK X \in W : \A Y \in W : ~(<<Y, X>> \in R)
    BY <2>1, <2>2, WFMin
  <2>4. \A Y \in W : ~(Y \subseteq X /\ Y # X)
    BY <2>1, <2>3 DEF R, StrictSubsetOrdering
  <2> QED
    BY <2>4 DEF W
<1>6. u \in S /\ Newer(ts, u, i) /\ rank(u) >= MinKeep
  BY <1>0, <1>5, RankedIs DEF Above
<1>7. ASSUME NEW v \in Above(ts, u), v \in U PROVE FALSE
  <2>1. v \in S /\ Newer(ts, v, u)
    BY <1>0, <1>7 DEF Above
  <2>2. Above(ts, v) \subseteq Above(ts, u) /\ v \notin Above(ts, v)
    BY <2>1, <1>3, <1>6
  <2> QED
    BY <2>2, <1>5, <1>7
<1>8. Above(ts, u) \subseteq T
  BY <1>0, <1>3, <1>6, <1>7
<1>9. rank(u) <= Cardinality(T)
  BY <1>8, <1>2, FS_Subset
<1> QED
  BY <1>0, <1>1, <1>2, <1>6, <1>9

ReportRows == [st : {"absent", "present", "purged"}, ts : Nat, cites : SUBSET ScanIds, flagged : BOOLEAN]
AuditEvents == [by : Purges, what : {"report", "scan"}, ts : Nat]
Sessions == [at : {"report", "scan", "audit", "cleanup"}, from : Nat, reports : SUBSET ReportIds,
             scans : SUBSET ScanIds, flags : SUBSET ReportIds, wrote : SUBSET AuditEvents]
Requests == [at : {"render", "commit"}, id : Nat, cites : SUBSET ScanIds]

RetentionShape ==
    /\ clock \in Nat
    /\ report \in [ReportIds -> ReportRows]
    /\ purge \in [Purges -> {Resting} \cup Sessions]
    /\ writer \in [Writers -> {Resting} \cup Requests]

Listed == {r \in ReportIds : report[r].st = "present"}

\* The reports a purge has deleted and not yet committed.
Doomed(p) == IF purge[p] # Resting /\ purge[p].at \in {"scan", "audit"} THEN purge[p].reports ELSE {}
Survivors == Listed \ UNION {Doomed(p) : p \in Purges}
Later(q, r) == report[q].ts > report[r].ts \/ (report[q].ts = report[r].ts /\ q > r)
SurvivorsAbove(r) == {q \in Survivors : Later(q, r)}

\* A session and the rows it has deleted, marked or already committed.
SessionOK(p) ==
    purge[p] # Resting =>
        /\ purge[p].from <= clock
        /\ purge[p].at = "report" => purge[p].wrote = {}
        /\ \A e \in purge[p].wrote : purge[p].from <= e.ts
        /\ purge[p].at = "cleanup" => \A r \in purge[p].reports : report[r].st = "purged"
        /\ \A r \in Doomed(p) : r \in Listed /\ report[r].ts + Days["report"] < clock

\* A request about to commit has its PDF in the store and its row to itself.
RequestOK(w) ==
    writer[w] # Resting /\ writer[w].at = "commit" =>
        /\ writer[w].id \in ReportIds \cap objects
        /\ report[writer[w].id].st = "absent"

RequestsApart ==
    \A v, w \in Writers :
        /\ writer[v] # Resting /\ writer[v].at = "commit"
        /\ writer[w] # Resting /\ writer[w].at = "commit"
        /\ writer[v].id = writer[w].id
        => v = w

\* Every row about to go has min_keep newer rows that no session is taking.
KeptBehind ==
    \A p \in Purges : \A r \in Doomed(p) : MinKeep <= Cardinality(SurvivorsAbove(r))

RetentionInv ==
    /\ RetentionShape
    /\ \A p \in Purges : SessionOK(p)
    /\ \A p, q \in Purges : p # q => Doomed(p) \cap Doomed(q) = {}
    /\ \A w \in Writers : RequestOK(w)
    /\ RequestsApart
    /\ ListedIsStored
    /\ KeptBehind

LEMMA EnoughAbove ==
    ASSUME NEW A, NEW B \in SUBSET ReportIds, A \subseteq B, MinKeep <= Cardinality(A)
    PROVE  MinKeep <= Cardinality(B)
<1>1. 1 \in Int /\ MaxReport \in Int /\ MinKeep \in Nat
  BY RetentionAssumption
<1>2. IsFiniteSet(ReportIds)
  BY <1>1, FS_Interval DEF ReportIds
<1>3. IsFiniteSet(B) /\ IsFiniteSet(A) /\ Cardinality(A) <= Cardinality(B)
  BY <1>2, FS_Subset
<1>4. Cardinality(A) \in Nat /\ Cardinality(B) \in Nat
  BY <1>3, FS_CardinalityType
<1> QED
  BY <1>1, <1>3, <1>4

LEMMA DoomedListed ==
    ASSUME RetentionInv, NEW p \in Purges
    PROVE  /\ Doomed(p) \subseteq Listed
           /\ Doomed(p) \subseteq ReportIds
  BY DEF RetentionInv, SessionOK, Doomed, Listed

\* Nothing more is doomed and nothing that survived is gone.
LEMMA KeptMove ==
    ASSUME RetentionInv, \A p \in Purges : Doomed(p)' \subseteq Doomed(p),
           Survivors \subseteq Survivors', \A r \in Listed : report'[r].ts = report[r].ts
    PROVE  KeptBehind'
<1> SUFFICES ASSUME NEW p \in Purges, NEW r \in Doomed(p)'
             PROVE  MinKeep <= Cardinality(SurvivorsAbove(r))'
  BY DEF KeptBehind
<1>1. r \in Doomed(p) /\ r \in Listed
  BY DoomedListed
<1>2. MinKeep <= Cardinality(SurvivorsAbove(r))
  BY <1>1 DEF RetentionInv, KeptBehind
<1>3. SurvivorsAbove(r) \subseteq SurvivorsAbove(r)'
  BY <1>1 DEF SurvivorsAbove, Survivors, Later
<1>4. SurvivorsAbove(r)' \subseteq ReportIds
  BY DEF SurvivorsAbove, Survivors, Listed
<1>5. PICK A : A = SurvivorsAbove(r)
  OBVIOUS
<1>6. PICK B : B = SurvivorsAbove(r)'
  OBVIOUS
<1>7. MinKeep <= Cardinality(B)
  BY <1>2, <1>3, <1>4, <1>5, <1>6, EnoughAbove
<1> QED
  BY <1>6, <1>7

\* The reports a purge deletes are old enough and have min_keep rows above
\* them that neither it nor any other purge is taking.
LEMMA SelectsBehind ==
    ASSUME RetentionInv, NEW p \in Purges, PurgeReports(p)
    PROVE  LET ids == select_eligible(ReportTimes, _cutoff(purge[p].from, "report")) IN
           /\ ids \subseteq Listed
           /\ \A r \in ids : report[r].ts + Days["report"] < clock
           /\ \A r \in ids \cup UNION {Doomed(q) : q \in Purges} :
                 MinKeep <= Cardinality({k \in Survivors \ ids : Later(k, r)})
<1> DEFINE ts == ReportTimes
           cutoff == _cutoff(purge[p].from, "report")
           ids == select_eligible(ts, cutoff)
<1>1. Listed \in SUBSET Nat /\ IsFiniteSet(Listed) /\ ts \in [Listed -> Nat] /\ Listed \subseteq ReportIds
  <2>1. 1 \in Int /\ MaxReport \in Int
    BY RetentionAssumption
  <2>2. IsFiniteSet(ReportIds) /\ ReportIds \subseteq Nat
    BY <2>1, FS_Interval DEF ReportIds
  <2>3. Listed \subseteq ReportIds
    BY DEF Listed
  <2>4. IsFiniteSet(Listed)
    BY <2>2, <2>3, FS_Subset
  <2>5. ts \in [Listed -> Nat]
    BY DEF ReportTimes, Listed, RetentionInv, RetentionShape, ReportRows
  <2> QED
    BY <2>2, <2>3, <2>4, <2>5
<1>2. \A r \in Listed : ts[r] = report[r].ts
  BY DEF ReportTimes, Listed
<1>3. \A q, r \in Listed : Newer(ts, q, r) <=> Later(q, r)
  BY <1>2 DEF Newer, Later
<1> HIDE DEF ts
<1>4. ids \subseteq Ranked(ts) /\ Ranked(ts) \subseteq Listed /\ \A r \in ids : ts[r] < cutoff
  BY <1>1 DEF select_eligible, eligible, Ranked
<1>5. ASSUME NEW r \in ids PROVE report[r].ts + Days["report"] < clock
  <2>1. /\ purge[p].from \in Nat /\ purge[p].from <= clock /\ clock \in Nat
        /\ Days["report"] \in Nat /\ report[r].ts \in Nat
    BY <1>4, RetentionAssumption
    DEF RetentionInv, SessionOK, RetentionShape, Sessions, PurgeReports, Listed, ReportRows
  <2>2. report[r].ts < cutoff
    BY <1>2, <1>4
  <2> QED
    BY <2>1, <2>2 DEF _cutoff
<1>6. ASSUME NEW q \in Purges PROVE Doomed(q) \subseteq Ranked(ts)
  <2> SUFFICES ASSUME NEW r \in Doomed(q) PROVE r \in Ranked(ts)
    OBVIOUS
  <2>1. r \in Listed /\ MinKeep <= Cardinality(SurvivorsAbove(r))
    BY DoomedListed DEF RetentionInv, KeptBehind
  <2>2. SurvivorsAbove(r) \subseteq Above(ts, r) /\ Above(ts, r) \subseteq ReportIds
    BY <1>1, <1>3, <2>1 DEF SurvivorsAbove, Survivors, Above
  <2>3. MinKeep <= Cardinality(Above(ts, r))
    BY <2>1, <2>2, EnoughAbove
  <2>4. IsFiniteSet(Above(ts, r))
    BY <1>1, <2>2, FS_Subset DEF Above
  <2>5. Cardinality(Above(ts, r)) >= MinKeep
    BY <2>3, <2>4, FS_CardinalityType, RetentionAssumption
  <2> QED
    BY <1>1, <2>1, <2>5, RankedIs
<1>7. ASSUME NEW r \in ids \cup UNION {Doomed(q) : q \in Purges}
      PROVE  MinKeep <= Cardinality({k \in Survivors \ ids : Later(k, r)})
  <2>1. r \in Ranked(ts) /\ r \in Listed
    BY <1>4, <1>6
  <2>2. MinKeep <= Cardinality(Above(ts, r) \ Ranked(ts))
    BY <1>1, <2>1, KeptAbove
  <2>3. Above(ts, r) \ Ranked(ts) \subseteq {k \in Survivors \ ids : Later(k, r)}
    BY <1>1, <1>3, <1>4, <1>6, <2>1 DEF Above, Survivors
  <2>4. {k \in Survivors \ ids : Later(k, r)} \subseteq ReportIds
    BY <1>1 DEF Survivors
  <2> QED
    BY <2>2, <2>3, <2>4, EnoughAbove
<1> QED
  BY <1>4, <1>5, <1>7 DEF ts

\* A purge whose record changes to x while the tables stay as they are, with
\* the same rows doomed or none.
LEMMA SessionMoves ==
    ASSUME RetentionInv, NEW p \in Purges, NEW x \in {Resting} \cup Sessions,
           purge' = [purge EXCEPT ![p] = x],
           x # Resting =>
               /\ x.from <= clock
               /\ x.at = "report" => x.wrote = {}
               /\ \A e \in x.wrote : x.from <= e.ts
               /\ x.at = "cleanup" => \A r \in x.reports : report[r].st = "purged"
               /\ x.at \in {"scan", "audit"} => x.reports \subseteq Doomed(p),
           clock' = clock, report' = report, writer' = writer,
           objects' \subseteq objects, Listed \subseteq objects',
           \A w \in Writers : writer[w] # Resting /\ writer[w].at = "commit" => writer[w].id \in objects'
    PROVE  RetentionInv'
<1>1. RetentionShape'
  BY DEF RetentionInv, RetentionShape
<1>2. \A q \in Purges : purge'[q] = IF q = p THEN x ELSE purge[q]
  BY DEF RetentionInv, RetentionShape
<1>3. \A q \in Purges : Doomed(q)' \subseteq Doomed(q) /\ (q # p => Doomed(q)' = Doomed(q))
  BY <1>2 DEF Doomed
<1>4. Listed' = Listed
  BY DEF Listed
<1>5. ASSUME NEW q \in Purges PROVE SessionOK(q)'
  <2>1. SessionOK(q)
    BY DEF RetentionInv
  <2>2. \A r \in Doomed(q)' : r \in Listed' /\ report'[r].ts + Days["report"] < clock'
    BY <1>3, <1>4, <2>1 DEF SessionOK, Doomed
  <2>3. CASE q = p
    BY <1>2, <2>2, <2>3 DEF SessionOK
  <2>4. CASE q # p
    BY <1>2, <2>1, <2>2, <2>4 DEF SessionOK
  <2> QED
    BY <2>3, <2>4
<1>6. \A q1, q2 \in Purges : q1 # q2 => Doomed(q1)' \cap Doomed(q2)' = {}
  BY <1>3 DEF RetentionInv
<1>7. (\A w \in Writers : RequestOK(w))' /\ RequestsApart'
  BY DEF RetentionInv, RequestOK, RequestsApart
<1>8. ListedIsStored'
  BY DEF ListedIsStored, Listed
<1>9. Survivors \subseteq Survivors'
  BY <1>3, <1>4 DEF Survivors
<1>10. KeptBehind'
  BY <1>3, <1>9, KeptMove
<1> QED
  BY <1>1, <1>5, <1>6, <1>7, <1>8, <1>10 DEF RetentionInv

LEMMA ListedStored ==
    ASSUME RetentionInv
    PROVE  /\ Listed \subseteq objects
           /\ \A w \in Writers : writer[w] # Resting /\ writer[w].at = "commit" => writer[w].id \in objects
  BY DEF RetentionInv, ListedIsStored, Listed, RequestOK

LEMMA WroteOK ==
    ASSUME RetentionInv, NEW p \in Purges, purge[p] # Resting, NEW what \in {"report", "scan"}, NEW ids
    PROVE  LET wrote == purge[p].wrote \cup Wrote(p, what, ids) IN
           wrote \subseteq AuditEvents /\ \A e \in wrote : purge[p].from <= e.ts
<1>1. purge[p] \in Sessions /\ purge[p].from <= clock /\ \A e \in purge[p].wrote : purge[p].from <= e.ts
  BY DEF RetentionInv, RetentionShape, SessionOK
<1>2. purge[p].wrote \subseteq AuditEvents
  BY <1>1 DEF Sessions
<1>3. Event(p, what) \in AuditEvents /\ Event(p, what).ts = clock
  BY DEF Event, AuditEvents, RetentionInv, RetentionShape
<1> HIDE DEF RetentionInv
<1> QED
  BY <1>1, <1>2, <1>3 DEF Wrote

LEMMA PurgeMovesOK ==
    ASSUME RetentionInv, NEW p \in Purges,
           PurgeStart(p) \/ PurgeScans(p) \/ PurgeFails(p) \/ PurgeCleanup(p)
    PROVE  RetentionInv'
<1>s. purge[p] # Resting => purge[p] \in Sessions /\ SessionOK(p)
  BY DEF RetentionInv, RetentionShape
<1>1. CASE PurgeStart(p)
  <2> DEFINE x == [at |-> "report", from |-> clock, reports |-> {}, scans |-> {}, flags |-> {}, wrote |-> {}]
  <2>1. x \in Sessions /\ x.from <= clock /\ x.at = "report" /\ x.wrote = {}
    BY DEF Sessions, RetentionInv, RetentionShape
  <2> HIDE DEF x
  <2>2. purge' = [purge EXCEPT ![p] = x] /\ clock' = clock /\ report' = report
        /\ writer' = writer /\ objects' = objects
    BY <1>1 DEF PurgeStart, x
  <2> QED
    BY <2>1, <2>2, ListedStored, SessionMoves
<1>2. CASE PurgeScans(p)
  <2> DEFINE ids == select_eligible(ScanTimes, _cutoff(purge[p].from, "scan"))
             wrote == purge[p].wrote \cup Wrote(p, "scan", ids)
             flags == mark_reports(p, ids)
             x == [at |-> "audit", from |-> purge[p].from, reports |-> purge[p].reports,
                   scans |-> ids, flags |-> flags, wrote |-> wrote]
  <2>1. purge[p] \in Sessions /\ purge[p] # Resting /\ purge[p].at = "scan" /\ purge[p].from <= clock
    BY <1>2, <1>s DEF PurgeScans, SessionOK
  <2>2. ids \subseteq ScanIds
    BY DEF select_eligible, eligible, Ranked, ScanTimes
  <2>3. flags \subseteq ReportIds
    BY DEF mark_reports
  <2>4. wrote \subseteq AuditEvents /\ \A e \in wrote : purge[p].from <= e.ts
    BY <2>1, WroteOK
  <2>5. purge' = [purge EXCEPT ![p] = [purge[p] EXCEPT !.at = "audit", !.scans = ids,
                                          !.flags = flags, !.wrote = wrote]]
    BY <1>2 DEF PurgeScans, RetentionInv, RetentionShape
  <2>6. Doomed(p) = purge[p].reports
    BY <2>1 DEF Doomed
  <2> HIDE DEF ids, wrote, flags
  <2>7. [purge[p] EXCEPT !.at = "audit", !.scans = ids, !.flags = flags, !.wrote = wrote] = x
    <3> DEFINE y == purge[p]
               a == [y EXCEPT !.at = "audit"]
               b == [a EXCEPT !.scans = ids]
               c == [b EXCEPT !.flags = flags]
    <3>1. a \in Sessions /\ a.at = "audit" /\ a.from = y.from /\ a.reports = y.reports
      BY <2>1 DEF Sessions
    <3> HIDE DEF a
    <3>2. /\ b \in Sessions /\ b.at = "audit" /\ b.from = y.from /\ b.reports = y.reports
          /\ b.scans = ids
      BY <2>2, <3>1 DEF Sessions
    <3> HIDE DEF b
    <3>3. /\ c \in Sessions /\ c.at = "audit" /\ c.from = y.from /\ c.reports = y.reports
          /\ c.scans = ids /\ c.flags = flags
      BY <2>3, <3>2 DEF Sessions
    <3> HIDE DEF c
    <3>4. [c EXCEPT !.wrote = wrote] = x
      BY <3>3 DEF Sessions
    <3> QED
      BY <3>4 DEF a, b, c
  <2>8. /\ x \in Sessions /\ x.from = purge[p].from /\ x.at = "audit" /\ x.wrote = wrote
        /\ x.reports = purge[p].reports
    BY <2>1, <2>2, <2>3, <2>4 DEF Sessions
  <2> HIDE DEF x
  <2>9. clock' = clock /\ report' = report /\ writer' = writer /\ objects' = objects
    BY <1>2 DEF PurgeScans
  <2> QED
    BY <2>1, <2>4, <2>5, <2>6, <2>7, <2>8, <2>9, ListedStored, SessionMoves
<1>3. CASE PurgeFails(p)
  BY <1>3, ListedStored, SessionMoves DEF PurgeFails
<1>4. CASE PurgeCleanup(p)
  <2>1. purge[p] # Resting /\ \A r \in purge[p].reports : report[r].st = "purged"
    BY <1>4, <1>s DEF PurgeCleanup, SessionOK
  <2>2. objects' \subseteq objects /\ \A r \in objects : r \notin purge[p].reports => r \in objects'
    BY <1>4 DEF PurgeCleanup
  <2>3. Listed \subseteq objects'
    BY <2>1, <2>2, ListedStored DEF Listed
  <2>4. \A w \in Writers : writer[w] # Resting /\ writer[w].at = "commit" => writer[w].id \in objects'
    BY <2>1, <2>2 DEF RetentionInv, RequestOK
  <2> QED
    BY <1>4, <2>2, <2>3, <2>4, SessionMoves DEF PurgeCleanup
<1> QED
  BY <1>1, <1>2, <1>3, <1>4

LEMMA PurgeReportsOK ==
    ASSUME RetentionInv, NEW p \in Purges, PurgeReports(p)
    PROVE  RetentionInv'
<1> DEFINE ids == select_eligible(ReportTimes, _cutoff(purge[p].from, "report"))
           wrote == purge[p].wrote \cup Wrote(p, "report", ids)
           x == [at |-> "scan", from |-> purge[p].from, reports |-> ids,
                 scans |-> purge[p].scans, flags |-> purge[p].flags, wrote |-> wrote]
<1>1. /\ purge[p] \in Sessions /\ purge[p] # Resting /\ purge[p].at = "report"
      /\ purge[p].from <= clock
  BY DEF PurgeReports, RetentionInv, RetentionShape, SessionOK
<1>2. /\ ids \subseteq Listed
      /\ \A r \in ids : report[r].ts + Days["report"] < clock
      /\ \A r \in ids \cup UNION {Doomed(q) : q \in Purges} :
            MinKeep <= Cardinality({k \in Survivors \ ids : Later(k, r)})
  BY SelectsBehind
<1>3. wrote \subseteq AuditEvents /\ \A e \in wrote : purge[p].from <= e.ts
  BY <1>1, WroteOK
<1>4. purge' = [purge EXCEPT ![p] = [purge[p] EXCEPT !.at = "scan", !.reports = ids, !.wrote = wrote]]
  BY DEF PurgeReports, RetentionInv, RetentionShape
<1>5. \A q \in Purges \ {p} : purge[q] # Resting => ids \cap purge[q].reports = {}
  BY DEF PurgeReports, Unlocked
<1> HIDE DEF ids, wrote
<1>6. [purge[p] EXCEPT !.at = "scan", !.reports = ids, !.wrote = wrote] = x
  <2> DEFINE y == purge[p]
             a == [y EXCEPT !.at = "scan"]
             b == [a EXCEPT !.reports = ids]
  <2>1. a \in Sessions /\ a.at = "scan" /\ a.from = y.from /\ a.scans = y.scans /\ a.flags = y.flags
    BY <1>1 DEF Sessions
  <2> HIDE DEF a
  <2>2. /\ b \in Sessions /\ b.at = "scan" /\ b.from = y.from /\ b.scans = y.scans
        /\ b.flags = y.flags /\ b.reports = ids
    BY <1>2, <2>1 DEF Sessions, Listed
  <2> HIDE DEF b
  <2>3. [b EXCEPT !.wrote = wrote] = x
    BY <2>2 DEF Sessions
  <2> QED
    BY <2>3 DEF a, b
<1>7. /\ x \in Sessions /\ x.from = purge[p].from /\ x.at = "scan" /\ x.wrote = wrote
      /\ x.reports = ids
  BY <1>1, <1>2, <1>3 DEF Sessions, Listed
<1>8. x # Resting
  BY <1>7 DEF Resting
<1> HIDE DEF x
<1>9. clock' = clock /\ report' = report /\ writer' = writer /\ objects' = objects
  BY DEF PurgeReports
<1>10. RetentionShape'
  BY <1>4, <1>6, <1>7, <1>9 DEF RetentionInv, RetentionShape
<1>11. \A q \in Purges : purge'[q] = IF q = p THEN x ELSE purge[q]
  BY <1>4, <1>6 DEF RetentionInv, RetentionShape
<1>12. \A q \in Purges : Doomed(q)' = IF q = p THEN ids ELSE Doomed(q)
  BY <1>7, <1>8, <1>11 DEF Doomed
<1>13. Doomed(p) = {}
  BY <1>1 DEF Doomed
<1>14. Listed' = Listed /\ Survivors' = Survivors \ ids
  <2>1. Listed' = Listed
    BY <1>9 DEF Listed
  <2>2. UNION {Doomed(q)' : q \in Purges} = ids \cup UNION {Doomed(q) : q \in Purges}
    BY <1>12, <1>13
  <2> QED
    BY <2>1, <2>2 DEF Survivors
<1>15. ASSUME NEW q \in Purges PROVE SessionOK(q)'
  <2>1. CASE q = p
    <3>1. \A r \in Doomed(p)' : r \in Listed' /\ report'[r].ts + Days["report"] < clock'
      BY <1>2, <1>9, <1>12, <1>14
    <3> QED
      BY <2>1, <3>1, <1>1, <1>3, <1>7, <1>9, <1>11 DEF SessionOK
  <2>2. CASE q # p
    <3>1. SessionOK(q) /\ Doomed(q)' = Doomed(q) /\ purge'[q] = purge[q]
      BY <2>2, <1>11, <1>12 DEF RetentionInv
    <3> QED
      BY <3>1, <1>9, <1>14 DEF SessionOK
  <2> QED
    BY <2>1, <2>2
<1>16. ASSUME NEW q \in Purges \ {p} PROVE ids \cap Doomed(q) = {}
  BY <1>5 DEF Doomed
<1>17. \A q1, q2 \in Purges : q1 # q2 => Doomed(q1)' \cap Doomed(q2)' = {}
  BY <1>12, <1>16 DEF RetentionInv
<1>18. (\A w \in Writers : RequestOK(w))' /\ RequestsApart' /\ ListedIsStored'
  BY <1>9 DEF RetentionInv, RequestOK, RequestsApart, ListedIsStored
<1>19. KeptBehind'
  <2> SUFFICES ASSUME NEW q \in Purges, NEW r \in Doomed(q)'
               PROVE  MinKeep <= Cardinality(SurvivorsAbove(r))'
    BY DEF KeptBehind
  <2>1. r \in ids \cup UNION {Doomed(k) : k \in Purges}
    BY <1>12
  <2>2. SurvivorsAbove(r)' = {k \in Survivors \ ids : Later(k, r)}
    BY <1>9, <1>14 DEF SurvivorsAbove, Later
  <2>3. MinKeep <= Cardinality({k \in Survivors \ ids : Later(k, r)})
    BY <1>2, <2>1
  <2> QED
    BY <2>2, <2>3
<1> QED
  BY <1>10, <1>15, <1>17, <1>18, <1>19 DEF RetentionInv

\* The commit takes its own doomed rows away and leaves every other row listed.
LEMMA PurgeCommitOK ==
    ASSUME RetentionInv, NEW p \in Purges, PurgeCommit(p)
    PROVE  RetentionInv'
<1> DEFINE x == [purge[p] EXCEPT !.at = "cleanup"]
           gone == [NoReport EXCEPT !.st = "purged"]
<1>1. /\ purge[p] \in Sessions /\ purge[p] # Resting /\ Doomed(p) = purge[p].reports
      /\ SessionOK(p)
  BY DEF PurgeCommit, RetentionInv, RetentionShape, Doomed
<1>2. /\ x \in Sessions /\ x.at = "cleanup" /\ x.from = purge[p].from /\ x.wrote = purge[p].wrote
      /\ x.reports = purge[p].reports
  BY <1>1 DEF Sessions
<1>3. purge' = [purge EXCEPT ![p] = x] /\ clock' = clock /\ objects' = objects /\ writer' = writer
  BY DEF PurgeCommit, RetentionInv, RetentionShape
<1> HIDE DEF x
<1>4. gone \in ReportRows /\ gone.st = "purged"
  BY DEF ReportRows, NoReport
<1> HIDE DEF gone
<1>5. \A r \in ReportIds :
         /\ r \in purge[p].reports => report'[r] = gone
         /\ r \notin purge[p].reports =>
               report'[r] \in ReportRows /\ report'[r].st = report[r].st /\ report'[r].ts = report[r].ts
  <2> SUFFICES ASSUME NEW r \in ReportIds
               PROVE  /\ r \in purge[p].reports => report'[r] = gone
                      /\ r \notin purge[p].reports =>
                            /\ report'[r] \in ReportRows
                            /\ report'[r].st = report[r].st /\ report'[r].ts = report[r].ts
    OBVIOUS
  <2>1. report[r] \in ReportRows
    BY DEF RetentionInv, RetentionShape
  <2>2. LET f == [report[r] EXCEPT !.flagged = TRUE] IN
        f \in ReportRows /\ f.st = report[r].st /\ f.ts = report[r].ts
    BY <2>1 DEF ReportRows
  <2>3. report'[r] = IF r \in purge[p].reports THEN gone
                    ELSE IF r \in purge[p].flags THEN [report[r] EXCEPT !.flagged = TRUE]
                    ELSE report[r]
    BY DEF PurgeCommit, gone
  <2> QED
    BY <2>1, <2>2, <2>3
<1>6. RetentionShape'
  <2>1. \A r \in ReportIds : report'[r] \in ReportRows
    BY <1>4, <1>5
  <2>2. \E f : report' = [r \in ReportIds |-> f[r]]
    <3>1. report' = [r \in ReportIds |-> report'[r]]
      BY DEF PurgeCommit
    <3>2. PICK f : f = report'
      OBVIOUS
    <3> QED
      BY <3>1, <3>2
  <2>3. report' \in [ReportIds -> ReportRows]
    BY <2>1, <2>2
  <2> QED
    BY <1>2, <1>3, <2>3 DEF RetentionInv, RetentionShape
<1>7. \A q \in Purges : purge'[q] = IF q = p THEN x ELSE purge[q]
  BY <1>3 DEF RetentionInv, RetentionShape
<1>8. \A q \in Purges : Doomed(q)' = IF q = p THEN {} ELSE Doomed(q)
  BY <1>2, <1>7 DEF Doomed
<1>9. Listed' = Listed \ Doomed(p)
  <2>1. \A r \in ReportIds : r \in Doomed(p) => report'[r].st # "present"
    BY <1>1, <1>4, <1>5
  <2>2. \A r \in ReportIds : r \notin Doomed(p) => report'[r].st = report[r].st
    BY <1>1, <1>5
  <2> QED
    BY <2>1, <2>2 DEF Listed
<1>10. ASSUME NEW q \in Purges PROVE SessionOK(q)'
  <2>1. CASE q = p
    <3>1. purge[p].reports \subseteq ReportIds
      BY <1>1 DEF Sessions
    <3>2. \A r \in x.reports : report'[r].st = "purged"
      BY <3>1, <1>2, <1>4, <1>5
    <3> QED
      BY <2>1, <3>2, <1>1, <1>2, <1>3, <1>7, <1>8 DEF SessionOK
  <2>2. CASE q # p
    <3>1. SessionOK(q) /\ Doomed(q)' = Doomed(q) /\ purge'[q] = purge[q]
      BY <2>2, <1>7, <1>8 DEF RetentionInv
    <3>2. Doomed(q) \cap Doomed(p) = {} /\ Doomed(q) \subseteq Listed /\ Doomed(q) \subseteq ReportIds
      BY <2>2, DoomedListed DEF RetentionInv
    <3>3. \A r \in Doomed(q)' : r \in Listed' /\ report'[r].ts + Days["report"] < clock'
      <4>1. Doomed(q) # {} => purge[q] # Resting
        BY DEF Doomed
      <4> QED
        BY <4>1, <3>1, <3>2, <1>1, <1>3, <1>5, <1>9 DEF SessionOK
    <3>4. ASSUME purge[q] # Resting, purge[q].at = "cleanup", NEW r \in purge[q].reports
          PROVE  report'[r].st = "purged"
      <4>1. r \in ReportIds
        BY <3>4 DEF RetentionInv, RetentionShape, Sessions
      <4>2. report[r].st = "purged"
        BY <3>1, <3>4 DEF SessionOK
      <4> QED
        BY <4>1, <4>2, <1>4, <1>5
    <3> QED
      BY <3>1, <3>3, <3>4, <1>3 DEF SessionOK
  <2> QED
    BY <2>1, <2>2
<1>11. \A q1, q2 \in Purges : q1 # q2 => Doomed(q1)' \cap Doomed(q2)' = {}
  BY <1>8 DEF RetentionInv
<1>12. ASSUME NEW w \in Writers PROVE RequestOK(w)'
  <2> SUFFICES ASSUME writer[w] # Resting, writer[w].at = "commit"
               PROVE  writer[w].id \in ReportIds \cap objects /\ report'[writer[w].id].st = "absent"
    BY <1>3 DEF RequestOK
  <2>1. writer[w].id \in ReportIds \cap objects /\ report[writer[w].id].st = "absent"
    BY DEF RetentionInv, RequestOK
  <2>2. writer[w].id \notin Doomed(p)
    BY <2>1, DoomedListed DEF Listed
  <2> QED
    BY <2>1, <2>2, <1>1, <1>5
<1>13. RequestsApart'
  BY <1>3 DEF RetentionInv, RequestsApart
<1>14. ListedIsStored'
  BY <1>3, <1>9, ListedStored DEF ListedIsStored, Listed
<1>15. Survivors \subseteq Survivors'
  BY <1>8, <1>9 DEF Survivors
<1>16. KeptBehind'
  <2>1. ASSUME NEW r \in Survivors PROVE report'[r].ts = report[r].ts
    BY <1>1, <1>5 DEF Survivors, Listed
  <2> SUFFICES ASSUME NEW q \in Purges, NEW r \in Doomed(q)'
               PROVE  MinKeep <= Cardinality(SurvivorsAbove(r))'
    BY DEF KeptBehind
  <2>2. q # p /\ r \in Doomed(q) /\ r \in ReportIds /\ r \notin Doomed(p)
    BY <1>8, DoomedListed DEF RetentionInv
  <2>3. report'[r].ts = report[r].ts
    BY <2>2, <1>1, <1>5
  <2>4. MinKeep <= Cardinality(SurvivorsAbove(r))
    BY <2>2 DEF RetentionInv, KeptBehind
  <2>5. SurvivorsAbove(r) \subseteq SurvivorsAbove(r)'
    BY <2>1, <2>3, <1>15 DEF SurvivorsAbove, Later
  <2>6. SurvivorsAbove(r)' \subseteq ReportIds
    BY DEF SurvivorsAbove, Survivors, Listed
  <2>7. PICK A : A = SurvivorsAbove(r)
    OBVIOUS
  <2>8. PICK B : B = SurvivorsAbove(r)'
    OBVIOUS
  <2>9. MinKeep <= Cardinality(B)
    BY <2>4, <2>5, <2>6, <2>7, <2>8, EnoughAbove
  <2> QED
    BY <2>8, <2>9
<1> QED
  BY <1>6, <1>10, <1>11, <1>12, <1>13, <1>14, <1>16 DEF RetentionInv

\* What purges have doomed is not touched, the rest is.
LEMMA WritersOK ==
    ASSUME RetentionInv, NEW w \in Writers, ReportRead(w) \/ ReportStore(w)
    PROVE  RetentionInv'
<1>1. /\ report' = report /\ purge' = purge /\ clock' = clock /\ objects \subseteq objects'
      /\ Listed' = Listed /\ \A q \in Purges : Doomed(q)' = Doomed(q)
  BY DEF ReportRead, ReportStore, Listed, Doomed
<1>2. Survivors' = Survivors
  BY <1>1 DEF Survivors
<1>3. KeptBehind'
  BY <1>1, <1>2, KeptMove
<1>4. ASSUME NEW q \in Purges PROVE SessionOK(q)'
  BY <1>1 DEF SessionOK, RetentionInv
<1>5. ListedIsStored' /\ \A q1, q2 \in Purges : q1 # q2 => Doomed(q1)' \cap Doomed(q2)' = {}
  BY <1>1 DEF RetentionInv, ListedIsStored
<1>6. CASE ReportRead(w)
  <2>1. PICK cites \in SUBSET ScanIds :
           writer' = [writer EXCEPT ![w] = [at |-> "render", id |-> 0, cites |-> cites]]
    BY <1>6 DEF ReportRead
  <2> DEFINE x == [at |-> "render", id |-> 0, cites |-> cites]
  <2>2. x \in Requests /\ x.at = "render"
    BY DEF Requests
  <2> HIDE DEF x
  <2>3. /\ writer' \in [Writers -> {Resting} \cup Requests]
        /\ \A v \in Writers : writer'[v] = IF v = w THEN x ELSE writer[v]
    BY <2>1, <2>2 DEF RetentionInv, RetentionShape, x
  <2>4. objects' = objects
    BY <1>6 DEF ReportRead
  <2>5. (\A v \in Writers : RequestOK(v)') /\ RequestsApart'
    BY <2>2, <2>3, <2>4, <1>1 DEF RetentionInv, RequestOK, RequestsApart
  <2> QED
    BY <1>1, <1>3, <1>4, <1>5, <2>3, <2>5 DEF RetentionInv, RetentionShape
<1>7. CASE ReportStore(w)
  <2>1. PICK r \in ReportIds :
           /\ report[r].st = "absent" /\ r \notin objects
           /\ objects' = objects \cup {r}
           /\ writer' = [writer EXCEPT ![w] = [writer[w] EXCEPT !.at = "commit", !.id = r]]
    BY <1>7 DEF ReportStore, RetentionInv, RetentionShape
  <2> DEFINE x == [writer[w] EXCEPT !.at = "commit", !.id = r]
  <2>2. writer[w] \in Requests /\ r \in Nat /\ r \in ReportIds
    <3>1. r \in 1 .. MaxReport /\ MaxReport \in Nat
      BY <2>1, RetentionAssumption DEF ReportIds
    <3>2. r \in Nat
      BY <3>1
    <3> QED
      BY <1>7, <2>1, <3>2 DEF ReportStore, RetentionInv, RetentionShape
  <2>3. x \in Requests /\ x.at = "commit" /\ x.id = r
    <3> DEFINE y == [writer[w] EXCEPT !.at = "commit"]
    <3>1. y \in Requests /\ y.at = "commit"
      BY <2>2 DEF Requests
    <3> HIDE DEF y
    <3>2. LET z == [y EXCEPT !.id = r] IN z \in Requests /\ z.at = "commit" /\ z.id = r
      BY <2>2, <3>1 DEF Requests
    <3> QED
      BY <3>2 DEF y
  <2> HIDE DEF x
  <2>4. /\ writer' \in [Writers -> {Resting} \cup Requests]
        /\ \A v \in Writers : writer'[v] = IF v = w THEN x ELSE writer[v]
    BY <2>1, <2>3 DEF RetentionInv, RetentionShape, x
  <2>5. (\A v \in Writers : RequestOK(v)') /\ RequestsApart'
    BY <2>1, <2>3, <2>4, <1>1 DEF RetentionInv, RequestOK, RequestsApart
  <2> QED
    BY <1>1, <1>3, <1>4, <1>5, <2>4, <2>5 DEF RetentionInv, RetentionShape
<1> QED
  BY <1>6, <1>7

\* A new row is nobody's.
LEMMA ReportCommitOK ==
    ASSUME RetentionInv, NEW w \in Writers, ReportCommit(w)
    PROVE  RetentionInv'
<1> DEFINE n == writer[w].id
           row == [st |-> "present", ts |-> clock, cites |-> writer[w].cites, flagged |-> FALSE]
<1>1. /\ n \in ReportIds /\ n \in objects /\ report[n].st = "absent"
      /\ writer[w] \in Requests /\ writer[w] # Resting /\ writer[w].at = "commit"
  BY DEF ReportCommit, RetentionInv, RetentionShape, RequestOK
<1>2. row \in ReportRows /\ row.st = "present"
  BY <1>1 DEF ReportRows, Requests, RetentionInv, RetentionShape
<1>3. /\ report' = [report EXCEPT ![n] = row] /\ writer' = [writer EXCEPT ![w] = Resting]
      /\ clock' = clock /\ objects' = objects /\ purge' = purge
  BY DEF ReportCommit
<1> HIDE DEF row
<1>4. RetentionShape'
  BY <1>2, <1>3 DEF RetentionInv, RetentionShape
<1>5. /\ \A r \in ReportIds : report'[r] = IF r = n THEN row ELSE report[r]
      /\ \A v \in Writers : writer'[v] = IF v = w THEN Resting ELSE writer[v]
  BY <1>1, <1>3 DEF RetentionInv, RetentionShape
<1>6. /\ Listed' = Listed \cup {n} /\ n \notin Listed
      /\ \A q \in Purges : Doomed(q)' = Doomed(q)
  BY <1>1, <1>2, <1>3, <1>5 DEF Listed, Doomed
<1>7. \A r \in Listed : r \in ReportIds /\ report'[r].ts = report[r].ts
  BY <1>5, <1>6 DEF Listed
<1>8. Survivors \subseteq Survivors'
  BY <1>6 DEF Survivors
<1>9. KeptBehind'
  BY <1>6, <1>7, <1>8, KeptMove
<1>10. ASSUME NEW q \in Purges PROVE SessionOK(q)'
  <2>1. SessionOK(q) /\ Doomed(q) \subseteq Listed
    BY DoomedListed DEF RetentionInv
  <2>2. ASSUME purge[q] # Resting, purge[q].at = "cleanup", NEW r \in purge[q].reports
        PROVE  report'[r].st = "purged"
    <3>1. r \in ReportIds /\ report[r].st = "purged"
      BY <2>1, <2>2 DEF SessionOK, RetentionInv, RetentionShape, Sessions
    <3> QED
      BY <3>1, <1>1, <1>5
  <2> QED
    BY <2>1, <2>2, <1>3, <1>6, <1>7 DEF SessionOK
<1>11. ListedIsStored' /\ \A q1, q2 \in Purges : q1 # q2 => Doomed(q1)' \cap Doomed(q2)' = {}
  BY <1>1, <1>3, <1>5, <1>6 DEF RetentionInv, ListedIsStored
<1>12. (\A v \in Writers : RequestOK(v)') /\ RequestsApart'
  BY <1>1, <1>3, <1>5 DEF RetentionInv, RequestOK, RequestsApart
<1> QED
  BY <1>4, <1>9, <1>10, <1>11, <1>12 DEF RetentionInv

LEMMA ClockOK ==
    ASSUME RetentionInv, Day \/ (\E s \in ScanIds : ScanEnds(s)) \/ UNCHANGED retentionVars
    PROVE  RetentionInv'
<1>1. report' = report /\ purge' = purge /\ objects' = objects /\ writer' = writer
  BY DEF Day, ScanEnds, retentionVars
<1>2. clock \in Nat /\ clock' \in Nat /\ clock <= clock'
  BY DEF Day, ScanEnds, retentionVars, RetentionInv, RetentionShape
<1>3. Listed' = Listed /\ \A q \in Purges : Doomed(q)' = Doomed(q)
  BY <1>1 DEF Listed, Doomed
<1>4. Survivors' = Survivors
  BY <1>3 DEF Survivors
<1>5. KeptBehind'
  BY <1>1, <1>3, <1>4, KeptMove
<1>6. ASSUME NEW q \in Purges PROVE SessionOK(q)'
  <2>1. SessionOK(q) /\ Doomed(q) \subseteq Listed
    BY DoomedListed DEF RetentionInv
  <2>2. \A r \in Listed : report[r].ts \in Nat
    BY DEF Listed, RetentionInv, RetentionShape, ReportRows
  <2>3. purge[q] # Resting => purge[q].from \in Nat
    BY DEF RetentionInv, RetentionShape, Sessions
  <2>4. Days["report"] \in Nat
    BY RetentionAssumption
  <2>5. purge[q] # Resting =>
           purge[q].from <= clock' /\ \A r \in Doomed(q) : report[r].ts + Days["report"] < clock'
    BY <2>1, <2>2, <2>3, <2>4, <1>2 DEF SessionOK
  <2> QED
    BY <2>1, <2>5, <1>1, <1>3 DEF SessionOK
<1>7. ListedIsStored' /\ RequestsApart' /\ \A w \in Writers : RequestOK(w)'
  BY <1>1 DEF RetentionInv, ListedIsStored, RequestsApart, RequestOK
<1> QED
  BY <1>1, <1>2, <1>3, <1>5, <1>6, <1>7 DEF RetentionInv, RetentionShape

LEMMA RetentionStep == RetentionInv /\ [RetentionNext]_retentionVars => RetentionInv'
  BY PurgeMovesOK, PurgeReportsOK, PurgeCommitOK, WritersOK, ReportCommitOK, ClockOK DEF RetentionNext

\* No report and nobody at work, whatever became of the scans.
NothingKept ==
    /\ clock = 0 /\ report = [r \in ReportIds |-> NoReport] /\ objects = {}
    /\ purge = [p \in Purges |-> Resting] /\ writer = [w \in Writers |-> Resting]

LEMMA RetentionStarts == NothingKept => RetentionInv
<1> SUFFICES ASSUME NothingKept PROVE RetentionInv
  OBVIOUS
<1>1. NoReport \in ReportRows /\ NoReport.st = "absent"
  BY DEF NoReport, ReportRows
<1>2. RetentionShape
  BY <1>1 DEF NothingKept, RetentionShape
<1>3. \A p \in Purges : purge[p] = Resting /\ Doomed(p) = {}
  BY DEF NothingKept, Doomed
<1>4. \A w \in Writers : writer[w] = Resting
  BY DEF NothingKept
<1> QED
  BY <1>1, <1>2, <1>3, <1>4
  DEF NothingKept, RetentionInv, SessionOK, RequestOK, RequestsApart, ListedIsStored, KeptBehind

\* What a committing purge removes.
LEMMA CommitSpares ==
    ASSUME RetentionInv, [RetentionNext]_retentionVars, NEW r \in ReportIds,
           report[r].st = "present", report'[r].st = "purged"
    PROVE  /\ report[r].ts + Days["report"] < clock
           /\ MinKeep <= Cardinality({q \in ReportIds :
                               report'[q].st = "present" /\ report'[q].ts >= report[r].ts})
<1> DEFINE B == {q \in ReportIds : report'[q].st = "present" /\ report'[q].ts >= report[r].ts}
<1>1. PICK p \in Purges : PurgeCommit(p)
  <2>1. ASSUME NEW w \in Writers, ReportCommit(w) PROVE FALSE
    BY <2>1 DEF ReportCommit, RetentionInv, RetentionShape, RequestOK
  <2>2. report' # report
    OBVIOUS
  <2> QED
    BY <2>1, <2>2
    DEF RetentionNext, retentionVars, PurgeStart, PurgeReports, PurgeScans, PurgeFails,
        PurgeCleanup, ReportRead, ReportStore, ScanEnds, Day
<1>2. r \in purge[p].reports
  <2>1. report[r] \in ReportRows
    BY DEF RetentionInv, RetentionShape
  <2>2. [report[r] EXCEPT !.flagged = TRUE].st = report[r].st
    BY <2>1 DEF ReportRows
  <2> QED
    BY <1>1, <2>2 DEF PurgeCommit
<1>3. r \in Doomed(p)
  BY <1>1, <1>2 DEF PurgeCommit, Doomed
<1>4. report[r].ts + Days["report"] < clock
  BY <1>1, <1>3 DEF PurgeCommit, RetentionInv, SessionOK
<1>5. MinKeep <= Cardinality(SurvivorsAbove(r))
  BY <1>3 DEF RetentionInv, KeptBehind
<1>6. SurvivorsAbove(r) \subseteq B
  <2> SUFFICES ASSUME NEW q \in SurvivorsAbove(r) PROVE q \in B
    OBVIOUS
  <2>1. /\ q \in ReportIds /\ report[q].st = "present" /\ q \notin Doomed(p) /\ Later(q, r)
        /\ report[q] \in ReportRows /\ report[r] \in ReportRows
    BY DEF SurvivorsAbove, Survivors, Listed, RetentionInv, RetentionShape
  <2>2. report[q].ts >= report[r].ts
    BY <2>1 DEF Later, ReportRows
  <2>3. q \notin purge[p].reports
    BY <1>1, <2>1 DEF PurgeCommit, Doomed
  <2>4. LET f == [report[q] EXCEPT !.flagged = TRUE] IN f.st = report[q].st /\ f.ts = report[q].ts
    BY <2>1 DEF ReportRows
  <2>5. report'[q].st = report[q].st /\ report'[q].ts = report[q].ts
    BY <1>1, <2>1, <2>3, <2>4 DEF PurgeCommit
  <2> QED
    BY <2>1, <2>2, <2>5
<1>7. PICK C : C = B
  OBVIOUS
<1>8. MinKeep <= Cardinality(C)
  <2>1. C \subseteq ReportIds /\ SurvivorsAbove(r) \subseteq C
    BY <1>6, <1>7
  <2>2. PICK A : A = SurvivorsAbove(r)
    OBVIOUS
  <2> QED
    BY <2>1, <2>2, <1>5, EnoughAbove
<1> QED
  BY <1>4, <1>7, <1>8

\* No commit forgets the event of what it deleted.
LEMMA EventsStay ==
    ASSUME RetentionInv, NEW p \in Purges, PurgeCommit(p)
    PROVE  purge[p].wrote \subseteq audit'
<1> SUFFICES ASSUME NEW e \in purge[p].wrote PROVE e \in audit'
  OBVIOUS
<1>1. purge[p] \in Sessions /\ purge[p].from <= e.ts
  BY DEF PurgeCommit, RetentionInv, RetentionShape, SessionOK
<1>2. purge[p].from \in Nat /\ e.ts \in Nat /\ Days["audit"] \in Nat
  BY <1>1, RetentionAssumption DEF Sessions, AuditEvents
<1>3. e.ts >= AuditCutoff(p)
  BY <1>1, <1>2 DEF AuditCutoff, _cutoff
<1> QED
  BY <1>3 DEF PurgeCommit, KeptAudit, AuditSeen

\* The step the property is about.
LEMMA PurgeStepOK ==
    RetentionInv /\ [RetentionNext]_retentionVars =>
      [/\ \A r \in ReportIds : report[r].st = "present" /\ report'[r].st = "purged" =>
             /\ report[r].ts + Days["report"] < clock
             /\ MinKeep <= Cardinality({q \in ReportIds :
                               report'[q].st = "present" /\ report'[q].ts >= report[r].ts})
       /\ \A p \in Purges : PurgeCommit(p) => purge[p].wrote \subseteq audit'
       /\ ListedIsStored']_retentionVars
<1>1. ASSUME RetentionInv, [RetentionNext]_retentionVars PROVE ListedIsStored'
  BY <1>1, RetentionStep DEF RetentionInv
<1> QED
  BY <1>1, CommitSpares, EventsStay

\* A purge only removes reports that are old enough and have min_keep newer
\* ones left behind, whatever other purges and writers do meanwhile; every
\* deletion keeps its audit event, and whatever is listed can be downloaded.
THEOREM PurgeTheorem == RetentionSpec => PurgeSpares
<1>1. RetentionInit => NothingKept
  BY DEF RetentionInit, NothingKept
<1> QED
  BY <1>1, RetentionStarts, RetentionStep, PurgeStepOK, PTL DEF RetentionSpec, PurgeSpares

-----------------------------------------------------------------------------
(* Backup                                                                  *)

BackupSpec == BackupInit /\ [][BackupNext]_backupVars

Dirs == [exists : BOOLEAN, file : [Parts -> Files], sum : [Parts -> Files],
         manifest : {"none", "completed", "failed"}, errors : SUBSET Parts,
         enc : BOOLEAN, shared : BOOLEAN, stamped : BOOLEAN]
BeforeManifest == {"mysql", "dumping", "objects", "archiving", "encrypt", "manifest"}
AfterManifest == {"verify", "offsite", "cleanup"}
Progress == [at : BeforeManifest \cup AfterManifest, name : SetNames, failed : SUBSET Parts]
Restores == [at : {"idle", "load", "loaded"}, name : SetNames, rotten : BOOLEAN, got : Files]

BackupShape ==
    /\ second \in SetNames
    /\ config \in Deployments
    /\ sets \in [SetNames -> Dirs]
    /\ run \in [Runs -> {NoRun} \cup Progress]
    /\ restore \in Restores

\* A whole file.
WholeFile(f) == f.data = "full" /\ ~f.rot

\* What the manifest vouches for was whole when it was checksummed.
Vouched(d) ==
    \A c \in Parts \ d.errors :
        /\ WholeFile(d.sum[c]) /\ d.sum[c].enc = d.enc
        /\ d.file[c].data = "full" /\ d.file[c].enc = d.enc

\* A directory one run alone has used and nobody pruned under it: without a
\* manifest it is of no use, with one it is what it says.
SetOK(d) ==
    ~d.shared =>
        /\ d.exists \/ d = NoDir
        /\ d.manifest # "none" => Vouched(d)
        /\ d.stamped => d.manifest # "none" /\ d.errors = {}

\* The components a run is through with at a stage.
Through(at) ==
    IF at \in {"mysql", "dumping"} THEN {}
    ELSE IF at \in {"objects", "archiving"} THEN {"mysql"} ELSE Parts

\* Such a directory and the run that is still at work in it.
WorkOK(p, d, encrypt) ==
    ~d.shared =>
        /\ d.exists
        /\ p.at \in BeforeManifest =>
              /\ d.manifest = "none" /\ ~d.stamped /\ ~d.enc
              /\ \A c \in Through(p.at) \ p.failed :
                    /\ WholeFile(d.file[c]) /\ d.sum[c] = d.file[c]
                    /\ d.file[c].enc <=> p.at = "manifest" /\ encrypt /\ p.failed = {}
        /\ p.at \in AfterManifest => d.manifest # "none" /\ d.errors = p.failed

\* A restore works from a manifest, or from a directory pruned since.
RestoreOK ==
    LET d == sets[restore.name] IN
    restore.at # "idle" /\ ~d.shared =>
        /\ d.manifest # "none" \/ (~d.exists /\ restore.name < second)
        /\ config.verify => ~restore.rotten
        /\ restore.at = "loaded" /\ restore.got.rot => ~d.enc

BackupInv ==
    /\ BackupShape
    /\ \A n \in SetNames : SetOK(sets[n])
    /\ \A r \in Runs : run[r] # NoRun => run[r].name <= second /\ WorkOK(run[r], Dir(r), config.encrypt)
    /\ \A r, q \in Runs :
          run[r] # NoRun /\ run[q] # NoRun /\ run[r].name = run[q].name /\ ~Dir(r).shared => r = q
    /\ RestoreOK

LEMMA AtWork ==
    ASSUME BackupInv, NEW r \in Runs, run[r].at # "idle"
    PROVE  /\ run[r] \in Progress /\ run[r] # NoRun
           /\ run[r].name \in SetNames /\ Dir(r) \in Dirs
           /\ run[r].name <= second /\ WorkOK(run[r], Dir(r), config.encrypt) /\ SetOK(Dir(r))
<1>1. run[r] \in {NoRun} \cup Progress
  BY DEF BackupInv, BackupShape
<1>2. run[r] # NoRun
  BY DEF NoRun
<1>3. run[r] \in Progress
  BY <1>1, <1>2
<1>4. run[r].name \in SetNames
  BY <1>3 DEF Progress
<1> QED
  BY <1>2, <1>3, <1>4 DEF BackupInv, BackupShape, Dir

\* A step of a run that changes its own directory and no other.
LEMMA WorkMoves ==
    ASSUME BackupInv, NEW r \in Runs, run[r].at # "idle",
           NEW p \in {NoRun} \cup Progress, p # NoRun => p.name = run[r].name,
           NEW d \in Dirs, d.shared = Dir(r).shared,
           run' = [run EXCEPT ![r] = p], sets' = [sets EXCEPT ![run[r].name] = d],
           SetOK(d), p # NoRun => WorkOK(p, d, config.encrypt),
           run[r].at \in BeforeManifest \/ (d.manifest # "none" /\ d.enc = Dir(r).enc)
                \/ (d.manifest = Dir(r).manifest /\ d.exists = Dir(r).exists /\ d.enc = Dir(r).enc),
           second' = second, config' = config, restore' = restore
    PROVE  BackupInv'
<1> DEFINE n == run[r].name
<1>0. /\ n \in SetNames /\ n <= second /\ run[r] \in Progress /\ run[r] # NoRun
      /\ WorkOK(run[r], sets[n], config.encrypt) /\ sets[n] \in Dirs
  BY AtWork DEF Dir
<1>1. BackupShape'
  BY <1>0 DEF BackupInv, BackupShape
<1>s. /\ \A m \in SetNames : sets'[m] = IF m = n THEN d ELSE sets[m]
      /\ \A q \in Runs : run'[q] = IF q = r THEN p ELSE run[q]
  BY <1>0 DEF BackupInv, BackupShape
<1>2. ASSUME NEW m \in SetNames PROVE SetOK(sets'[m])
  BY <1>s DEF BackupInv
<1>n. ASSUME NEW q \in Runs, run[q] # NoRun PROVE run[q].name \in SetNames /\ run[q].at # "idle"
  BY <1>n DEF BackupInv, BackupShape, Progress, BeforeManifest, AfterManifest
<1>3. ASSUME NEW q \in Runs, run'[q] # NoRun
      PROVE  run'[q].name <= second /\ WorkOK(run'[q], sets'[run'[q].name], config.encrypt)
  <2>1. CASE q = r
    <3>1. run'[q] = p /\ p.name = n /\ sets'[n] = d /\ p # NoRun
      BY <2>1, <1>3, <1>s, <1>0
    <3> QED
      BY <3>1, <1>0
  <2>2. CASE q # r
    <3>1. run'[q] = run[q] /\ run[q] # NoRun
      BY <2>2, <1>3, <1>s
    <3>2. run[q].name \in SetNames /\ run[q].name <= second /\ WorkOK(run[q], sets[run[q].name], config.encrypt)
      BY <3>1, <1>n DEF BackupInv, Dir
    <3>3. CASE run[q].name = n
      <4>1. sets[n].shared
        BY <3>1, <3>3, <2>2, <1>0 DEF BackupInv, Dir
      <4>2. d.shared
        BY <4>1 DEF Dir
      <4>3. run'[q].name = n /\ sets'[run'[q].name] = d
        BY <3>1, <3>3, <1>s, <1>0
      <4>4. WorkOK(run'[q], sets'[run'[q].name], config.encrypt)
        BY <4>2, <4>3 DEF WorkOK
      <4>5. run'[q].name <= second
        BY <3>1, <3>2
      <4> QED
        BY <4>4, <4>5
    <3>4. CASE run[q].name # n
      <4>1. sets'[run[q].name] = sets[run[q].name]
        BY <3>2, <3>4, <1>s
      <4> QED
        BY <3>1, <3>2, <4>1, Zenon
    <3> QED
      BY <3>3, <3>4
  <2> QED
    BY <2>1, <2>2
<1>4. ASSUME NEW q1 \in Runs, NEW q2 \in Runs, run'[q1] # NoRun, run'[q2] # NoRun,
             run'[q1].name = run'[q2].name, ~sets'[run'[q1].name].shared
      PROVE  q1 = q2
  <2>1. /\ run[q1] # NoRun /\ run[q1].name = run'[q1].name
        /\ run[q2] # NoRun /\ run[q2].name = run'[q2].name
    BY <1>4, <1>s, <1>0
  <2>2. ~sets[run[q1].name].shared
    BY <1>4, <2>1, <1>s, <1>n DEF Dir
  <2> QED
    BY <2>1, <2>2, <1>4 DEF BackupInv, Dir
<1>5. RestoreOK'
  <2> SUFFICES ASSUME restore.at # "idle", ~sets'[restore.name].shared
               PROVE  LET e == sets'[restore.name] IN
                        /\ e.manifest # "none" \/ (~e.exists /\ restore.name < second)
                        /\ config.verify => ~restore.rotten
                        /\ restore.at = "loaded" /\ restore.got.rot => ~e.enc
    BY DEF RestoreOK
  <2>1. restore.name \in SetNames
    BY DEF BackupInv, BackupShape, Restores
  <2>2. CASE restore.name # n
    BY <2>1, <2>2, <1>s DEF BackupInv, RestoreOK
  <2>3. CASE restore.name = n
    <3>1. sets'[n] = d /\ ~d.shared /\ ~sets[n].shared
      BY <1>s, <1>0, <2>3 DEF Dir
    <3>2. /\ sets[n].manifest # "none" \/ ~sets[n].exists
          /\ config.verify => ~restore.rotten
          /\ restore.at = "loaded" /\ restore.got.rot => ~sets[n].enc
      BY <3>1, <2>3 DEF BackupInv, RestoreOK
    <3>3. sets[n].exists
      BY <3>1, <1>0 DEF WorkOK
    <3>4. run[r].at \notin BeforeManifest
      BY <3>1, <3>2, <3>3, <1>0 DEF WorkOK
    <3> QED
      BY <3>1, <3>2, <3>3, <3>4, <2>3 DEF Dir
  <2> QED
    BY <2>2, <2>3
<1>6. QED
  BY <1>1, <1>2, <1>3, <1>4, <1>5 DEF BackupInv, Dir

\* The directory a run works in, rewritten.
LEMMA OpenOK ==
    ASSUME BackupInv, NEW r \in Runs, NEW c \in Parts, ComponentOpen(r, c)
    PROVE  BackupInv'
<1> DEFINE n == run[r].name
           at == Writing[c]
           p == [at |-> at, name |-> n, failed |-> run[r].failed]
           half == [NoFile EXCEPT !.data = "partial"]
           d == [sets[n] EXCEPT !.exists = TRUE, !.file[c] = half]
<1>0. run[r].at = c /\ run[r].at # "idle" /\ c \in BeforeManifest
  BY DEF ComponentOpen, Parts, BeforeManifest
<1>1. /\ run[r] \in Progress /\ n \in SetNames /\ sets[n] \in Dirs
      /\ WorkOK(run[r], sets[n], config.encrypt) /\ SetOK(sets[n])
  BY <1>0, AtWork DEF Dir
<1>2. at \in BeforeManifest /\ Through(at) = Through(c) /\ c \notin Through(c)
      /\ at # "manifest" /\ Through(c) \subseteq Parts /\ c # "manifest"
  BY DEF Parts, Writing, BeforeManifest, Through
<1>3. run[r].failed \in SUBSET Parts
  BY <1>1 DEF Progress
<1>4. /\ p \in Progress /\ p # NoRun /\ p.at = at /\ p.name = n /\ p.failed = run[r].failed
      /\ [run[r] EXCEPT !.at = at] = p
  BY <1>1, <1>2, <1>3 DEF Progress, NoRun, BeforeManifest, AfterManifest
<1>5. half \in Files
  BY DEF Files, NoFile
<1>6. /\ d \in Dirs /\ d.exists /\ d.shared = sets[n].shared /\ d.manifest = sets[n].manifest
      /\ d.stamped = sets[n].stamped /\ d.enc = sets[n].enc /\ d.sum = sets[n].sum
      /\ \A x \in Parts \ {c} : d.file[x] = sets[n].file[x]
  BY <1>1, <1>5 DEF Dirs
<1>7. run' = [run EXCEPT ![r] = p]
  BY <1>4 DEF ComponentOpen, Step
<1>8. sets' = [sets EXCEPT ![n] = d]
  BY <1>1 DEF ComponentOpen, BackupInv, BackupShape
<1> HIDE DEF p, d, at
<1>9. SetOK(d) /\ WorkOK(p, d, config.encrypt)
  <2> SUFFICES ASSUME ~d.shared PROVE SetOK(d) /\ WorkOK(p, d, config.encrypt)
    BY DEF SetOK, WorkOK
  <2>1. /\ sets[n].manifest = "none" /\ ~sets[n].stamped /\ ~sets[n].enc
        /\ \A x \in Through(c) \ run[r].failed :
              /\ WholeFile(sets[n].file[x]) /\ sets[n].sum[x] = sets[n].file[x]
              /\ ~sets[n].file[x].enc
    BY <1>0, <1>1, <1>2, <1>6 DEF WorkOK
  <2>2. SetOK(d)
    BY <1>6, <2>1 DEF SetOK
  <2>3. \A x \in Through(at) \ p.failed :
           /\ WholeFile(d.file[x]) /\ d.sum[x] = d.file[x] /\ ~d.file[x].enc
    <3>1. \A x \in Through(at) \ p.failed : x \in Through(c) \ run[r].failed /\ x \in Parts \ {c}
      BY <1>2, <1>4
    <3> QED
      BY <2>1, <1>6, <3>1
  <2>4. p.at \notin AfterManifest /\ p.at # "manifest"
    BY <1>2, <1>4 DEF AfterManifest, BeforeManifest
  <2>5. WorkOK(p, d, config.encrypt)
    BY <1>4, <1>6, <2>1, <2>3, <2>4 DEF WorkOK
  <2> QED
    BY <2>2, <2>5
<1>10. second' = second /\ config' = config /\ restore' = restore
  BY DEF ComponentOpen
<1> QED
  BY <1>0, <1>4, <1>6, <1>7, <1>8, <1>9, <1>10, WorkMoves DEF Dir

LEMMA DoneOK ==
    ASSUME BackupInv, NEW r \in Runs, NEW c \in Parts, ComponentDone(r, c)
    PROVE  BackupInv'
<1> DEFINE n == run[r].name
           at == NextStep(c)
           p == [at |-> at, name |-> n, failed |-> run[r].failed]
           whole == [NoFile EXCEPT !.data = "full"]
           d == [sets[n] EXCEPT !.file[c] = whole, !.sum[c] = whole]
<1>0. run[r].at = Writing[c] /\ run[r].at # "idle" /\ Writing[c] \in BeforeManifest
      /\ Writing[c] # "manifest"
  BY DEF ComponentDone, Parts, BeforeManifest, Writing
<1>1. /\ run[r] \in Progress /\ n \in SetNames /\ sets[n] \in Dirs
      /\ WorkOK(run[r], sets[n], config.encrypt) /\ SetOK(sets[n])
  BY <1>0, AtWork DEF Dir
<1>2. at \in BeforeManifest /\ at \notin AfterManifest /\ Through(at) = Through(Writing[c]) \cup {c}
      /\ at # "manifest" /\ Through(at) \subseteq Parts
  BY DEF Parts, Writing, BeforeManifest, AfterManifest, Through, NextStep
<1>3. run[r].failed \in SUBSET Parts
  BY <1>1 DEF Progress
<1>4. /\ p \in Progress /\ p # NoRun /\ p.at = at /\ p.name = n /\ p.failed = run[r].failed
      /\ [run[r] EXCEPT !.at = at] = p
  BY <1>1, <1>2, <1>3 DEF Progress, NoRun, BeforeManifest, AfterManifest
<1>5. whole \in Files /\ WholeFile(whole) /\ ~whole.enc
  BY DEF Files, NoFile, WholeFile
<1> HIDE DEF whole
<1>6. /\ d \in Dirs /\ d.exists = sets[n].exists /\ d.shared = sets[n].shared
      /\ d.manifest = sets[n].manifest
      /\ d.stamped = sets[n].stamped /\ d.enc = sets[n].enc
      /\ d.sum[c] = whole /\ d.file[c] = whole
      /\ \A x \in Parts \ {c} : d.file[x] = sets[n].file[x] /\ d.sum[x] = sets[n].sum[x]
  BY <1>1, <1>5 DEF Dirs
<1>7. run' = [run EXCEPT ![r] = p]
  BY <1>4 DEF ComponentDone, Step
<1>8. sets' = [sets EXCEPT ![n] = d]
  BY <1>1, ZenonT(60) DEF ComponentDone, BackupInv, BackupShape, whole
<1> HIDE DEF p, d, at
<1>9. SetOK(d) /\ WorkOK(p, d, config.encrypt)
  <2> SUFFICES ASSUME ~d.shared PROVE SetOK(d) /\ WorkOK(p, d, config.encrypt)
    BY DEF SetOK, WorkOK
  <2>1. /\ sets[n].exists /\ sets[n].manifest = "none" /\ ~sets[n].stamped /\ ~sets[n].enc
        /\ \A x \in Through(Writing[c]) \ run[r].failed :
              WholeFile(sets[n].file[x]) /\ ~sets[n].file[x].enc /\ sets[n].sum[x] = sets[n].file[x]
    BY <1>0, <1>1, <1>6 DEF WorkOK
  <2>2. \A x \in Through(p.at) \ p.failed : WholeFile(d.file[x]) /\ ~d.file[x].enc /\ d.sum[x] = d.file[x]
    BY <2>1, <1>2, <1>4, <1>5, <1>6
  <2> QED
    BY <2>1, <2>2, <1>2, <1>4, <1>6 DEF SetOK, WorkOK
<1>10. second' = second /\ config' = config /\ restore' = restore
  BY DEF ComponentDone
<1> QED
  BY <1>0, <1>4, <1>6, <1>7, <1>8, <1>9, <1>10, WorkMoves DEF Dir

\* A step of a run that leaves its directory as it was.
LEMMA DirKept ==
    ASSUME BackupInv, NEW r \in Runs, run[r].at # "idle",
           NEW p \in {NoRun} \cup Progress, p # NoRun => p.name = run[r].name,
           p # NoRun => WorkOK(p, Dir(r), config.encrypt),
           run' = [run EXCEPT ![r] = p], sets' = sets,
           second' = second, config' = config, restore' = restore
    PROVE  BackupInv'
<1> DEFINE d == Dir(r)
<1>1. d \in Dirs /\ SetOK(d) /\ run[r].name \in SetNames
  BY AtWork
<1>2. sets' = [sets EXCEPT ![run[r].name] = d]
  BY <1>1 DEF BackupInv, BackupShape, Dir
<1> QED
  BY <1>1, <1>2, WorkMoves

LEMMA FailsOK ==
    ASSUME BackupInv, NEW r \in Runs, NEW c \in Parts, ComponentFails(r, c)
    PROVE  BackupInv'
<1> DEFINE at == NextStep(c)
           failed == run[r].failed \cup {c}
           p == [at |-> at, name |-> run[r].name, failed |-> failed]
<1>0. run[r].at # "idle" /\ run[r].at \in BeforeManifest /\ run[r].at # "manifest"
  BY DEF ComponentFails, Parts, BeforeManifest, Writing
<1>1. run[r] \in Progress /\ WorkOK(run[r], Dir(r), config.encrypt)
  BY <1>0, AtWork
<1>2. at \in BeforeManifest /\ at \notin AfterManifest /\ Through(at) = Through(run[r].at) \cup {c}
      /\ at # "manifest"
  BY DEF ComponentFails, Parts, Writing, BeforeManifest, AfterManifest, Through, NextStep
<1>3. failed \in SUBSET Parts /\ run[r].name \in SetNames
  BY <1>1 DEF Progress
<1>4. p \in Progress /\ p.at = at /\ p.name = run[r].name /\ p.failed = failed
  BY <1>2, <1>3 DEF Progress
<1>n. p # NoRun
  BY <1>2, <1>4 DEF NoRun, BeforeManifest
<1>5. run' = [run EXCEPT ![r] = p]
  <2>1. [run[r] EXCEPT !.at = at, !.failed = failed] = p
    <3> DEFINE q == [run[r] EXCEPT !.at = at]
    <3>1. q \in Progress /\ q.at = at /\ q.name = run[r].name
      BY <1>1, <1>2 DEF Progress
    <3> HIDE DEF q, at, failed
    <3>2. [q EXCEPT !.failed = failed] = p
      BY <3>1 DEF Progress
    <3> QED
      BY <3>2 DEF q
  <2>2. run' = [run EXCEPT ![r] = [run[r] EXCEPT !.at = at, !.failed = failed]]
    BY DEF ComponentFails, BackupInv, BackupShape
  <2> QED
    BY <2>1, <2>2
<1> HIDE DEF p
<1>6. WorkOK(p, Dir(r), config.encrypt)
  BY <1>0, <1>1, <1>2, <1>4 DEF WorkOK
<1> QED
  BY <1>0, <1>4, <1>n, <1>5, <1>6, DirKept DEF ComponentFails

LEMMA DiesOK ==
    ASSUME BackupInv, NEW r \in Runs, BackupDies(r) \/ Replicate(r)
    PROVE  BackupInv'
<1>1. run[r] # NoRun => run[r].at # "idle"
  BY DEF BackupInv, BackupShape, Progress, BeforeManifest, AfterManifest
<1>2. CASE BackupDies(r)
  BY <1>1, <1>2, DirKept DEF BackupDies
<1>3. CASE Replicate(r)
  <2> DEFINE p == [at |-> "cleanup", name |-> run[r].name, failed |-> run[r].failed]
  <2>0. run[r].at = "offsite" /\ run[r].at # "idle" /\ run[r].at \in AfterManifest
        /\ "cleanup" \in AfterManifest /\ "cleanup" \notin BeforeManifest
    BY <1>3 DEF Replicate, AfterManifest, BeforeManifest
  <2>1. run[r] \in Progress /\ WorkOK(run[r], Dir(r), config.encrypt)
    BY <2>0, AtWork
  <2>2. run[r].failed \in SUBSET Parts
    BY <2>1 DEF Progress
  <2>3. /\ p \in Progress /\ p # NoRun /\ p.at = "cleanup" /\ p.failed = run[r].failed
        /\ p.name = run[r].name /\ [run[r] EXCEPT !.at = "cleanup"] = p
    BY <2>0, <2>1, <2>2 DEF Progress, NoRun, BeforeManifest, AfterManifest
  <2>4. run' = [run EXCEPT ![r] = p]
    BY <2>3, <1>3 DEF Replicate, Step
  <2> HIDE DEF p
  <2>5. WorkOK(p, Dir(r), config.encrypt)
    BY <2>0, <2>1, <2>3 DEF WorkOK
  <2> QED
    BY <2>0, <2>3, <2>4, <2>5, <1>3, DirKept DEF Replicate
<1> QED
  BY <1>2, <1>3

LEMMA ConfigOK == ASSUME BackupInv PROVE config.encrypt \in BOOLEAN
  BY BackupAssumption DEF BackupInv, BackupShape

\* A clean set is encrypted whole and its checksums are those of the ciphertext.
LEMMA EncryptOK ==
    ASSUME BackupInv, NEW r \in Runs, Encrypt(r)
    PROVE  BackupInv'
<1> DEFINE n == run[r].name
           p == [at |-> "manifest", name |-> n, failed |-> run[r].failed]
<1>0. /\ run[r].at = "encrypt" /\ run[r].at # "idle" /\ run[r].at \in BeforeManifest
      /\ run[r].at # "manifest" /\ "manifest" \in BeforeManifest /\ "manifest" \notin AfterManifest
      /\ Through("encrypt") = Parts /\ Through("manifest") = Parts
  BY DEF Encrypt, BeforeManifest, AfterManifest, Through
<1>1. /\ run[r] \in Progress /\ n \in SetNames /\ sets[n] \in Dirs
      /\ WorkOK(run[r], sets[n], config.encrypt) /\ SetOK(sets[n])
  BY <1>0, AtWork DEF Dir
<1>2. run[r].failed \in SUBSET Parts
  BY <1>1 DEF Progress
<1>3. /\ p \in Progress /\ p.at = "manifest" /\ p.name = n /\ p.failed = run[r].failed
      /\ [run[r] EXCEPT !.at = "manifest"] = p
  BY <1>0, <1>1, <1>2 DEF Progress
<1>4. p # NoRun
  BY <1>3 DEF NoRun
<1>5. second' = second /\ config' = config /\ restore' = restore
  BY DEF Encrypt
<1>6. CASE Step(r, "manifest") /\ UNCHANGED sets /\ (~config.encrypt \/ run[r].failed # {})
  <2>1. run' = [run EXCEPT ![r] = p]
    BY <1>3, <1>6 DEF Step
  <2> HIDE DEF p
  <2>2. WorkOK(p, Dir(r), config.encrypt)
    BY <1>0, <1>1, <1>3, <1>6 DEF WorkOK, Dir
  <2> QED
    BY <1>0, <1>3, <1>4, <1>5, <1>6, <2>1, <2>2, DirKept
<1>7. CASE run' = [run EXCEPT ![r] = NoRun] /\ UNCHANGED sets
  BY <1>0, <1>5, <1>7, DirKept
<1>8. CASE /\ config.encrypt /\ run[r].failed = {} /\ Complete(Dir(r))
           /\ LET f == [c \in Parts |-> Encrypted(Dir(r).file[c])] IN
                 sets' = [sets EXCEPT ![run[r].name].file = f, ![run[r].name].sum = f]
           /\ Step(r, "manifest")
  <2> DEFINE f == [c \in Parts |-> Encrypted(sets[n].file[c])]
             d == [sets[n] EXCEPT !.file = f, !.sum = f]
  <2>1. \A c \in Parts : /\ f[c] \in Files /\ f[c].enc
                         /\ f[c].data = sets[n].file[c].data /\ f[c].rot = sets[n].file[c].rot
    <3> SUFFICES ASSUME NEW c \in Parts
                 PROVE  /\ f[c] \in Files /\ f[c].enc
                        /\ f[c].data = sets[n].file[c].data /\ f[c].rot = sets[n].file[c].rot
      OBVIOUS
    <3>1. sets[n].file[c] \in Files /\ sets[n].file[c].data # "none"
      BY <1>1, <1>8 DEF Dirs, Complete, Dir
    <3>2. f[c] = [sets[n].file[c] EXCEPT !.enc = TRUE]
      BY <3>1 DEF Encrypted
    <3> QED
      BY <3>1, <3>2 DEF Files
  <2>2. f \in [Parts -> Files]
    BY <2>1
  <2>3. sets' = [sets EXCEPT ![n] = d]
    BY <1>1, <1>8 DEF BackupInv, BackupShape, Dir
  <2> HIDE DEF f
  <2>4. /\ d \in Dirs /\ d.exists = sets[n].exists /\ d.shared = sets[n].shared
        /\ d.manifest = sets[n].manifest /\ d.errors = sets[n].errors
        /\ d.stamped = sets[n].stamped /\ d.enc = sets[n].enc /\ d.file = f /\ d.sum = f
    BY <1>1, <2>2 DEF Dirs
  <2>5. run' = [run EXCEPT ![r] = p]
    BY <1>3, <1>8 DEF Step
  <2> HIDE DEF p, d
  <2>6. SetOK(d) /\ WorkOK(p, d, config.encrypt)
    <3> SUFFICES ASSUME ~d.shared PROVE SetOK(d) /\ WorkOK(p, d, config.encrypt)
      BY DEF SetOK, WorkOK
    <3>1. /\ sets[n].exists /\ sets[n].manifest = "none" /\ ~sets[n].stamped /\ ~sets[n].enc
          /\ \A x \in Parts : WholeFile(sets[n].file[x])
      BY <1>0, <1>1, <1>8, <2>4 DEF WorkOK
    <3>2. \A x \in Parts : WholeFile(f[x]) /\ f[x].enc
      BY <3>1, <2>1 DEF WholeFile
    <3> QED
      BY <3>1, <3>2, <1>0, <1>3, <1>8, <2>4 DEF SetOK, WorkOK
  <2> QED
    BY <1>0, <1>3, <1>5, <2>3, <2>4, <2>5, <2>6, WorkMoves DEF Dir
<1> QED
  BY <1>6, <1>7, <1>8 DEF Encrypt

\* The manifest vouches for what the run has written whole.
LEMMA ManifestOK ==
    ASSUME BackupInv, NEW r \in Runs, WriteManifest(r)
    PROVE  BackupInv'
<1> DEFINE n == run[r].name
           p == [at |-> "verify", name |-> n, failed |-> run[r].failed]
           word == IF run[r].failed = {} THEN "completed" ELSE "failed"
           enc == config.encrypt /\ run[r].failed = {}
           d == [sets[n] EXCEPT !.manifest = word, !.errors = run[r].failed, !.enc = enc]
<1>0. /\ run[r].at = "manifest" /\ run[r].at # "idle" /\ run[r].at \in BeforeManifest
      /\ "verify" \in AfterManifest /\ "verify" \notin BeforeManifest
      /\ Through("manifest") = Parts
  BY DEF WriteManifest, BeforeManifest, AfterManifest, Through
<1>1. /\ run[r] \in Progress /\ n \in SetNames /\ sets[n] \in Dirs
      /\ WorkOK(run[r], sets[n], config.encrypt) /\ SetOK(sets[n])
  BY <1>0, AtWork DEF Dir
<1>2. run[r].failed \in SUBSET Parts
  BY <1>1 DEF Progress
<1>3. /\ p \in Progress /\ p.at = "verify" /\ p.name = n /\ p.failed = run[r].failed
      /\ [run[r] EXCEPT !.at = "verify"] = p
  BY <1>0, <1>1, <1>2 DEF Progress
<1>4. p # NoRun
  BY <1>3 DEF NoRun
<1>5. second' = second /\ config' = config /\ restore' = restore
  BY DEF WriteManifest
<1>6. CASE run' = [run EXCEPT ![r] = NoRun] /\ UNCHANGED sets
  BY <1>0, <1>5, <1>6, DirKept
<1>7. CASE /\ Step(r, "verify")
           /\ sets' = [sets EXCEPT ![n].manifest = word, ![n].errors = run[r].failed, ![n].enc = enc]
  <2>1. sets' = [sets EXCEPT ![n] = d]
    BY <1>1, <1>7 DEF BackupInv, BackupShape
  <2>2. word \in {"completed", "failed"} /\ enc \in BOOLEAN
    BY ConfigOK
  <2>3. enc <=> (config.encrypt /\ run[r].failed = {})
    OBVIOUS
  <2> HIDE DEF enc, word
  <2>4. /\ d \in Dirs /\ d.exists = sets[n].exists /\ d.shared = sets[n].shared
        /\ d.manifest = word /\ d.errors = run[r].failed
        /\ d.stamped = sets[n].stamped /\ d.enc = enc
        /\ d.file = sets[n].file /\ d.sum = sets[n].sum
    BY <1>1, <1>2, <2>2 DEF Dirs
  <2>5. run' = [run EXCEPT ![r] = p]
    BY <1>3, <1>7 DEF Step
  <2> HIDE DEF p, d
  <2>6. SetOK(d) /\ WorkOK(p, d, config.encrypt)
    <3> SUFFICES ASSUME ~d.shared PROVE SetOK(d) /\ WorkOK(p, d, config.encrypt)
      BY DEF SetOK, WorkOK
    <3>1. /\ sets[n].exists /\ ~sets[n].stamped
          /\ \A x \in Parts \ run[r].failed :
                /\ WholeFile(sets[n].file[x]) /\ sets[n].sum[x] = sets[n].file[x]
                /\ sets[n].file[x].enc <=> (config.encrypt /\ run[r].failed = {})
      BY <1>0, <1>1, <2>4 DEF WorkOK
    <3>2. \A x \in Parts \ run[r].failed :
             /\ WholeFile(d.sum[x]) /\ WholeFile(d.file[x])
             /\ d.sum[x].enc = d.enc /\ d.file[x].enc = d.enc
      <4> SUFFICES ASSUME NEW x \in Parts \ run[r].failed
                   PROVE  /\ WholeFile(d.sum[x]) /\ WholeFile(d.file[x])
                          /\ d.sum[x].enc = d.enc /\ d.file[x].enc = d.enc
        OBVIOUS
      <4>1. sets[n].file[x].enc \in BOOLEAN
        BY <1>1 DEF Dirs, Files
      <4>2. sets[n].file[x].enc = enc
        BY <4>1, <3>1, <2>2, <2>3
      <4> QED
        BY <4>2, <3>1, <2>4
    <3>3. Vouched(d)
      BY <3>2, <2>4 DEF Vouched, WholeFile
    <3> QED
      BY <3>1, <3>3, <1>0, <1>3, <2>2, <2>4 DEF SetOK, WorkOK
  <2> QED
    BY <1>0, <1>3, <1>5, <2>1, <2>4, <2>5, <2>6, WorkMoves DEF Dir
<1> QED
  BY <1>6, <1>7 DEF WriteManifest, Dir

\* Only a run without a failed component stamps its set.
LEMMA VerifyOK ==
    ASSUME BackupInv, NEW r \in Runs, Verify(r)
    PROVE  BackupInv'
<1> DEFINE n == run[r].name
           ok == run[r].failed = {} /\ (config.verify => verify_backup(Dir(r)))
           at == IF ok /\ config.offsite THEN "offsite" ELSE "cleanup"
           p == [at |-> at, name |-> n, failed |-> run[r].failed]
           stamped == sets[n].stamped \/ ok
           d == [sets[n] EXCEPT !.stamped = stamped]
<1>0. /\ run[r].at = "verify" /\ run[r].at # "idle" /\ run[r].at \in AfterManifest
      /\ run[r].at \notin BeforeManifest
      /\ at \in AfterManifest /\ at \notin BeforeManifest
  BY DEF Verify, BeforeManifest, AfterManifest
<1>1. /\ run[r] \in Progress /\ n \in SetNames /\ sets[n] \in Dirs
      /\ WorkOK(run[r], sets[n], config.encrypt) /\ SetOK(sets[n])
  BY <1>0, AtWork DEF Dir
<1>2. run[r].failed \in SUBSET Parts /\ (ok => run[r].failed = {})
  BY <1>1 DEF Progress
<1>5. second' = second /\ config' = config /\ restore' = restore
  BY DEF Verify
<1>6. run' = [run EXCEPT ![r].at = at]
  BY DEF Verify, Step
<1>7. sets' = [sets EXCEPT ![n].stamped = stamped]
  BY <1>1 DEF Verify, BackupInv, BackupShape, Dir
<1>8. stamped \in BOOLEAN /\ (stamped <=> sets[n].stamped \/ ok)
  BY <1>1 DEF Dirs
<1>9. sets' = [sets EXCEPT ![n] = d]
  BY <1>7
<1> HIDE DEF at, stamped, ok
<1>3. /\ p \in Progress /\ p.at = at /\ p.name = n /\ p.failed = run[r].failed
      /\ [run[r] EXCEPT !.at = at] = p
  BY <1>0, <1>1, <1>2 DEF Progress
<1>4. p # NoRun
  BY <1>0, <1>3 DEF NoRun, AfterManifest
<1>10. /\ d \in Dirs /\ d.exists = sets[n].exists /\ d.shared = sets[n].shared
       /\ d.manifest = sets[n].manifest /\ d.errors = sets[n].errors
       /\ d.stamped = stamped /\ d.enc = sets[n].enc
       /\ d.file = sets[n].file /\ d.sum = sets[n].sum
  BY <1>1, <1>8 DEF Dirs
<1>11. run' = [run EXCEPT ![r] = p]
  BY <1>3, <1>6
<1> HIDE DEF p, d
<1>12. SetOK(d) /\ WorkOK(p, d, config.encrypt)
  <2> SUFFICES ASSUME ~d.shared PROVE SetOK(d) /\ WorkOK(p, d, config.encrypt)
    BY DEF SetOK, WorkOK
  <2>1. /\ sets[n].exists /\ sets[n].manifest # "none" /\ sets[n].errors = run[r].failed
        /\ Vouched(sets[n])
    BY <1>0, <1>1, <1>10 DEF WorkOK, SetOK
  <2>2. Vouched(d)
    BY <2>1, <1>10 DEF Vouched
  <2>3. d.stamped => d.errors = {}
    BY <2>1, <1>1, <1>2, <1>8, <1>10 DEF SetOK
  <2> QED
    BY <2>1, <2>2, <2>3, <1>0, <1>3, <1>10 DEF SetOK, WorkOK
<1> QED
  BY <1>0, <1>3, <1>5, <1>9, <1>10, <1>11, <1>12, WorkMoves DEF Dir

\* A run either has the directory of its second to itself, or shares it.
LEMMA StartOK ==
    ASSUME BackupInv, NEW r \in Runs, BackupStart(r)
    PROVE  BackupInv'
<1> DEFINE p == [at |-> "mysql", name |-> second, failed |-> {}]
           d == [sets[second] EXCEPT !.exists = TRUE, !.shared = sets[second].exists]
<1>1. /\ second \in SetNames /\ sets[second] \in Dirs /\ SetOK(sets[second])
      /\ run[r] = NoRun /\ ~sets[second].shared
  BY DEF BackupInv, BackupShape, BackupStart
<1>2. /\ p \in Progress /\ p.at = "mysql" /\ p.name = second /\ p.failed = {}
  BY <1>1 DEF Progress, BeforeManifest
<1>3. p # NoRun
  BY <1>2 DEF NoRun
<1>4. sets' = [sets EXCEPT ![second] = d] /\ run' = [run EXCEPT ![r] = p]
  BY <1>1 DEF BackupStart, BackupInv, BackupShape
<1>5. /\ d \in Dirs /\ d.exists /\ d.shared = sets[second].exists
      /\ d.manifest = sets[second].manifest /\ d.stamped = sets[second].stamped
      /\ d.enc = sets[second].enc
  BY <1>1 DEF Dirs
<1>6. second' = second /\ config' = config /\ restore' = restore
  BY DEF BackupStart
<1>7. ~d.shared => /\ d.manifest = "none" /\ ~d.stamped /\ ~d.enc
                   /\ \A q \in Runs : run[q] # NoRun => run[q].name # second
  <2> SUFFICES ASSUME ~d.shared
               PROVE  /\ d.manifest = "none" /\ ~d.stamped /\ ~d.enc
                      /\ \A q \in Runs : run[q] # NoRun => run[q].name # second
    OBVIOUS
  <2>1. sets[second] = NoDir
    BY <1>1, <1>5 DEF SetOK
  <2>2. \A q \in Runs : run[q] # NoRun => run[q].name # second
    BY <1>1, <1>5 DEF BackupInv, WorkOK, Dir
  <2> QED
    BY <1>5, <2>1, <2>2 DEF NoDir
<1> HIDE DEF p, d
<1>8. BackupShape'
  BY <1>1, <1>2, <1>4, <1>5, <1>6 DEF BackupInv, BackupShape
<1>s. /\ \A m \in SetNames : sets'[m] = IF m = second THEN d ELSE sets[m]
      /\ \A q \in Runs : run'[q] = IF q = r THEN p ELSE run[q]
  BY <1>1, <1>4 DEF BackupInv, BackupShape
<1>9. ASSUME NEW m \in SetNames PROVE SetOK(sets'[m])
  <2>1. SetOK(d)
    BY <1>5, <1>7 DEF SetOK
  <2> QED
    BY <2>1, <1>s DEF BackupInv
<1>n. ASSUME NEW q \in Runs, run[q] # NoRun PROVE run[q].name \in SetNames
  BY <1>n DEF BackupInv, BackupShape, Progress
<1>10. ASSUME NEW q \in Runs, run'[q] # NoRun
       PROVE  run'[q].name <= second /\ WorkOK(run'[q], sets'[run'[q].name], config.encrypt)
  <2>1. CASE q = r
    <3>1. WorkOK(p, d, config.encrypt)
      BY <1>2, <1>5, <1>7 DEF WorkOK, Through, BeforeManifest, AfterManifest
    <3>2. second <= second
      BY <1>1 DEF SetNames
    <3> QED
      BY <2>1, <3>1, <3>2, <1>1, <1>2, <1>s
  <2>2. CASE q # r
    <3>1. run'[q] = run[q] /\ run[q] # NoRun
      BY <2>2, <1>10, <1>s
    <3>2. run[q].name \in SetNames /\ run[q].name <= second
          /\ WorkOK(run[q], sets[run[q].name], config.encrypt)
      BY <3>1, <1>n DEF BackupInv, Dir
    <3>3. CASE run[q].name = second
      <4>1. d.shared
        BY <3>1, <3>3, <1>7
      <4> QED
        BY <4>1, <3>1, <3>2, <3>3, <1>s DEF WorkOK
    <3>4. CASE run[q].name # second
      BY <3>1, <3>2, <3>4, <1>s
    <3> QED
      BY <3>3, <3>4
  <2> QED
    BY <2>1, <2>2
<1>11. ASSUME NEW q1 \in Runs, NEW q2 \in Runs, run'[q1] # NoRun, run'[q2] # NoRun,
              run'[q1].name = run'[q2].name, ~sets'[run'[q1].name].shared
       PROVE  q1 = q2
  <2>1. CASE run'[q1].name = second
    BY <2>1, <1>11, <1>s, <1>7, <1>1
  <2>2. CASE run'[q1].name # second
    <3>1. /\ run[q1] # NoRun /\ run'[q1] = run[q1] /\ run[q2] # NoRun /\ run'[q2] = run[q2]
      BY <2>2, <1>11, <1>s, <1>2
    <3>2. ~sets[run[q1].name].shared
      BY <3>1, <2>2, <1>11, <1>n, <1>s
    <3> QED
      BY <3>1, <3>2, <1>11 DEF BackupInv, Dir
  <2> QED
    BY <2>1, <2>2
<1>12. RestoreOK'
  <2> SUFFICES ASSUME restore.at # "idle", ~sets'[restore.name].shared
               PROVE  LET e == sets'[restore.name] IN
                        /\ e.manifest # "none" \/ (~e.exists /\ restore.name < second)
                        /\ config.verify => ~restore.rotten
                        /\ restore.at = "loaded" /\ restore.got.rot => ~e.enc
    BY <1>6 DEF RestoreOK
  <2>1. restore.name \in SetNames
    BY DEF BackupInv, BackupShape, Restores
  <2>2. CASE restore.name # second
    BY <2>1, <2>2, <1>s DEF BackupInv, RestoreOK
  <2>3. CASE restore.name = second
    <3>1. ~d.shared /\ ~sets[second].exists /\ ~sets[second].shared
      BY <1>1, <1>5, <1>s, <2>3
    <3>2. ~(second < second)
      BY <1>1 DEF SetNames
    <3> QED
      BY <3>1, <3>2, <2>3, <1>5, <1>7 DEF BackupInv, RestoreOK
  <2> QED
    BY <2>2, <2>3
<1> QED
  BY <1>6, <1>8, <1>9, <1>10, <1>11, <1>12 DEF BackupInv, Dir

\* Pruning empties old directories; one that is in use counts as shared after.
LEMMA PruneOK ==
    ASSUME BackupInv, cleanup_old_backups,
           run' \in [Runs -> {NoRun} \cup Progress], \A q \in Runs : run'[q] \in {NoRun, run[q]},
           second' = second, config' = config, restore' = restore
    PROVE  BackupInv'
<1> DEFINE gone(m) == [NoDir EXCEPT !.shared = sets[m].shared \/ InUse(m)]
<1>1. ASSUME NEW m \in SetNames
      PROVE  /\ gone(m) \in Dirs /\ ~gone(m).exists /\ gone(m).manifest = "none"
             /\ ~gone(m).stamped /\ ~gone(m).enc
             /\ gone(m).shared <=> sets[m].shared \/ InUse(m)
             /\ ~gone(m).shared => gone(m) = NoDir
  <2> DEFINE s == sets[m].shared \/ InUse(m)
  <2>1. s \in BOOLEAN /\ (s <=> sets[m].shared \/ InUse(m))
    BY DEF BackupInv, BackupShape, Dirs, InUse
  <2>2. NoDir \in Dirs
    BY DEF NoDir, Dirs, NoFile, Files, Parts
  <2>3. /\ ~NoDir.exists /\ NoDir.manifest = "none" /\ ~NoDir.stamped /\ ~NoDir.enc
        /\ NoDir.shared = FALSE
    BY DEF NoDir
  <2> HIDE DEF s
  <2>4. LET g == [NoDir EXCEPT !.shared = s] IN
        /\ g \in Dirs /\ ~g.exists /\ g.manifest = "none" /\ ~g.stamped /\ ~g.enc /\ g.shared = s
    BY <2>1, <2>2, <2>3 DEF Dirs
  <2>5. ~s => [NoDir EXCEPT !.shared = s] = NoDir
    <3>1. ~s => s = FALSE
      BY <2>1
    <3>2. [NoDir EXCEPT !.shared = FALSE] = NoDir
      BY <2>2, <2>3 DEF Dirs
    <3> QED
      BY <3>1, <3>2
  <2> QED
    BY <2>1, <2>4, <2>5 DEF s
<1>2. \A m \in SetNames : sets'[m] = IF m \in Pruned THEN gone(m) ELSE sets[m]
  BY DEF cleanup_old_backups
<1>3. \A m \in Pruned : m \in SetNames /\ m < second
  <2> SUFFICES ASSUME NEW m \in Pruned PROVE m \in SetNames /\ m < second
    OBVIOUS
  <2>1. m \in SetNames /\ m + RetainFor < second
    BY DEF Pruned, list_backup_sets
  <2>2. m \in Nat /\ second \in Nat /\ RetainFor \in Nat
    BY <2>1, BackupAssumption DEF SetNames, BackupInv, BackupShape
  <2>3. m < second
    BY <2>1, <2>2
  <2> QED
    BY <2>1, <2>3
<1> HIDE DEF gone
<1>4. BackupShape'
  <2>1. sets' = [m \in SetNames |-> IF m \in Pruned THEN gone(m) ELSE sets[m]]
    BY DEF cleanup_old_backups, gone
  <2>2. sets' \in [SetNames -> Dirs]
    BY <1>1, <2>1 DEF BackupInv, BackupShape
  <2> QED
    BY <2>2 DEF BackupInv, BackupShape
<1>5. ASSUME NEW m \in SetNames PROVE SetOK(sets'[m])
  BY <1>1, <1>2 DEF SetOK, BackupInv
<1>6. ASSUME NEW m \in SetNames, ~sets'[m].shared PROVE ~sets[m].shared
  BY <1>1, <1>2, <1>6
<1>7. ASSUME NEW q \in Runs, run'[q] # NoRun
      PROVE  /\ run[q] # NoRun /\ run'[q] = run[q] /\ run[q].name \in SetNames
             /\ run'[q].name <= second /\ WorkOK(run'[q], sets'[run'[q].name], config.encrypt)
  <2>1. run[q] # NoRun /\ run'[q] = run[q]
    BY <1>7
  <2>2. /\ run[q].name \in SetNames /\ run[q].name <= second
        /\ WorkOK(run[q], sets[run[q].name], config.encrypt)
    BY <2>1 DEF BackupInv, BackupShape, Progress, Dir
  <2>3. CASE run[q].name \in Pruned
    <3>1. InUse(run[q].name)
      BY <2>1 DEF InUse
    <3>2. sets'[run[q].name].shared
      BY <3>1, <2>2, <2>3, <1>1, <1>2
    <3> QED
      BY <3>2, <2>1, <2>2 DEF WorkOK
  <2>4. CASE run[q].name \notin Pruned
    BY <2>1, <2>2, <2>4, <1>2
  <2> QED
    BY <2>3, <2>4
<1>8. ASSUME NEW q1 \in Runs, NEW q2 \in Runs, run'[q1] # NoRun, run'[q2] # NoRun,
             run'[q1].name = run'[q2].name, ~sets'[run'[q1].name].shared
      PROVE  q1 = q2
  BY <1>6, <1>7, <1>8 DEF BackupInv, Dir
<1>9. RestoreOK'
  <2> SUFFICES ASSUME restore.at # "idle", ~sets'[restore.name].shared
               PROVE  LET e == sets'[restore.name] IN
                        /\ e.manifest # "none" \/ (~e.exists /\ restore.name < second)
                        /\ config.verify => ~restore.rotten
                        /\ restore.at = "loaded" /\ restore.got.rot => ~e.enc
    BY DEF RestoreOK
  <2>1. restore.name \in SetNames
    BY DEF BackupInv, BackupShape, Restores
  <2>2. ~sets[restore.name].shared
    BY <2>1, <1>6
  <2>3. CASE restore.name \in Pruned
    BY <2>1, <2>2, <2>3, <1>1, <1>2, <1>3 DEF BackupInv, RestoreOK
  <2>4. CASE restore.name \notin Pruned
    BY <2>1, <2>2, <2>4, <1>2 DEF BackupInv, RestoreOK
  <2> QED
    BY <2>3, <2>4
<1> QED
  BY <1>4, <1>5, <1>7, <1>8, <1>9 DEF BackupInv, Dir

\* Rot strikes under a manifest, which it leaves alone.
LEMMA RotOK ==
    ASSUME BackupInv, NEW n \in SetNames, NEW c \in Perishable, Rot(n, c)
    PROVE  BackupInv'
<1> DEFINE file == [sets[n].file EXCEPT ![c].rot = TRUE]
           d == [sets[n] EXCEPT !.file = file]
<1>1. sets[n] \in Dirs /\ SetOK(sets[n]) /\ sets[n].manifest # "none"
  BY DEF BackupInv, BackupShape, Rot
<1>2. /\ file \in [Parts -> Files]
      /\ \A x \in Parts : file[x].data = sets[n].file[x].data /\ file[x].enc = sets[n].file[x].enc
  <2>1. \A x \in Parts : LET g == [sets[n].file[x] EXCEPT !.rot = TRUE] IN
           g \in Files /\ g.data = sets[n].file[x].data /\ g.enc = sets[n].file[x].enc
    BY <1>1, ZenonT(60) DEF Dirs, Files
  <2>2. \A x \in Parts : file[x] = IF x = c THEN [sets[n].file[x] EXCEPT !.rot = TRUE] ELSE sets[n].file[x]
    BY <1>1 DEF Dirs
  <2>3. DOMAIN file = Parts /\ file = [x \in Parts |-> file[x]]
    BY <1>1 DEF Dirs
  <2> HIDE DEF file
  <2>4. \A x \in Parts : sets[n].file[x] \in Files
    BY <1>1 DEF Dirs
  <2>5. \A x \in Parts : file[x] \in Files
    BY <2>1, <2>2, <2>4
  <2> QED
    BY <2>1, <2>2, <2>3, <2>5
<1>3. sets' = [sets EXCEPT ![n] = d]
  BY DEF Rot, BackupInv, BackupShape
<1> HIDE DEF file
<1>4. /\ d \in Dirs /\ d.exists = sets[n].exists /\ d.shared = sets[n].shared
      /\ d.manifest = sets[n].manifest /\ d.errors = sets[n].errors
      /\ d.stamped = sets[n].stamped /\ d.enc = sets[n].enc
      /\ d.file = file /\ d.sum = sets[n].sum
  BY <1>1, <1>2 DEF Dirs
<1> HIDE DEF d
<1>5. \A m \in SetNames : sets'[m] = IF m = n THEN d ELSE sets[m]
  BY <1>3 DEF BackupInv, BackupShape
<1>6. second' = second /\ config' = config /\ restore' = restore /\ run' = run
  BY DEF Rot
<1>7. BackupShape'
  BY <1>3, <1>4, <1>6 DEF BackupInv, BackupShape
<1>8. ASSUME NEW m \in SetNames PROVE SetOK(sets'[m])
  <2>1. SetOK(d)
    <3> SUFFICES ASSUME ~d.shared PROVE SetOK(d)
      BY DEF SetOK
    <3>1. Vouched(sets[n]) /\ sets[n].exists
      BY <1>1, <1>4 DEF SetOK, NoDir
    <3>2. sets[n].errors \subseteq Parts
      BY <1>1 DEF Dirs
    <3>3. Vouched(d)
      BY <3>1, <1>2, <1>4 DEF Vouched
    <3> QED
      BY <3>1, <3>3, <1>1, <1>4 DEF SetOK
  <2> QED
    BY <2>1, <1>5 DEF BackupInv
<1>9. ASSUME NEW q \in Runs, run[q] # NoRun
      PROVE  /\ run[q].name \in SetNames /\ run[q].name <= second
             /\ WorkOK(run[q], sets'[run[q].name], config.encrypt)
             /\ sets'[run[q].name].shared = sets[run[q].name].shared
  <2>1. /\ run[q].name \in SetNames /\ run[q].name <= second
        /\ WorkOK(run[q], sets[run[q].name], config.encrypt)
    BY <1>9 DEF BackupInv, BackupShape, Progress, Dir
  <2>2. CASE run[q].name = n
    BY <2>1, <2>2, <1>1, <1>4, <1>5 DEF WorkOK
  <2>3. CASE run[q].name # n
    BY <2>1, <2>3, <1>5
  <2> QED
    BY <2>2, <2>3
<1>10. ASSUME NEW q1 \in Runs, NEW q2 \in Runs, run[q1] # NoRun, run[q2] # NoRun,
              run[q1].name = run[q2].name, ~sets'[run[q1].name].shared
       PROVE  q1 = q2
  BY <1>9, <1>10 DEF BackupInv, Dir
<1>11. RestoreOK'
  <2>1. restore.name \in SetNames
    BY DEF BackupInv, BackupShape, Restores
  <2> QED
    BY <2>1, <1>4, <1>5, <1>6 DEF BackupInv, RestoreOK
<1> QED
  BY <1>6, <1>7, <1>8, <1>9, <1>10, <1>11 DEF BackupInv, Dir

\* A vouched component that matches its checksum has not rotted.
LEMMA MatchOK ==
    ASSUME NEW d \in Dirs, SetOK(d), ~d.shared, verify_backup(d),
           NEW c \in Parts, c \notin d.errors
    PROVE  ~d.file[c].rot
<1>1. d.sum[c] = NoFile \/ d.sum[c] = d.file[c]
  BY DEF verify_backup, _checksum_matches
<1>2. d.sum[c].data = "full" /\ ~d.sum[c].rot
  BY DEF verify_backup, SetOK, Vouched, WholeFile
<1>3. d.sum[c] # NoFile
  BY <1>2 DEF NoFile
<1> QED
  BY <1>1, <1>2, <1>3

LEMMA RestoreMovesOK ==
    ASSUME BackupInv,
           \/ RestoreLoad \/ RestoreEnds \/ Second
           \/ \E n \in SetNames, target \in {"live", "scratch"} : RestoreStart(n, target)
    PROVE  BackupInv'
<1>1. CASE \E n \in SetNames, target \in {"live", "scratch"} : RestoreStart(n, target)
  <2>1. PICK n \in SetNames, target \in {"live", "scratch"} : RestoreStart(n, target)
    BY <1>1
  <2> DEFINE rotten == sets[n].file["mysql"].rot /\ "mysql" \notin sets[n].errors
             x == [at |-> "load", name |-> n, rotten |-> rotten, got |-> NoFile]
  <2>2. /\ n \in SetNames /\ sets[n] \in Dirs /\ SetOK(sets[n]) /\ sets[n].manifest # "none"
        /\ "mysql" \in Parts
    BY <2>1 DEF BackupInv, BackupShape, RestoreStart, Parts
  <2>3. restore' = x
    BY <2>1 DEF RestoreStart, NoRestore
  <2>4. rotten \in BOOLEAN /\ NoFile \in Files
    BY DEF NoFile, Files
  <2>5. ~sets[n].shared /\ config.verify => ~rotten
    BY <2>1, <2>2, MatchOK DEF RestoreStart
  <2> HIDE DEF rotten
  <2>6. x \in Restores
    BY <2>2, <2>4 DEF Restores
  <2>u. config' = config /\ sets' = sets /\ second' = second /\ run' = run
    BY <2>1 DEF RestoreStart
  <2>x. x.at = "load" /\ x.name = n /\ x.rotten = rotten
    OBVIOUS
  <2> HIDE DEF x
  <2>7. RestoreOK'
    BY <2>2, <2>3, <2>5, <2>u, <2>x DEF RestoreOK
  <2> QED
    BY <2>3, <2>6, <2>7, <2>u DEF BackupInv, BackupShape, Dir
<1>2. CASE RestoreLoad
  <2> DEFINE d == sets[restore.name]
             f == IF d.exists THEN Plaintext(d, "mysql") ELSE NoFile
             x == [restore EXCEPT !.at = "loaded", !.got = f]
  <2>1. restore \in Restores /\ d \in Dirs /\ restore.at = "load" /\ "mysql" \in Parts
    BY <1>2 DEF BackupInv, BackupShape, Restores, RestoreLoad, Parts
  <2>2. f \in Files /\ (f.rot => ~d.enc)
    <3>1. NoFile \in Files /\ ~NoFile.rot /\ d.file["mysql"] \in Files
      BY <2>1 DEF NoFile, Files, Dirs
    <3>2. CASE ~d.exists
      BY <3>1, <3>2
    <3>3. CASE d.exists /\ ~d.enc
      BY <3>1, <3>3 DEF Plaintext
    <3>4. CASE d.exists /\ d.enc
      <4>1. f = decrypt_bytes(d.file["mysql"])
        BY <3>4 DEF Plaintext
      <4> QED
        BY <3>1, <4>1 DEF decrypt_bytes, Files
    <3> QED
      BY <3>2, <3>3, <3>4
  <2>3. restore' = x
    BY <1>2 DEF RestoreLoad
  <2> HIDE DEF f
  <2>4. /\ x \in Restores /\ x.at = "loaded" /\ x.got = f
        /\ x.name = restore.name /\ x.rotten = restore.rotten
    BY <2>1, <2>2 DEF Restores
  <2> HIDE DEF x
  <2>5. RestoreOK'
    BY <1>2, <2>1, <2>2, <2>3, <2>4 DEF RestoreLoad, RestoreOK, BackupInv
  <2> QED
    BY <1>2, <2>3, <2>4, <2>5 DEF RestoreLoad, BackupInv, BackupShape, Dir
<1>3. CASE RestoreEnds
  <2>1. NoRestore \in Restores /\ NoRestore.at = "idle"
    BY BackupAssumption DEF NoRestore, Restores, NoFile, Files, SetNames
  <2>2. RestoreOK'
    BY <1>3, <2>1 DEF RestoreEnds, RestoreOK
  <2> QED
    BY <1>3, <2>1, <2>2 DEF RestoreEnds, BackupInv, BackupShape, Dir
<1>4. CASE Second
  <2>1. second \in Nat /\ second' = second + 1 /\ second' \in SetNames
    BY <1>4, BackupAssumption DEF Second, SetNames, BackupInv, BackupShape
  <2>2. \A m \in SetNames : (m <= second => m <= second') /\ (m < second => m < second')
    BY <2>1 DEF SetNames
  <2>3. /\ \A q \in Runs : run[q] # NoRun => run[q].name \in SetNames
        /\ restore.name \in SetNames
    BY DEF BackupInv, BackupShape, Progress, Restores
  <2>4. RestoreOK'
    BY <1>4, <2>2, <2>3 DEF Second, RestoreOK, BackupInv
  <2> QED
    BY <1>4, <2>1, <2>2, <2>3, <2>4 DEF Second, BackupInv, BackupShape, Dir
<1> QED
  BY <1>1, <1>2, <1>3, <1>4

LEMMA BackupStep == BackupInv /\ [BackupNext]_backupVars => BackupInv'
<1> SUFFICES ASSUME BackupInv, [BackupNext]_backupVars PROVE BackupInv'
  OBVIOUS
<1>1. ASSUME NEW r \in Runs,
             \/ BackupStart(r) \/ Encrypt(r) \/ WriteManifest(r) \/ Verify(r)
             \/ Replicate(r) \/ BackupDies(r)
      PROVE  BackupInv'
  BY <1>1, StartOK, EncryptOK, ManifestOK, VerifyOK, DiesOK
<1>2. ASSUME NEW r \in Runs, NEW c \in Parts,
             ComponentOpen(r, c) \/ ComponentDone(r, c) \/ ComponentFails(r, c)
      PROVE  BackupInv'
  BY <1>2, OpenOK, DoneOK, FailsOK
<1>3. ASSUME NEW r \in Runs, Cleanup(r) PROVE BackupInv'
  <2>1. /\ run' \in [Runs -> {NoRun} \cup Progress]
        /\ \A q \in Runs : run'[q] \in {NoRun, run[q]}
    BY <1>3 DEF Cleanup, BackupInv, BackupShape
  <2> QED
    BY <1>3, <2>1, PruneOK DEF Cleanup
<1>4. CASE CleanupCommand
  <2>1. /\ run' \in [Runs -> {NoRun} \cup Progress]
        /\ \A q \in Runs : run'[q] \in {NoRun, run[q]}
    BY <1>4 DEF CleanupCommand, BackupInv, BackupShape
  <2> QED
    BY <1>4, <2>1, PruneOK DEF CleanupCommand
<1>5. ASSUME NEW n \in SetNames, NEW c \in Perishable, Rot(n, c) PROVE BackupInv'
  BY <1>5, RotOK
<1>6. CASE \/ RestoreLoad \/ RestoreEnds \/ Second
           \/ \E n \in SetNames, target \in {"live", "scratch"} : RestoreStart(n, target)
  BY <1>6, RestoreMovesOK
<1>7. CASE UNCHANGED backupVars
  BY <1>7 DEF backupVars, BackupInv, BackupShape, RestoreOK, Dir
<1> QED
  BY <1>1, <1>2, <1>3, <1>4, <1>5, <1>6, <1>7 DEF BackupNext

LEMMA BackupStarts == BackupInit => BackupInv
<1> SUFFICES ASSUME BackupInit PROVE BackupInv
  OBVIOUS
<1>1. /\ NoFile \in Files /\ NoDir \in Dirs /\ 0 \in SetNames
      /\ NoDir.manifest = "none" /\ ~NoDir.stamped /\ ~NoDir.shared
  BY BackupAssumption DEF NoFile, Files, NoDir, Dirs, SetNames, Parts
<1>2. NoRestore \in Restores /\ NoRestore.at = "idle"
  BY <1>1 DEF NoRestore, Restores
<1>3. BackupShape
  BY <1>1, <1>2 DEF BackupInit, BackupShape
<1>4. SetOK(NoDir)
  BY <1>1 DEF SetOK
<1> QED
  BY <1>2, <1>3, <1>4 DEF BackupInit, BackupInv, RestoreOK

\* What the invariant says of a stamped set, and of a restore.
LEMMA Restorable == BackupInv => SuccessIsRestorable /\ FailsClosed
<1> SUFFICES ASSUME BackupInv PROVE SuccessIsRestorable /\ FailsClosed
  OBVIOUS
<1>1. ASSUME NEW n \in SetNames, sets[n].stamped, ~sets[n].shared,
             \A c \in Parts : ~sets[n].file[c].rot
      PROVE  verify_backup(sets[n]) /\ Plaintext(sets[n], "mysql").data = "full"
  <2> DEFINE d == sets[n]
  <2>1. d \in Dirs /\ d.manifest # "none" /\ d.errors = {} /\ Vouched(d)
    BY <1>1 DEF BackupInv, BackupShape, SetOK
  <2>2. ASSUME NEW c \in Parts
        PROVE  /\ _checksum_matches(d, c) /\ StructureHolds(Plaintext(d, c), c)
               /\ Plaintext(d, c).data = "full"
    <3>1. /\ d.sum[c] \in Files /\ d.file[c] \in Files
          /\ d.sum[c].data = "full" /\ ~d.sum[c].rot /\ d.sum[c].enc = d.enc
          /\ d.file[c].data = "full" /\ ~d.file[c].rot /\ d.file[c].enc = d.enc
      BY <1>1, <2>1 DEF Dirs, Vouched, WholeFile
    <3>2. d.sum[c] = d.file[c]
      BY <3>1 DEF Files
    <3>3. Plaintext(d, c).data = "full" /\ ~Plaintext(d, c).enc /\ ~Plaintext(d, c).rot
      BY <3>1 DEF Plaintext, decrypt_bytes, Files
    <3> QED
      BY <3>2, <3>3 DEF _checksum_matches, StructureHolds
  <2> QED
    BY <2>1, <2>2 DEF verify_backup, Parts
<1>2. FailsClosed
  BY DEF BackupInv, RestoreOK, FailsClosed
<1> QED
  BY <1>1, <1>2 DEF SuccessIsRestorable

\* A directory that goes is one of those sorted behind the newest keep.
LEMMA KeepsNewest ==
    ASSUME BackupInv, [BackupNext]_backupVars, NEW n \in list_backup_sets,
           Cardinality(NewerSets(n)) < keep
    PROVE  sets'[n].exists
<1>1. n \in SetNames /\ sets[n].exists /\ sets \in [SetNames -> Dirs]
  BY DEF list_backup_sets, BackupInv, BackupShape
<1>2. n \notin Pruned
  <2>1. NewerSets(n) \subseteq 0 .. MaxSecond
    BY DEF NewerSets, list_backup_sets, SetNames
  <2>2. IsFiniteSet(NewerSets(n))
    <3>1. 0 \in Int /\ MaxSecond \in Int
      BY BackupAssumption
    <3>2. IsFiniteSet(0 .. MaxSecond)
      BY <3>1, FS_Interval
    <3> QED
      BY <2>1, <3>2, FS_Subset
  <2>3. Cardinality(NewerSets(n)) \in Nat
    BY <2>2, FS_CardinalityType
  <2>4. keep \in Nat
    BY BackupAssumption DEF keep
  <2> QED
    BY <2>3, <2>4 DEF Pruned
<1>3. CASE cleanup_old_backups
  BY <1>1, <1>2, <1>3 DEF cleanup_old_backups
<1>4. CASE ~cleanup_old_backups
  <2>1. ASSUME NEW r \in Runs,
               \/ BackupStart(r) \/ Encrypt(r) \/ WriteManifest(r) \/ Verify(r)
               \/ Replicate(r) \/ BackupDies(r)
        PROVE  sets'[n].exists
    <3>1. CASE BackupStart(r)
      BY <1>1, <3>1 DEF BackupStart, Dirs
    <3>2. CASE Encrypt(r)
      BY <1>1, <3>2 DEF Encrypt, Dirs
    <3>3. CASE WriteManifest(r)
      <4> DEFINE word == IF run[r].failed = {} THEN "completed" ELSE "failed"
                 enc == config.encrypt /\ run[r].failed = {}
      <4>1. \/ sets' = sets
            \/ sets' = [sets EXCEPT ![run[r].name].manifest = word,
                                    ![run[r].name].errors = run[r].failed, ![run[r].name].enc = enc]
        BY <3>3 DEF WriteManifest
      <4> HIDE DEF word, enc
      <4> QED
        BY <1>1, <4>1 DEF Dirs
    <3>4. CASE Verify(r)
      BY <1>1, <3>4 DEF Verify, Dirs
    <3>5. CASE Replicate(r) \/ BackupDies(r)
      BY <1>1, <3>5 DEF Replicate, BackupDies
    <3> QED
      BY <2>1, <3>1, <3>2, <3>3, <3>4, <3>5
  <2>2. ASSUME NEW r \in Runs, NEW c \in Parts,
               ComponentOpen(r, c) \/ ComponentDone(r, c) \/ ComponentFails(r, c)
        PROVE  sets'[n].exists
    <3>1. CASE ComponentOpen(r, c)
      BY <1>1, <3>1 DEF ComponentOpen, Dirs
    <3>2. CASE ComponentDone(r, c)
      BY <1>1, <3>2 DEF ComponentDone, Dirs
    <3>3. CASE ComponentFails(r, c)
      BY <1>1, <3>3 DEF ComponentFails, Dirs
    <3> QED
      BY <2>2, <3>1, <3>2, <3>3
  <2>3. ASSUME NEW m \in SetNames, NEW c \in Perishable, Rot(m, c) PROVE sets'[n].exists
    BY <1>1, <2>3 DEF Rot, Dirs
  <2>4. ASSUME NEW m \in SetNames, NEW target \in {"live", "scratch"}, RestoreStart(m, target)
        PROVE  sets'[n].exists
    BY <1>1, <2>4 DEF RestoreStart
  <2>5. CASE RestoreLoad \/ RestoreEnds \/ Second \/ UNCHANGED backupVars
    BY <1>1, <2>5 DEF RestoreLoad, RestoreEnds, Second, backupVars
  <2> QED
    BY <1>4, <2>1, <2>2, <2>3, <2>4, <2>5 DEF BackupNext, Cleanup, CleanupCommand
<1> QED
  BY <1>3, <1>4

\* The step the property is about.
LEMMA BackupStepOK ==
    BackupInv /\ [BackupNext]_backupVars =>
      [/\ SuccessIsRestorable' /\ FailsClosed'
       /\ \A n \in list_backup_sets : Cardinality(NewerSets(n)) < keep => sets'[n].exists]_backupVars
<1> SUFFICES ASSUME BackupInv, [BackupNext]_backupVars
             PROVE  /\ SuccessIsRestorable' /\ FailsClosed'
                    /\ \A n \in list_backup_sets : Cardinality(NewerSets(n)) < keep => sets'[n].exists
  OBVIOUS
<1>1. BackupInv'
  BY BackupStep
<1>2. SuccessIsRestorable' /\ FailsClosed'
  BY <1>1, Restorable, PTL
<1> QED
  BY <1>2, KeepsNewest

\* A set whose run reported success verifies and restores, however many runs
\* there are and whoever dies or prunes meanwhile; no restore loads what rotted
\* where it could have known; and pruning keeps the newest directories.
THEOREM BackupTheorem == BackupSpec => BackupsHold
BY BackupStarts, BackupStep, BackupStepOK, PTL DEF BackupSpec, BackupsHold
=============================================================================
