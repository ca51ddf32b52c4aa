-------------------------- MODULE RemediationProofs --------------------------
(***************************************************************************)
(* Theorems about Remediation for every number of findings, scans, people, *)
(* verification requests and acceptances, and every bound on the versions. *)
(***************************************************************************)
EXTENDS Remediation, FiniteSetTheorems, TLAPS

-----------------------------------------------------------------------------
(* The inductive invariant                                                 *)

\* The rows a session has written and not committed.
Pends == UNION {[D -> Row] : D \in SUBSET Fingerprints}

Sessions == [at : {"idle", "write", "item", "cas"}, f : Fingerprints \cup {None},
             seen : Row \cup {None}, ver : Nat, pend : Pends]

\* What a request has read, by the endpoint it is at.
Ops ==
    {Idle} \cup [at : {"status"}, f : Fingerprints, new : Settable]
           \cup [at : {"transition"}, to : ItemStatuses, ver : Nat]
           \cup [at : {"verify"}, scan : Scans \cup {None}, ver : Nat]
           \cup [at : {"complete"}, r : Requests]
           \cup [at : {"decided"}, r : Requests, ver : Nat,
                 verdict : {"passed", "failed", "incomplete_coverage"},
                 to : {"verified", "in_progress"}]
           \cup [at : {"accept"}, f : Fingerprints, ver : Nat]
           \cup [at : {"revoke"}, a : Acceptances]

Versioned == {"transition", "verify", "decided", "accept"}

Tables ==
    /\ vulns \in [Fingerprints -> Row \cup {None}]
    /\ scan \in [Scans -> [st : {"running", "done"}, cov : BOOLEAN]]
    /\ saw \in [Scans -> SUBSET Fingerprints]
    /\ tx \in [Scans -> Sessions]
    /\ op \in [Clients -> Ops]
    /\ item \in ItemRow \cup {None}
    /\ req \in [Requests -> ReqRow \cup {None}]
    /\ acc \in [Acceptances -> AccRow \cup {None}]

\* The stamps agree with the status.
StampsAgree ==
    item # None => /\ item.resolved <=> item.status \in Resolved
                   /\ item.verified <=> item.status \in {"verified", "closed"}

\* A request of a client holds rows that are still there, no version the item
\* has not reached, and, as long as the version it read is the present one,
\* checks that are still true: this is what the lock of _bump_version is for.
\* Which retest a completion relies on cannot change any more.
OpOK(c) ==
    /\ op[c].at = "status" => vulns[op[c].f] # None
    /\ op[c].at = "revoke" => acc[op[c].a] # None
    /\ op[c].at \in {"complete", "decided"} => req[op[c].r] # None /\ req[op[c].r].scan # None
    /\ op[c].at \in Versioned /\ op[c].ver # 0 => item # None /\ op[c].ver <= item.version
    /\ op[c].at = "transition" /\ VersionHolds(op[c].ver) =>
          is_legal(item.status, op[c].to) /\ op[c].to \notin GuardedTargets
    /\ op[c].at = "verify" /\ VersionHolds(op[c].ver) =>
          is_legal(item.status, "awaiting_verification") /\ Outstanding = {}
    /\ op[c].at = "decided" /\ VersionHolds(op[c].ver) => is_legal(item.status, op[c].to)
    /\ op[c].at = "accept" /\ VersionHolds(op[c].ver) => is_legal(item.status, "risk_accepted")
    /\ op[c].at = "verify" /\ op[c].scan # None => scan[op[c].scan].st = "done"
    /\ op[c].at = "decided" /\ op[c].to = "verified" =>
          op[c].verdict = "passed" /\ UsableCoverage(req[op[c].r].scan)

\* The same of an ingest session, for the row and for the item it read.
TxOK(s) ==
    /\ tx[s].at = "write" => /\ tx[s].f \in Fingerprints
                             /\ tx[s].seen # None => Visible(s, tx[s].f) # None
    /\ tx[s].at = "cas" => item # None /\ tx[s].ver <= item.version
    /\ tx[s].at = "cas" /\ VersionHolds(tx[s].ver) => is_legal(item.status, "reopened")

\* A request belongs to an item, and the retest it links has ended.
ReqOK(r) ==
    req[r] # None => /\ item # None
                     /\ req[r].scan # None => scan[req[r].scan].st = "done"

OneAtATime == \A r, q \in Outstanding : r = q

RemInv ==
    /\ Tables /\ StampsAgree /\ OneAtATime
    /\ \A c \in Clients : OpOK(c)
    /\ \A s \in Scans : TxOK(s)
    /\ \A r \in Requests : ReqOK(r)

-----------------------------------------------------------------------------
(* Operators                                                               *)

\* What the record of a request holds at each endpoint.
LEMMA OpShape ==
    ASSUME NEW o \in Ops
    PROVE  /\ o.at = "status" => o.f \in Fingerprints /\ o.new \in Settable
           /\ o.at = "transition" => o.to \in ItemStatuses /\ o.ver \in Nat
           /\ o.at = "verify" => o.scan \in Scans \cup {None} /\ o.ver \in Nat
           /\ o.at = "complete" => o.r \in Requests
           /\ o.at = "decided" => /\ o.r \in Requests /\ o.ver \in Nat
                                  /\ o.verdict \in {"passed", "failed", "incomplete_coverage"}
                                  /\ o.to \in {"verified", "in_progress"}
           /\ o.at = "accept" => o.f \in Fingerprints /\ o.ver \in Nat
           /\ o.at = "revoke" => o.a \in Acceptances
BY DEF Ops, Idle

\* The rows a session has written are rows of known findings.
LEMMA PendShape ==
    ASSUME NEW p \in Pends
    PROVE  DOMAIN p \subseteq Fingerprints /\ \A f \in DOMAIN p : p[f] \in Row
BY DEF Pends

\* An empty session.
LEMMA PendEmpty == Empty \in Pends
BY DEF Pends, Empty

\* One more row in a session.
LEMMA PendWritten ==
    ASSUME NEW s \in Scans, tx[s].pend \in Pends, tx[s].f \in Fingerprints, NEW row \in Row
    PROVE  Written(s, row) \in Pends
<1> DEFINE D == DOMAIN tx[s].pend \cup {tx[s].f}
<1>1. D \in SUBSET Fingerprints
  BY PendShape
<1>2. \A g \in D : (IF g = tx[s].f THEN row ELSE tx[s].pend[g]) \in Row
  BY PendShape
<1>3. Written(s, row) \in [D -> Row]
  BY <1>2 DEF Written
<1> QED
  BY <1>1, <1>3 DEF Pends

\* A session at rest.
LEMMA RestType == \A p \in Pends : Rest(p) \in Sessions
BY DEF Rest, Sessions

\* What a session sees of a finding is a row or nothing.
LEMMA VisibleType ==
    ASSUME Tables, NEW s \in Scans, NEW f \in Fingerprints
    PROVE  Visible(s, f) \in Row \cup {None}
<1>1. tx[s].pend \in Pends /\ vulns[f] \in Row \cup {None}
  BY DEF Tables, Sessions
<1> QED
  BY <1>1, PendShape DEF Visible, Holds

\* Every legal move leads to a status, and the stamps follow it.
LEMMA MovedOK ==
    ASSUME item \in ItemRow, StampsAgree, Room, NEW to \in ItemStatuses,
           is_legal(item.status, to), MaxVersion \in Nat
    PROVE  /\ Moved(to) \in ItemRow /\ Moved(to).status = to
           /\ Moved(to).version = item.version + 1
           /\ Moved(to).resolved <=> to \in Resolved
           /\ Moved(to).verified <=> to \in {"verified", "closed"}
<1>1. item # None /\ item.version \in Nat /\ item.version + 1 \in 1 .. MaxVersion
  BY DEF Room, ItemRow
<1>2. Moved(to).status = to /\ Moved(to).version = item.version + 1
  BY DEF Moved
<1>3. Moved(to).resolved \in BOOLEAN /\ Moved(to).verified \in BOOLEAN
  BY DEF Moved, ItemRow
<1>4. Moved(to) \in ItemRow
  BY <1>1, <1>3 DEF Moved, ItemRow
<1>5. item.status \in ItemStatuses
  BY DEF ItemRow
<1>6. Moved(to).resolved <=> to \in Resolved
  <2>1. to = "rejected" => item.status \notin Resolved
    BY <1>5 DEF is_legal, Resolved, ItemStatuses, OpenStatuses
  <2> QED
    BY <1>1, <2>1 DEF Moved, StampsAgree, ItemStatuses, OpenStatuses, Resolved
<1>7. Moved(to).verified <=> to \in {"verified", "closed"}
  <2>1. /\ to = "closed" => item.status \in {"verified", "closed"}
        /\ to \in {"rejected", "risk_accepted", "awaiting_verification"} =>
              item.status \notin {"verified", "closed"}
    BY <1>5 DEF is_legal, Resolved, ItemStatuses, OpenStatuses
  <2> QED
    BY <1>1, <2>1 DEF Moved, StampsAgree, ItemStatuses, OpenStatuses, Resolved
<1> QED
  BY <1>2, <1>4, <1>6, <1>7

-----------------------------------------------------------------------------
(* What no step takes back                                                 *)

\* Rows stay, a scan that ended stays as it is, a request keeps its retest,
\* and either the item and the outstanding requests do not grow, or the item
\* is new, or its version moves on by one.
Grows ==
    /\ \A f \in Fingerprints : vulns[f] # None => vulns'[f] # None
    /\ \A a \in Acceptances : acc[a] # None => acc'[a] # None
    /\ \A r \in Requests : req[r] # None => req'[r] # None /\ req'[r].scan = req[r].scan
    /\ \A s \in Scans : scan[s].st = "done" => scan'[s] = scan[s]
    /\ \/ item' = item /\ Outstanding' \subseteq Outstanding
       \/ /\ item = None /\ item' # None /\ item'.version = 1
          /\ Outstanding' \subseteq Outstanding
       \/ item # None /\ item' # None /\ item'.version = item.version + 1

\* A request in flight stays sound while others work.
LEMMA OpFrame ==
    ASSUME RemInv, Grows, NEW c \in Clients, op'[c] = op[c] \/ op'[c] = Idle
    PROVE  OpOK(c)'
<1> DEFINE o == op[c]
<1>1. CASE op'[c] = Idle
  BY <1>1 DEF OpOK, Idle, Versioned
<1>2. CASE op'[c] = o
  <2>1. o \in Ops /\ OpOK(c)
    BY DEF RemInv, Tables
  <2>2. item # None => item.version \in Nat /\ item.version >= 1
    BY MaxVersionAssumption DEF RemInv, Tables, ItemRow
  <2>3. o.at \in Versioned => o.ver \in Nat
    BY <2>1, OpShape DEF Versioned
  <2>4. /\ o.at = "status" => vulns'[o.f] # None
        /\ o.at = "revoke" => acc'[o.a] # None
    BY <2>1, OpShape DEF OpOK, Grows
  <2>5. o.at \in {"complete", "decided"} => /\ req'[o.r] # None /\ req'[o.r].scan # None
                                            /\ req'[o.r].scan = req[o.r].scan
    BY <2>1, OpShape DEF OpOK, Grows
  <2>6. o.at \in Versioned /\ o.ver # 0 => item' # None /\ o.ver <= item'.version
    BY <2>1, <2>2, <2>3 DEF OpOK, Grows
  <2>7. o.at \in Versioned /\ VersionHolds(o.ver)' =>
           item' = item /\ VersionHolds(o.ver) /\ Outstanding' \subseteq Outstanding
    <3> SUFFICES ASSUME o.at \in Versioned, item' # None, item'.version = o.ver
                 PROVE  item' = item /\ VersionHolds(o.ver) /\ Outstanding' \subseteq Outstanding
      BY <1>2 DEF VersionHolds
    <3>1. CASE o.ver = 0
      <4>1. item' # item
        BY <3>1, <2>2
      <4>2. item'.version = 1 \/ (item # None /\ item'.version = item.version + 1)
        BY <4>1 DEF Grows
      <4> QED
        BY <4>2, <3>1, <2>2
    <3>2. CASE o.ver # 0
      <4>1. item # None /\ o.ver <= item.version
        BY <3>2, <2>1 DEF OpOK
      <4> QED
        BY <4>1, <2>2, <2>3 DEF Grows, VersionHolds
    <3> QED
      BY <3>1, <3>2
  <2>8. o.at = "verify" /\ o.scan # None => scan'[o.scan].st = "done"
    BY <2>1, OpShape DEF OpOK, Grows
  <2>9. o.at = "decided" /\ o.to = "verified" =>
           o.verdict = "passed" /\ UsableCoverage(req[o.r].scan)'
    <3> SUFFICES ASSUME o.at = "decided", o.to = "verified"
                 PROVE  o.verdict = "passed" /\ UsableCoverage(req[o.r].scan)'
      OBVIOUS
    <3>1. o.r \in Requests /\ req[o.r] # None /\ req[o.r].scan # None
      BY <2>1, OpShape DEF OpOK
    <3>2. req[o.r].scan \in Scans /\ scan[req[o.r].scan].st = "done"
      BY <3>1 DEF RemInv, Tables, ReqOK, ReqRow
    <3>3. o.verdict = "passed" /\ scan[req[o.r].scan].cov
      BY <2>1 DEF OpOK, UsableCoverage
    <3> QED
      BY <1>2, <3>1, <3>2, <3>3, <2>5 DEF UsableCoverage, Grows
  <2> QED
    BY <1>2, <2>1, <2>4, <2>5, <2>6, <2>7, <2>8, <2>9 DEF OpOK, Versioned
<1> QED
  BY <1>1, <1>2

\* So does an ingest session.
LEMMA TxFrame ==
    ASSUME RemInv, Grows, NEW s \in Scans,
           tx'[s] = tx[s] \/ tx'[s].at \in {"idle", "item"}
    PROVE  TxOK(s)'
<1>1. CASE tx'[s].at \in {"idle", "item"}
  BY <1>1 DEF TxOK
<1>2. CASE tx'[s] = tx[s]
  <2>1. TxOK(s) /\ tx[s] \in Sessions
    BY DEF RemInv, Tables
  <2>2. item # None => item.version \in Nat
    BY MaxVersionAssumption DEF RemInv, Tables, ItemRow
  <2>3. \A f \in Fingerprints : Visible(s, f) # None => Visible(s, f)' # None
    BY <1>2 DEF Visible, Holds, Grows
  <2>4. tx[s].at = "write" =>
           /\ tx[s].f \in Fingerprints
           /\ tx[s].seen # None => Visible(s, tx[s].f)' # None
    BY <1>2, <2>1, <2>3 DEF TxOK
  <2>5. tx[s].at = "cas" => item' # None /\ tx[s].ver <= item'.version
    BY <2>1, <2>2 DEF TxOK, Grows, Sessions
  <2>6. tx[s].at = "cas" /\ item' # None /\ item'.version = tx[s].ver => item' = item
    BY <2>1, <2>2 DEF TxOK, Grows, Sessions
  <2> QED
    BY <1>2, <2>1, <2>4, <2>5, <2>6 DEF TxOK, VersionHolds
<1> QED
  BY <1>1, <1>2

\* And a verification request that is not written.
LEMMA ReqFrame ==
    ASSUME RemInv, Grows, NEW r \in Requests,
           req[r] = None => req'[r] = None
    PROVE  ReqOK(r)'
<1>1. ReqOK(r) /\ req[r] \in ReqRow \cup {None}
  BY DEF RemInv, Tables
<1>2. req[r] # None => req'[r].scan = req[r].scan /\ item # None
  BY <1>1 DEF Grows, ReqOK
<1>3. item # None => item' # None
  BY DEF Grows
<1>4. req[r] # None /\ req[r].scan # None =>
         req[r].scan \in Scans /\ scan'[req[r].scan] = scan[req[r].scan]
  BY <1>1 DEF ReqRow, Grows, ReqOK
<1> QED
  BY <1>1, <1>2, <1>3, <1>4 DEF ReqOK

\* The parts of the invariant, put together for a step that writes no new
\* request: what is left to show is about the tables and about the actor.
LEMMA Frame ==
    ASSUME RemInv, Grows, Tables', StampsAgree',
           Outstanding' \subseteq Outstanding,
           \A r \in Requests : req[r] = None => req'[r] = None,
           \A c \in Clients : op'[c] = op[c] \/ op'[c] = Idle \/ OpOK(c)',
           \A s \in Scans : tx'[s] = tx[s] \/ tx'[s].at \in {"idle", "item"} \/ TxOK(s)'
    PROVE  RemInv'
<1>1. \A c \in Clients : OpOK(c)'
  BY OpFrame
<1>2. \A s \in Scans : TxOK(s)'
  BY TxFrame
<1>3. \A r \in Requests : ReqOK(r)'
  BY ReqFrame
<1>4. OneAtATime'
  BY DEF RemInv, OneAtATime
<1> QED
  BY <1>1, <1>2, <1>3, <1>4 DEF RemInv

-----------------------------------------------------------------------------
(* Steps on the vulnerability rows                                         *)

\* What a new row looks like.
LEMMA NewRowType ==
    ASSUME Tables, NEW s \in Scans, NEW f \in Fingerprints
    PROVE  NewRow(s, f) \in Row
<1>1. find_ancestor(s, f) \in Fingerprints \cup {None}
  <2>1. CASE Cardinality(Matches(s, f)) = 1
    <3>1. Matches(s, f) # {}
      BY <2>1, FS_EmptySet
    <3>2. (CHOOSE g \in Matches(s, f) : TRUE) \in Matches(s, f)
      BY <3>1
    <3> QED
      BY <2>1, <3>2 DEF find_ancestor, Matches
  <2>2. CASE Cardinality(Matches(s, f)) # 1
    BY <2>2 DEF find_ancestor
  <2> QED
    BY <2>1, <2>2
<1> DEFINE a == find_ancestor(s, f)
<1>2. (IF a # None /\ Visible(s, a).status \in Sticky
          THEN Visible(s, a).status ELSE "open") \in VulnStatuses
  BY DEF Sticky, VulnStatuses, Settable
<1> HIDE DEF a
<1> QED
  BY <1>1, <1>2 DEF NewRow, Row, a

\* A recurring finding stays a row.
LEMMA RefreshedType ==
    ASSUME Tables, NEW s \in Scans, tx[s].f \in Fingerprints, Visible(s, tx[s].f) # None
    PROVE  Refreshed(s) \in Row
<1>1. Visible(s, tx[s].f) \in Row
  BY VisibleType
<1> QED
  BY <1>1 DEF Refreshed, Row, VulnStatuses

\* A step that leaves the remediation tables alone only has to keep the rows.
LEMMA RowsFrame ==
    ASSUME RemInv, Tables', UNCHANGED <<item, req, acc>>,
           \A f \in Fingerprints : vulns[f] # None => vulns'[f] # None,
           \A s \in Scans : scan[s].st = "done" => scan'[s] = scan[s],
           \A c \in Clients : op'[c] = op[c] \/ op'[c] = Idle \/ OpOK(c)',
           \A s \in Scans : tx'[s] = tx[s] \/ tx'[s].at \in {"idle", "item"} \/ TxOK(s)'
    PROVE  RemInv'
<1>1. Outstanding' = Outstanding
  BY DEF Outstanding
<1>2. Grows
  BY <1>1 DEF Grows
<1>3. StampsAgree'
  BY DEF RemInv, StampsAgree
<1> QED
  BY <1>1, <1>2, <1>3, Frame

\* What the session sees is what a commit writes: no row is lost.
LEMMA CommitOK ==
    ASSUME Tables, NEW s \in Scans, CommitRows(s)
    PROVE  /\ vulns' \in [Fingerprints -> Row \cup {None}]
           /\ saw' \in [Scans -> SUBSET Fingerprints]
           /\ \A f \in Fingerprints : vulns[f] # None => vulns'[f] # None
<1>1. tx[s].pend \in Pends
  BY DEF Tables, Sessions
<1>2. vulns' \in [Fingerprints -> Row \cup {None}]
  BY VisibleType DEF CommitRows
<1>3. saw' \in [Scans -> SUBSET Fingerprints]
  BY <1>1, PendShape DEF CommitRows, Tables
<1>4. \A f \in Fingerprints : vulns[f] # None => vulns'[f] # None
  BY <1>1, PendShape, NoRowAssumption DEF CommitRows, Visible, Holds
<1> QED
  BY <1>2, <1>3, <1>4

\* Ingestion and the analyst's endpoint.
LEMMA FindingsStep ==
    ASSUME RemInv, FindingsNext, UNCHANGED <<item, req, acc>>
    PROVE  RemInv'
<1>t. Tables
  BY DEF RemInv
<1>p. \A t \in Scans : tx[t] \in Sessions /\ tx[t].pend \in Pends /\ TxOK(t)
  BY <1>t DEF RemInv, Tables, Sessions
<1>s. ASSUME NEW s \in Scans,
             \/ \E f \in Fingerprints : IngestRead(s, f)
             \/ IngestCreate(s) \/ IngestCollides(s) \/ IngestRefresh(s)
             \/ CommitBatch(s) \/ EndScan(s)
      PROVE  RemInv'
  <2>1. ASSUME NEW f \in Fingerprints, IngestRead(s, f) PROVE RemInv'
    <3>1. Visible(s, f) \in Row \cup {None}
      BY <1>t, VisibleType
    <3>2. Tables'
      BY <1>t, <1>p, <2>1, <3>1, ZenonT(60) DEF Tables, IngestRead, Sessions
    <3>3. tx'[s].at = "write" /\ tx'[s].f = f /\ tx'[s].seen = Visible(s, f)
          /\ tx'[s].pend = tx[s].pend
      BY <1>t, <1>p, <2>1 DEF IngestRead, Sessions, Tables
    <3>4. TxOK(s)'
      BY <3>3, <2>1 DEF TxOK, IngestRead, Visible, Holds
    <3>5. \A t \in Scans : t # s => tx'[t] = tx[t]
      BY <1>t, <2>1 DEF IngestRead, Tables
    <3> QED
      BY <2>1, <3>2, <3>4, <3>5, RowsFrame DEF IngestRead
  <2>2. CASE IngestCreate(s)
    <3>1. tx[s].f \in Fingerprints
      BY <2>2, <1>p DEF IngestCreate, TxOK
    <3>2. Rest(Written(s, NewRow(s, tx[s].f))) \in Sessions
      BY <3>1, <1>t, <1>p, NewRowType, PendWritten, RestType
    <3>3. Tables'
      BY <1>t, <2>2, <3>2 DEF Tables, IngestCreate
    <3>4. \A t \in Scans : tx'[t] = tx[t] \/ tx'[t].at = "idle"
      BY <1>t, <2>2 DEF Tables, IngestCreate, Rest
    <3> QED
      BY <2>2, <3>3, <3>4, RowsFrame DEF IngestCreate
  <2>3. CASE IngestCollides(s)
    <3>1. Tables'
      BY <1>t, <2>3, RestType, PendEmpty DEF Tables, IngestCollides
    <3>2. \A t \in Scans : tx'[t] = tx[t] \/ tx'[t].at = "idle"
      BY <1>t, <2>3 DEF Tables, IngestCollides, Rest
    <3> QED
      BY <2>3, <3>1, <3>2, RowsFrame DEF IngestCollides
  <2>4. CASE IngestRefresh(s)
    <3>1. tx[s].f \in Fingerprints /\ Visible(s, tx[s].f) # None
      BY <2>4, <1>p DEF IngestRefresh, TxOK
    <3>2. Rest(Written(s, Refreshed(s))) \in Sessions
      BY <3>1, <1>t, <1>p, RefreshedType, PendWritten, RestType
    <3>3. tx'[s] \in Sessions /\ tx'[s].at \in {"idle", "item"}
      BY <1>t, <2>4, <3>2 DEF Tables, IngestRefresh, Sessions
    <3>4. \A t \in Scans : t # s => tx'[t] = tx[t]
      BY <1>t, <2>4 DEF Tables, IngestRefresh
    <3>5. tx' \in [Scans -> Sessions]
      BY <1>t, <2>4, <3>3 DEF Tables, IngestRefresh
    <3>6. Tables'
      BY <1>t, <2>4, <3>5 DEF Tables, IngestRefresh
    <3> QED
      BY <2>4, <3>3, <3>4, <3>6, RowsFrame DEF IngestRefresh
  <2>5. CASE CommitBatch(s)
    <3>1. tx' \in [Scans -> Sessions] /\ \A t \in Scans : tx'[t] = tx[t] \/ tx'[t].at = "idle"
      BY <1>t, <2>5, RestType, PendEmpty DEF CommitBatch, Tables, Rest
    <3>2. Tables'
      BY <1>t, <2>5, <3>1, CommitOK DEF CommitBatch, Tables
    <3> QED
      BY <1>t, <2>5, <3>1, <3>2, CommitOK, RowsFrame DEF CommitBatch
  <2>6. CASE EndScan(s)
    <3>1. Tables' /\ \A t \in Scans : scan[t].st = "done" => scan'[t] = scan[t]
      BY <1>t, <2>6 DEF EndScan, Tables
    <3> QED
      BY <2>6, <3>1, RowsFrame DEF EndScan
  <2> QED
    BY <1>s, <2>1, <2>2, <2>3, <2>4, <2>5, <2>6
<1>c. ASSUME NEW c \in Clients,
             \/ \E f \in Fingerprints, new \in Settable : StatusRead(c, f, new)
             \/ StatusWrite(c)
      PROVE  RemInv'
  <2>1. ASSUME NEW f \in Fingerprints, NEW new \in Settable, StatusRead(c, f, new) PROVE RemInv'
    <3>1. [at |-> "status", f |-> f, new |-> new] \in Ops
      BY DEF Ops
    <3>2. Tables' /\ \A d \in Clients : d # c => op'[d] = op[d]
      BY <1>t, <2>1, <3>1 DEF Tables, StatusRead
    <3>3. op'[c] = [at |-> "status", f |-> f, new |-> new] /\ vulns'[f] # None
      BY <1>t, <2>1 DEF Tables, StatusRead
    <3>4. OpOK(c)'
      BY <3>3 DEF OpOK, Versioned
    <3> QED
      BY <2>1, <3>2, <3>4, RowsFrame DEF StatusRead
  <2>2. CASE StatusWrite(c)
    <3>1. op[c].f \in Fingerprints /\ op[c].new \in Settable /\ vulns[op[c].f] # None
      BY <1>t, <2>2, OpShape DEF StatusWrite, RemInv, OpOK, Tables
    <3>2. vulns' \in [Fingerprints -> Row \cup {None}] /\ vulns'[op[c].f] \in Row
          /\ \A f \in Fingerprints : f # op[c].f => vulns'[f] = vulns[f]
      BY <1>t, <2>2, <3>1 DEF StatusWrite, Tables, Row, VulnStatuses
    <3>3. \A f \in Fingerprints : vulns[f] # None => vulns'[f] # None
      BY <3>2, NoRowAssumption
    <3>4. op' \in [Clients -> Ops] /\ \A d \in Clients : op'[d] = op[d] \/ op'[d] = Idle
      BY <1>t, <2>2 DEF StatusWrite, Tables, Ops
    <3>5. Tables'
      BY <1>t, <2>2, <3>2, <3>4 DEF StatusWrite, Tables
    <3> QED
      BY <2>2, <3>3, <3>4, <3>5, RowsFrame DEF StatusWrite
  <2> QED
    BY <1>c, <2>1, <2>2
<1> QED
  BY <1>s, <1>c DEF FindingsNext

-----------------------------------------------------------------------------
(* Steps on the item                                                       *)

\* A legal move of the item, whoever makes it.
LEMMA ItemMoves ==
    ASSUME RemInv, Room, NEW to \in ItemStatuses, is_legal(item.status, to), item' = Moved(to)
    PROVE  /\ item' \in ItemRow /\ item # None /\ item' # None /\ StampsAgree'
           /\ item'.version = item.version + 1 /\ item'.status = to
<1>1. item \in ItemRow /\ item # None /\ StampsAgree
  BY DEF RemInv, Tables, Room
<1>2. /\ Moved(to) \in ItemRow /\ Moved(to).status = to
      /\ Moved(to).version = item.version + 1
      /\ Moved(to).resolved <=> to \in Resolved
      /\ Moved(to).verified <=> to \in {"verified", "closed"}
  BY <1>1, MovedOK, MaxVersionAssumption
<1> QED
  BY <1>1, <1>2, NullAssumption DEF StampsAgree

\* A step of one client that reads: nothing but its request changes.
LEMMA ReadStep ==
    ASSUME RemInv, NEW c \in Clients, NEW o \in Ops, op' = [op EXCEPT ![c] = o], OpOK(c)',
           UNCHANGED <<vulns, scan, saw, tx, item, req, acc>>
    PROVE  RemInv'
<1>1. Tables' /\ \A d \in Clients : d # c => op'[d] = op[d]
  BY DEF RemInv, Tables
<1> QED
  BY <1>1, RowsFrame

\* A request that ends leaves the other requests alone.
LEMMA DoneOK ==
    ASSUME Tables, NEW c \in Clients, Done(c)
    PROVE  op' \in [Clients -> Ops] /\ \A d \in Clients : op'[d] = op[d] \/ op'[d] = Idle
BY DEF Tables, Done, Ops

\* The item is created, edited or moved by a person.
LEMMA ItemStep ==
    ASSUME RemInv, SyncItem \/ UpdateItem
    PROVE  RemInv'
<1>t. Tables /\ StampsAgree
  BY DEF RemInv
<1>1. CASE SyncItem
  <2>1. item' \in ItemRow /\ item' # None /\ item'.version = 1 /\ StampsAgree'
    <3> DEFINE new == [status |-> "proposed", version |-> 1, resolved |-> FALSE, verified |-> FALSE]
    <3>1. item' = new
      BY <1>1 DEF SyncItem
    <3>2. "proposed" \in ItemStatuses /\ "proposed" \notin Resolved /\ 1 \in 1 .. MaxVersion
      BY MaxVersionAssumption DEF ItemStatuses, OpenStatuses, Resolved
    <3>3. new \in ItemRow
      BY <3>2 DEF ItemRow
    <3>4. StampsAgree'
      BY <3>1, <3>2 DEF StampsAgree
    <3> QED
      BY <3>1, <3>3, <3>4, NullAssumption
  <2>2. Tables' /\ Outstanding' = Outstanding
    BY <1>t, <1>1, <2>1 DEF SyncItem, Tables, Outstanding, rows
  <2>3. Grows
    <3>1. item = None /\ UNCHANGED <<vulns, scan, req, acc>>
      BY <1>1 DEF SyncItem, rows
    <3> QED
      BY <3>1, <2>1, <2>2 DEF Grows
  <2> QED
    BY <1>1, <2>1, <2>2, <2>3, Frame DEF SyncItem, rows
<1>2. CASE UpdateItem
  <2>1. item \in ItemRow /\ item # None
    BY <1>t, <1>2 DEF UpdateItem, Tables, Room
  <2>2. item' \in ItemRow /\ item'.version = item.version + 1 /\ StampsAgree'
    BY <1>t, <1>2, <2>1, MaxVersionAssumption DEF UpdateItem, ItemRow, StampsAgree, Room
  <2>3. Tables' /\ Outstanding' = Outstanding /\ item' # None
    BY <1>t, <1>2, <2>2, NullAssumption DEF UpdateItem, Tables, Outstanding, rows
  <2>4. Grows
    BY <1>2, <2>1, <2>2, <2>3 DEF UpdateItem, Grows, rows
  <2> QED
    BY <1>2, <2>2, <2>3, <2>4, Frame DEF UpdateItem, rows
<1> QED
  BY <1>1, <1>2

\* A transition of a person, and a request the lock refuses.
LEMMA TransitionStep ==
    ASSUME RemInv, NEW c \in Clients,
           (\E to \in ItemStatuses : TransitionRead(c, to)) \/ TransitionApply(c) \/ StaleVersion(c)
    PROVE  RemInv'
<1>t. Tables /\ OpOK(c) /\ op[c] \in Ops
  BY DEF RemInv, Tables
<1>v. item # None => item \in ItemRow /\ item.version \in Nat
  BY <1>t, MaxVersionAssumption DEF Tables, ItemRow
<1>1. ASSUME NEW to \in ItemStatuses, TransitionRead(c, to) PROVE RemInv'
  <2>1. [at |-> "transition", to |-> to, ver |-> item.version] \in Ops
    BY <1>v, <1>1 DEF Ops, TransitionRead, Room
  <2>2. op'[c] = [at |-> "transition", to |-> to, ver |-> item.version]
    BY <1>t, <1>1 DEF TransitionRead, Tables
  <2>3. OpOK(c)'
    BY <2>2, <1>1, <1>v DEF OpOK, TransitionRead, Room, Versioned, VersionHolds, rows
  <2> QED
    BY <1>1, <2>1, <2>3, ReadStep DEF TransitionRead, rows
<1>2. CASE TransitionApply(c)
  <2>1. op[c].to \in ItemStatuses /\ is_legal(item.status, op[c].to)
    BY <1>t, <1>2, OpShape DEF TransitionApply, OpOK
  <2>2. /\ item' \in ItemRow /\ item # None /\ item' # None /\ StampsAgree'
        /\ item'.version = item.version + 1
    BY <1>2, <2>1, ItemMoves DEF TransitionApply
  <2>3. op' \in [Clients -> Ops] /\ \A d \in Clients : op'[d] = op[d] \/ op'[d] = Idle
    BY <1>t, <1>2, DoneOK DEF TransitionApply
  <2>4. Tables' /\ Outstanding' = Outstanding
    BY <1>t, <1>2, <2>2, <2>3 DEF TransitionApply, Tables, Outstanding, rows
  <2>5. Grows
    BY <1>2, <2>2, <2>4 DEF TransitionApply, Grows, rows
  <2> QED
    BY <1>2, <2>2, <2>3, <2>4, <2>5, Frame DEF TransitionApply, rows
<1>3. CASE StaleVersion(c)
  <2>1. op' \in [Clients -> Ops] /\ \A d \in Clients : op'[d] = op[d] \/ op'[d] = Idle
    BY <1>t, <1>3, DoneOK DEF StaleVersion
  <2>2. Tables'
    BY <1>t, <1>3, <2>1 DEF StaleVersion, Tables, rows
  <2> QED
    BY <1>3, <2>1, <2>2, RowsFrame DEF StaleVersion, rows
<1> QED
  BY <1>1, <1>2, <1>3

\* A scan that finds a regression.
LEMMA RegressionStep ==
    ASSUME RemInv, NEW s \in Scans, RegressionRead(s) \/ RegressionApply(s) \/ RegressionStale(s)
    PROVE  RemInv'
<1>t. Tables /\ TxOK(s) /\ tx[s] \in Sessions /\ tx[s].pend \in Pends
  BY DEF RemInv, Tables, Sessions
<1>v. item # None => item \in ItemRow /\ item.version \in Nat
  BY <1>t, MaxVersionAssumption DEF Tables, ItemRow
<1>1. CASE RegressionRead(s)
  <2>0. \A t \in Scans : t # s => tx'[t] = tx[t]
    BY <1>t, <1>1 DEF RegressionRead, Tables
  <2>1. CASE item = None \/ ~is_legal(item.status, "reopened")
    <3>1. tx'[s] = Rest(tx[s].pend)
      BY <1>t, <1>1, <2>1 DEF RegressionRead, Tables
    <3>2. tx' \in [Scans -> Sessions] /\ tx'[s].at = "idle"
      BY <1>t, <1>1, <3>1, RestType DEF RegressionRead, Tables, Rest
    <3>3. Tables'
      BY <1>t, <1>1, <3>2 DEF RegressionRead, Tables
    <3> QED
      BY <1>1, <2>0, <3>2, <3>3, RowsFrame DEF RegressionRead
  <2>2. CASE item # None /\ is_legal(item.status, "reopened")
    <3>1. tx'[s] = [tx[s] EXCEPT !.at = "cas", !.ver = item.version]
      BY <1>t, <1>1, <2>2 DEF RegressionRead, Tables
    <3>2. tx'[s] \in Sessions /\ tx'[s].at = "cas" /\ tx'[s].ver = item.version
      BY <1>t, <1>v, <2>2, <3>1 DEF Sessions
    <3>3. tx' \in [Scans -> Sessions]
      BY <1>t, <1>1, <3>2 DEF RegressionRead, Tables
    <3>4. Tables'
      BY <1>t, <1>1, <3>3 DEF RegressionRead, Tables
    <3>5. TxOK(s)'
      BY <1>1, <1>v, <2>2, <3>2 DEF RegressionRead, TxOK, VersionHolds
    <3> QED
      BY <1>1, <2>0, <3>4, <3>5, RowsFrame DEF RegressionRead
  <2> QED
    BY <2>1, <2>2
<1>2. CASE RegressionApply(s)
  <2>1. "reopened" \in ItemStatuses /\ is_legal(item.status, "reopened")
    BY <1>t, <1>2 DEF RegressionApply, TxOK, ItemStatuses, OpenStatuses
  <2>2. /\ item' \in ItemRow /\ item # None /\ item' # None /\ StampsAgree'
        /\ item'.version = item.version + 1
    BY <1>2, <2>1, ItemMoves DEF RegressionApply
  <2>3. tx' \in [Scans -> Sessions] /\ \A t \in Scans : tx'[t] = tx[t] \/ tx'[t].at = "idle"
    BY <1>t, <1>2, RestType, PendEmpty DEF RegressionApply, Tables, Rest
  <2>4. /\ vulns' \in [Fingerprints -> Row \cup {None}]
        /\ saw' \in [Scans -> SUBSET Fingerprints]
        /\ \A f \in Fingerprints : vulns[f] # None => vulns'[f] # None
    BY <1>t, <1>2, CommitOK DEF RegressionApply
  <2>5. Tables' /\ Outstanding' = Outstanding
    BY <1>t, <1>2, <2>2, <2>3, <2>4 DEF RegressionApply, Tables, Outstanding
  <2>6. Grows
    BY <1>2, <2>2, <2>4, <2>5 DEF RegressionApply, Grows
  <2> QED
    BY <1>2, <2>2, <2>3, <2>5, <2>6, Frame DEF RegressionApply
<1>3. CASE RegressionStale(s)
  <2>1. tx' \in [Scans -> Sessions] /\ \A t \in Scans : tx'[t] = tx[t] \/ tx'[t].at = "idle"
    BY <1>t, <1>3, RestType, PendEmpty DEF RegressionStale, Tables, Rest
  <2>2. Tables'
    BY <1>t, <1>3, <2>1 DEF RegressionStale, Tables
  <2> QED
    BY <1>3, <2>1, <2>2, RowsFrame DEF RegressionStale
<1> QED
  BY <1>1, <1>2, <1>3

-----------------------------------------------------------------------------
(* Steps of a verification                                                 *)

\* A request for a retest: the row is written with the move of the item, so
\* the check for an outstanding request is still true when it is.
LEMMA RequestStep ==
    ASSUME RemInv, NEW c \in Clients,
           (\E s \in Scans \cup {None} : RequestRead(c, s)) \/ RequestApply(c)
    PROVE  RemInv'
<1>t. Tables /\ OpOK(c) /\ op[c] \in Ops
  BY DEF RemInv, Tables
<1>v. item # None => item \in ItemRow /\ item.version \in Nat
  BY <1>t, MaxVersionAssumption DEF Tables, ItemRow
<1>1. ASSUME NEW s \in Scans \cup {None}, RequestRead(c, s) PROVE RemInv'
  <2>1. [at |-> "verify", scan |-> s, ver |-> item.version] \in Ops
    BY <1>v, <1>1 DEF Ops, RequestRead, Room
  <2>2. op'[c] = [at |-> "verify", scan |-> s, ver |-> item.version]
    BY <1>t, <1>1 DEF RequestRead, Tables
  <2>3. Outstanding' = Outstanding /\ UNCHANGED <<item, scan>>
    BY <1>1 DEF RequestRead, Outstanding, rows
  <2>4. OpOK(c)'
    BY <2>2, <2>3, <1>1, <1>v DEF OpOK, RequestRead, Room, Versioned, VersionHolds, Linkable
  <2> QED
    BY <1>1, <2>1, <2>4, ReadStep DEF RequestRead, rows
<1>2. CASE RequestApply(c)
  <2>1. PICK r \in Requests :
           /\ req[r] = None
           /\ req' = [req EXCEPT ![r] = [st |-> "pending", scan |-> op[c].scan, result |-> None]]
    BY <1>2 DEF RequestApply
  <2>2. /\ is_legal(item.status, "awaiting_verification") /\ Outstanding = {}
        /\ op[c].scan \in Scans \cup {None}
        /\ op[c].scan # None => scan[op[c].scan].st = "done"
    BY <1>t, <1>2, OpShape DEF RequestApply, OpOK
  <2>3. "awaiting_verification" \in ItemStatuses
    BY DEF ItemStatuses, OpenStatuses
  <2>4. /\ item' \in ItemRow /\ item # None /\ item' # None /\ StampsAgree'
        /\ item'.version = item.version + 1
    BY <1>2, <2>2, <2>3, ItemMoves DEF RequestApply
  <2>5. [st |-> "pending", scan |-> op[c].scan, result |-> None] \in ReqRow
    BY <2>2 DEF ReqRow
  <2>6. /\ req' \in [Requests -> ReqRow \cup {None}]
        /\ req'[r] = [st |-> "pending", scan |-> op[c].scan, result |-> None]
        /\ req'[r] # None
        /\ \A q \in Requests : q # r => req'[q] = req[q]
    BY <1>t, <2>1, <2>5, NullAssumption DEF Tables
  <2>7. op' \in [Clients -> Ops] /\ \A d \in Clients : op'[d] = op[d] \/ op'[d] = Idle
    BY <1>t, <1>2, DoneOK DEF RequestApply
  <2>8. UNCHANGED <<vulns, scan, saw, tx, acc>>
    BY <1>2 DEF RequestApply, rows
  <2>9. Tables'
    BY <1>t, <2>4, <2>6, <2>7, <2>8 DEF Tables
  <2>10. Grows
    BY <2>1, <2>4, <2>6, <2>8 DEF Grows
  <2>11. \A d \in Clients : OpOK(d)'
    BY <2>7, <2>10, OpFrame
  <2>12. \A s \in Scans : TxOK(s)'
    BY <2>8, <2>10, TxFrame
  <2>13. \A q \in Requests : ReqOK(q)'
    <3>1. ReqOK(r)'
      BY <2>2, <2>4, <2>6, <2>8 DEF ReqOK
    <3>2. \A q \in Requests : q # r => ReqOK(q)'
      BY <2>6, <2>10, ReqFrame
    <3> QED
      BY <3>1, <3>2
  <2>14. OneAtATime'
    BY <2>2, <2>6 DEF OneAtATime, Outstanding
  <2> QED
    BY <2>4, <2>9, <2>11, <2>12, <2>13, <2>14 DEF RemInv
<1> QED
  BY <1>1, <1>2

\* A completion: the outcome is written whatever became of the request, the
\* item moves only at the version it was judged by.
LEMMA CompletedOK ==
    ASSUME RemInv, NEW c \in Clients, op[c].at = "decided", Completed(c)
    PROVE  /\ req' \in [Requests -> ReqRow \cup {None}]
           /\ Outstanding' \subseteq Outstanding
           /\ \A q \in Requests : req[q] = None => req'[q] = None
           /\ \A q \in Requests : req[q] # None => req'[q] # None /\ req'[q].scan = req[q].scan
           /\ op[c].r \in Requests /\ req[op[c].r] # None
           /\ req'[op[c].r].result = op[c].verdict
<1> DEFINE r == op[c].r
<1>1. op[c] \in Ops /\ OpOK(c) /\ req \in [Requests -> ReqRow \cup {None}]
  BY DEF RemInv, Tables
<1>2. r \in Requests /\ req[r] # None /\ req[r] \in ReqRow
      /\ op[c].verdict \in {"passed", "failed", "incomplete_coverage"}
  BY <1>1, OpShape DEF OpOK
<1>3. req'[r] = [req[r] EXCEPT !.st = "completed", !.result = op[c].verdict]
  BY <1>1, <1>2 DEF Completed
<1>4. /\ req'[r] \in ReqRow /\ req'[r].scan = req[r].scan /\ req'[r].st = "completed"
      /\ req'[r].result = op[c].verdict
  BY <1>2, <1>3 DEF ReqRow
<1>5. \A q \in Requests : q # r => req'[q] = req[q]
  BY <1>1, <1>2 DEF Completed
<1>6. req' \in [Requests -> ReqRow \cup {None}]
  BY <1>1, <1>2, <1>4 DEF Completed
<1>7. req'[r] # None
  BY <1>4, NullAssumption
<1>8. Outstanding' \subseteq Outstanding
  BY <1>4, <1>5 DEF Outstanding
<1> QED
  BY <1>2, <1>4, <1>5, <1>6, <1>7, <1>8

\* A completion from its first read to its commit keeps the invariant.
LEMMA CompleteStep ==
    ASSUME RemInv, NEW c \in Clients,
           \/ \E r \in Requests : CompleteRead(c, r)
           \/ CompleteDecide(c) \/ CompleteApply(c) \/ CompleteRecord(c)
    PROVE  RemInv'
<1>t. Tables /\ OpOK(c) /\ op[c] \in Ops
  BY DEF RemInv, Tables
<1>v. item # None => item \in ItemRow /\ item.version \in Nat
  BY <1>t, MaxVersionAssumption DEF Tables, ItemRow
<1>1. ASSUME NEW r \in Requests, CompleteRead(c, r) PROVE RemInv'
  <2>1. [at |-> "complete", r |-> r] \in Ops
    BY DEF Ops
  <2>2. op'[c] = [at |-> "complete", r |-> r] /\ UNCHANGED req
    BY <1>t, <1>1 DEF CompleteRead, Tables
  <2>3. req[r] # None /\ req[r].scan # None
    BY <1>1 DEF CompleteRead, Outstanding
  <2>4. OpOK(c)'
    BY <2>2, <2>3 DEF OpOK, Versioned
  <2> QED
    BY <1>1, <2>1, <2>4, ReadStep DEF CompleteRead, rows
<1>2. CASE CompleteDecide(c)
  <2> DEFINE r == op[c].r
             v == Verdict(req[r].scan)
             to == IF v = "passed" THEN "verified" ELSE "in_progress"
             ver == IF v # "incomplete_coverage" /\ is_legal(item.status, to)
                      THEN item.version ELSE 0
             o == [at |-> "decided", r |-> r, verdict |-> v, to |-> to, ver |-> ver]
  <2>1. op' = [op EXCEPT ![c] = o] /\ UNCHANGED <<vulns, scan, saw, tx, item, req, acc>>
    BY <1>2 DEF CompleteDecide, rows
  <2>2. r \in Requests /\ req[r] # None /\ req[r].scan # None /\ item # None
    BY <1>t, <1>2, OpShape DEF CompleteDecide, OpOK, RemInv, ReqOK
  <2>3. v \in {"passed", "failed", "incomplete_coverage"}
        /\ (v = "passed" => UsableCoverage(req[r].scan))
    BY DEF Verdict
  <2>4. to \in {"verified", "in_progress"} /\ (to = "verified" => v = "passed")
    OBVIOUS
  <2>5. ver \in Nat /\ ver <= item.version /\ (ver # 0 => is_legal(item.status, to))
        /\ item.version # 0
    BY <1>v, <2>2 DEF ItemRow
  <2> HIDE DEF v, to, ver
  <2>6. o \in Ops
    BY <2>2, <2>3, <2>4, <2>5 DEF Ops
  <2>7. op'[c] = o
    BY <1>t, <2>1 DEF Tables
  <2>8. OpOK(c)'
    <3>1. /\ o.at = "decided" /\ o.r = r /\ o.verdict = v /\ o.to = to /\ o.ver = ver
      OBVIOUS
    <3> HIDE DEF o
    <3>2. op'[c].at = "decided" /\ op'[c].r = r /\ op'[c].verdict = v /\ op'[c].to = to
          /\ op'[c].ver = ver
      BY <2>7, <3>1
    <3>3. to = "verified" => scan'[req'[r].scan].cov
      BY <2>1, <2>3, <2>4 DEF UsableCoverage
    <3> HIDE DEF r
    <3> QED
      BY <2>1, <2>2, <2>3, <2>4, <2>5, <3>2, <3>3 DEF OpOK, VersionHolds, UsableCoverage
  <2> QED
    BY <2>1, <2>6, <2>8, ReadStep
<1>3. CASE CompleteApply(c)
  <2>1. op[c].to \in ItemStatuses /\ is_legal(item.status, op[c].to)
    BY <1>t, <1>3, OpShape DEF CompleteApply, OpOK, ItemStatuses, OpenStatuses, Resolved
  <2>2. /\ item' \in ItemRow /\ item # None /\ item' # None /\ StampsAgree'
        /\ item'.version = item.version + 1
    BY <1>3, <2>1, ItemMoves DEF CompleteApply
  <2>3. op' \in [Clients -> Ops] /\ \A d \in Clients : op'[d] = op[d] \/ op'[d] = Idle
    BY <1>t, <1>3, DoneOK DEF CompleteApply
  <2>4. /\ req' \in [Requests -> ReqRow \cup {None}]
        /\ Outstanding' \subseteq Outstanding
        /\ \A q \in Requests : req[q] = None => req'[q] = None
        /\ \A q \in Requests : req[q] # None => req'[q] # None /\ req'[q].scan = req[q].scan
    BY <1>3, CompletedOK DEF CompleteApply
  <2>5. UNCHANGED <<vulns, scan, saw, tx, acc>>
    BY <1>3 DEF CompleteApply, rows
  <2>6. Tables'
    BY <1>t, <2>2, <2>3, <2>4, <2>5 DEF Tables
  <2>7. Grows
    BY <2>2, <2>4, <2>5 DEF Grows
  <2> QED
    BY <2>2, <2>3, <2>4, <2>5, <2>6, <2>7, Frame
<1>4. CASE CompleteRecord(c)
  <2>3. op' \in [Clients -> Ops] /\ \A d \in Clients : op'[d] = op[d] \/ op'[d] = Idle
    BY <1>t, <1>4, DoneOK DEF CompleteRecord
  <2>4. /\ req' \in [Requests -> ReqRow \cup {None}]
        /\ Outstanding' \subseteq Outstanding
        /\ \A q \in Requests : req[q] = None => req'[q] = None
        /\ \A q \in Requests : req[q] # None => req'[q] # None /\ req'[q].scan = req[q].scan
    BY <1>4, CompletedOK DEF CompleteRecord
  <2>5. UNCHANGED <<vulns, scan, saw, tx, acc, item>>
    BY <1>4 DEF CompleteRecord, rows
  <2>6. Tables' /\ StampsAgree'
    BY <1>t, <2>3, <2>4, <2>5 DEF Tables, RemInv, StampsAgree
  <2>7. Grows
    BY <2>4, <2>5 DEF Grows
  <2> QED
    BY <2>3, <2>4, <2>5, <2>6, <2>7, Frame
<1> QED
  BY <1>1, <1>2, <1>3, <1>4

\* A worker that claims a request, and the acceptance sweep.
LEMMA SweepStep ==
    ASSUME RemInv,
           \/ \E r \in Requests : claim_verification(r)
           \/ \E due \in SUBSET Acceptances : expire_due_acceptances(due)
    PROVE  RemInv'
<1>t. Tables
  BY DEF RemInv
<1>1. ASSUME NEW r \in Requests, claim_verification(r) PROVE RemInv'
  <2>1. req[r] \in ReqRow /\ req[r].st = "pending" /\ req[r] # None
    BY <1>t, <1>1 DEF claim_verification, Tables
  <2>2. req'[r] = [req[r] EXCEPT !.st = "claimed"] /\ \A q \in Requests : q # r => req'[q] = req[q]
    BY <1>t, <1>1 DEF claim_verification, Tables
  <2>3. req'[r] \in ReqRow /\ req'[r].scan = req[r].scan /\ req'[r] # None
    BY <2>1, <2>2, NullAssumption DEF ReqRow
  <2>4. req' \in [Requests -> ReqRow \cup {None}]
    BY <1>t, <1>1, <2>3 DEF claim_verification, Tables
  <2>5. UNCHANGED <<vulns, scan, saw, tx, acc, item, op>>
    BY <1>1 DEF claim_verification, rows
  <2>6. Outstanding' \subseteq Outstanding
    BY <2>1, <2>2 DEF Outstanding
  <2>7. Tables' /\ StampsAgree'
    BY <1>t, <2>4, <2>5 DEF Tables, RemInv, StampsAgree
  <2>8. Grows
    BY <2>2, <2>3, <2>5, <2>6 DEF Grows
  <2> QED
    BY <2>1, <2>2, <2>5, <2>6, <2>7, <2>8, Frame
<1>2. ASSUME NEW due \in SUBSET Acceptances, expire_due_acceptances(due) PROVE RemInv'
  <2>1. UNCHANGED <<vulns, scan, saw, tx, req, item, op>>
    BY <1>2 DEF expire_due_acceptances, rows
  <2>2. \A a \in due : acc[a] \in AccRow
    BY <1>t, <1>2 DEF expire_due_acceptances, Tables
  <2>3. \A a \in due : [acc[a] EXCEPT !.st = "expired"] \in AccRow
    BY <2>2 DEF AccRow
  <2>4. /\ acc' \in [Acceptances -> AccRow \cup {None}]
        /\ \A a \in Acceptances : acc[a] # None => acc'[a] # None
    BY <1>t, <1>2, <2>3, NullAssumption DEF expire_due_acceptances, Tables
  <2>5. Tables' /\ StampsAgree' /\ Outstanding' = Outstanding
    BY <1>t, <2>1, <2>4 DEF Tables, RemInv, StampsAgree, Outstanding
  <2>6. Grows
    BY <2>1, <2>4, <2>5 DEF Grows
  <2> QED
    BY <2>1, <2>5, <2>6, Frame
<1> QED
  BY <1>1, <1>2

-----------------------------------------------------------------------------
(* Steps of a risk acceptance                                              *)

\* An acceptance, with or without a move of the item.
LEMMA AcceptStep ==
    ASSUME RemInv, NEW c \in Clients,
           \/ \E f \in Fingerprints, linked \in BOOLEAN : AcceptRead(c, f, linked)
           \/ AcceptApply(c)
    PROVE  RemInv'
<1>t. Tables /\ OpOK(c) /\ op[c] \in Ops
  BY DEF RemInv, Tables
<1>v. item # None => item \in ItemRow /\ item.version \in Nat /\ item.version # 0
  BY <1>t, MaxVersionAssumption DEF Tables, ItemRow
<1>1. ASSUME NEW f \in Fingerprints, NEW linked \in BOOLEAN, AcceptRead(c, f, linked) PROVE RemInv'
  <2> DEFINE ver == IF linked THEN item.version ELSE 0
             o == [at |-> "accept", f |-> f, ver |-> ver]
  <2>1. op' = [op EXCEPT ![c] = o] /\ UNCHANGED <<vulns, scan, saw, tx, item, req, acc>>
    BY <1>1 DEF AcceptRead, rows
  <2>2. ver \in Nat /\ (ver # 0 => /\ item # None /\ ver = item.version
                                   /\ is_legal(item.status, "risk_accepted"))
    BY <1>v, <1>1 DEF AcceptRead, Room
  <2> HIDE DEF ver
  <2>3. o \in Ops
    BY <2>2 DEF Ops
  <2>4. op'[c] = o
    BY <1>t, <2>1 DEF Tables
  <2>5. OpOK(c)'
    BY <1>v, <2>1, <2>2, <2>4 DEF OpOK, VersionHolds
  <2> QED
    BY <2>1, <2>3, <2>5, ReadStep
<1>2. CASE AcceptApply(c)
  <2>0. op[c].f \in Fingerprints /\ op[c].ver \in Nat
    BY <1>t, <1>2, OpShape DEF AcceptApply
  <2>1. PICK a \in Acceptances :
           acc[a] = None /\ acc' = [acc EXCEPT ![a] = [f |-> op[c].f, st |-> "active"]]
    BY <1>2 DEF AcceptApply
  <2>2. [f |-> op[c].f, st |-> "active"] \in AccRow
    BY <2>0 DEF AccRow
  <2>3. /\ acc' \in [Acceptances -> AccRow \cup {None}]
        /\ \A b \in Acceptances : acc[b] # None => acc'[b] # None
    BY <1>t, <2>1, <2>2 DEF Tables
  <2>4. op' \in [Clients -> Ops] /\ \A d \in Clients : op'[d] = op[d] \/ op'[d] = Idle
    BY <1>t, <1>2, DoneOK DEF AcceptApply
  <2>5. UNCHANGED <<vulns, scan, saw, tx, req>> /\ Outstanding' = Outstanding
    BY <1>2 DEF AcceptApply, rows, Outstanding
  <2>6. CASE op[c].ver = 0
    <3>1. item' = item
      BY <1>2, <2>6 DEF AcceptApply
    <3>2. Tables' /\ StampsAgree'
      BY <1>t, <2>3, <2>4, <2>5, <3>1 DEF Tables, RemInv, StampsAgree
    <3>3. Grows
      BY <2>3, <2>5, <3>1 DEF Grows
    <3> QED
      BY <2>4, <2>5, <3>2, <3>3, Frame
  <2>7. CASE op[c].ver # 0
    <3>1. Room /\ is_legal(item.status, "risk_accepted") /\ item' = Moved("risk_accepted")
      BY <1>t, <1>2, <2>7 DEF AcceptApply, OpOK
    <3>2. "risk_accepted" \in ItemStatuses
      BY DEF ItemStatuses, Resolved
    <3>3. /\ item' \in ItemRow /\ item # None /\ item' # None /\ StampsAgree'
          /\ item'.version = item.version + 1
      BY <3>1, <3>2, ItemMoves
    <3>4. Tables'
      BY <1>t, <2>3, <2>4, <2>5, <3>3 DEF Tables
    <3>5. Grows
      BY <2>3, <2>5, <3>3 DEF Grows
    <3> QED
      BY <2>4, <2>5, <3>3, <3>4, <3>5, Frame
  <2> QED
    BY <2>6, <2>7
<1> QED
  BY <1>1, <1>2

\* A revocation only touches the acceptance.
LEMMA RevokeStep ==
    ASSUME RemInv, NEW c \in Clients,
           (\E a \in Acceptances : RevokeRead(c, a)) \/ RevokeWrite(c)
    PROVE  RemInv'
<1>t. Tables /\ OpOK(c) /\ op[c] \in Ops
  BY DEF RemInv, Tables
<1>1. ASSUME NEW a \in Acceptances, RevokeRead(c, a) PROVE RemInv'
  <2>1. [at |-> "revoke", a |-> a] \in Ops
    BY DEF Ops
  <2>2. op'[c] = [at |-> "revoke", a |-> a] /\ acc'[a] # None
    BY <1>t, <1>1 DEF RevokeRead, Tables
  <2>3. OpOK(c)'
    BY <2>2 DEF OpOK, Versioned
  <2> QED
    BY <1>1, <2>1, <2>3, ReadStep DEF RevokeRead, rows
<1>2. CASE RevokeWrite(c)
  <2>1. op[c].a \in Acceptances /\ acc[op[c].a] \in AccRow
    BY <1>t, <1>2, OpShape DEF RevokeWrite, OpOK, Tables
  <2>2. [acc[op[c].a] EXCEPT !.st = "revoked"] \in AccRow
    BY <2>1 DEF AccRow
  <2>3. /\ acc' \in [Acceptances -> AccRow \cup {None}]
        /\ \A b \in Acceptances : acc[b] # None => acc'[b] # None
    BY <1>t, <1>2, <2>1, <2>2, NullAssumption DEF RevokeWrite, Tables
  <2>4. op' \in [Clients -> Ops] /\ \A d \in Clients : op'[d] = op[d] \/ op'[d] = Idle
    BY <1>t, <1>2, DoneOK DEF RevokeWrite
  <2>5. UNCHANGED <<vulns, scan, saw, tx, req, item>> /\ Outstanding' = Outstanding
    BY <1>2 DEF RevokeWrite, rows, Outstanding
  <2>6. Tables' /\ StampsAgree'
    BY <1>t, <2>3, <2>4, <2>5 DEF Tables, RemInv, StampsAgree
  <2>7. Grows
    BY <2>3, <2>5 DEF Grows
  <2> QED
    BY <2>4, <2>5, <2>6, <2>7, Frame
<1> QED
  BY <1>1, <1>2

-----------------------------------------------------------------------------
(* The invariant and what follows from it                                  *)

\* An empty project has no row to disagree about.
LEMMA RemInit == Init => RemInv
<1> SUFFICES ASSUME Init PROVE RemInv
  OBVIOUS
<1>1. Rest(Empty) \in Sessions /\ Rest(Empty).at = "idle"
  BY RestType, PendEmpty DEF Rest
<1>2. Idle \in Ops /\ Idle.at = "idle"
  BY DEF Idle, Ops
<1>3. Tables
  BY <1>1, <1>2 DEF Init, FindingsInit, Tables
<1>4. StampsAgree /\ Outstanding = {} /\ OneAtATime
  BY DEF Init, StampsAgree, Outstanding, OneAtATime
<1>5. \A c \in Clients : op[c] = Idle
  BY DEF Init, FindingsInit
<1>6. \A c \in Clients : OpOK(c)
  BY <1>2, <1>5 DEF OpOK, Versioned
<1>7. \A s \in Scans : TxOK(s)
  BY <1>1 DEF Init, FindingsInit, TxOK
<1>8. \A r \in Requests : ReqOK(r)
  BY DEF Init, ReqOK
<1> QED
  BY <1>3, <1>4, <1>6, <1>7, <1>8 DEF RemInv

\* Every handler and every scan keeps it.
LEMMA RemStep == RemInv /\ [Next]_vars => RemInv'
<1> SUFFICES ASSUME RemInv, [Next]_vars PROVE RemInv'
  OBVIOUS
<1>u. CASE UNCHANGED vars
  <2>1. Tables'
    BY <1>u DEF vars, RemInv, Tables
  <2> QED
    BY <1>u, <2>1, RowsFrame DEF vars
<1>1. CASE FindingsNext /\ UNCHANGED <<item, req, acc>>
  BY <1>1, FindingsStep
<1>2. CASE SyncItem \/ UpdateItem
  BY <1>2, ItemStep
<1>3. CASE \E s \in Scans : RegressionRead(s) \/ RegressionApply(s) \/ RegressionStale(s)
  BY <1>3, RegressionStep
<1>4. CASE \/ \E r \in Requests : claim_verification(r)
           \/ \E due \in SUBSET Acceptances : expire_due_acceptances(due)
  BY <1>4, SweepStep
<1>5. ASSUME NEW c \in Clients,
             \/ \E to \in ItemStatuses : TransitionRead(c, to)
             \/ TransitionApply(c) \/ StaleVersion(c)
             \/ \E s \in Scans \cup {None} : RequestRead(c, s)
             \/ RequestApply(c)
             \/ \E r \in Requests : CompleteRead(c, r)
             \/ CompleteDecide(c) \/ CompleteApply(c) \/ CompleteRecord(c)
             \/ \E f \in Fingerprints, linked \in BOOLEAN : AcceptRead(c, f, linked)
             \/ AcceptApply(c)
             \/ \E a \in Acceptances : RevokeRead(c, a)
             \/ RevokeWrite(c)
      PROVE  RemInv'
  BY <1>5, TransitionStep, RequestStep, CompleteStep, AcceptStep, RevokeStep
<1> QED
  BY <1>u, <1>1, <1>2, <1>3, <1>4, <1>5 DEF Next

\* Types, and the stamps of an item agree with its status on every path.
THEOREM RemTypeTheorem == Spec => []TypeOK
<1>1. RemInv => TypeOK
  <2> SUFFICES ASSUME RemInv PROVE TypeOK
    OBVIOUS
  <2>1. \A s \in Scans : tx[s].at \in {"idle", "write", "item", "cas"} /\ tx[s].pend \in Pends
    BY DEF RemInv, Tables, Sessions
  <2>2. FindingsTypeOK
    BY <2>1, PendShape DEF RemInv, Tables, FindingsTypeOK
  <2> QED
    BY <2>2 DEF RemInv, Tables, StampsAgree, TypeOK
<1> QED
  BY <1>1, RemInit, RemStep, PTL DEF Spec

\* At most one verification request of the item is outstanding.
THEOREM OutstandingTheorem == Spec => []OneOutstanding
<1>1. RemInv => OneOutstanding
  <2> SUFFICES ASSUME OneAtATime PROVE OneOutstanding
    BY DEF RemInv
  <2>1. CASE Outstanding = {}
    BY <2>1, FS_EmptySet DEF OneOutstanding
  <2>2. CASE Outstanding # {}
    <3>1. PICK r : Outstanding = {r}
      BY <2>2 DEF OneAtATime
    <3> QED
      BY <3>1, FS_Singleton DEF OneOutstanding
  <2> QED
    BY <2>1, <2>2
<1> QED
  BY <1>1, RemInit, RemStep, PTL DEF Spec

-----------------------------------------------------------------------------
(* What a step may do to the item                                          *)

\* A status that changes was legal to reach, and the verified one is reached
\* by a completion that passed.
StatusMoves ==
    item # None => \/ item'.status = item.status
                   \/ /\ is_legal(item.status, item'.status)
                      /\ item'.status = "verified" =>
                            \E c \in Clients :
                                /\ op[c].at = "decided" /\ op[c].ver = item.version
                                /\ req[op[c].r] # None /\ req'[op[c].r].result = "passed"
                                /\ scan[req[op[c].r].scan] = [st |-> "done", cov |-> TRUE]

\* Every step moves the status that way, or not at all.
LEMMA StatusStep == RemInv /\ [Next]_vars => StatusMoves
<1> SUFFICES ASSUME RemInv, [Next]_vars, item # None PROVE StatusMoves
  BY DEF StatusMoves
<1>k. ASSUME item' = item PROVE StatusMoves
  BY <1>k DEF StatusMoves
<1>l. ASSUME NEW to \in ItemStatuses, Room, is_legal(item.status, to), to # "verified",
             item' = Moved(to)
      PROVE  StatusMoves
  BY <1>l, ItemMoves DEF StatusMoves
<1>o. \A c \in Clients : op[c] \in Ops /\ OpOK(c)
  BY DEF RemInv, Tables
<1>1. CASE SyncItem
  BY <1>1 DEF SyncItem
<1>2. CASE UpdateItem
  BY <1>2 DEF UpdateItem, StatusMoves, RemInv, Tables, ItemRow
<1>3. ASSUME NEW s \in Scans, RegressionApply(s) PROVE StatusMoves
  <2>1. TxOK(s) /\ "reopened" \in ItemStatuses
    BY DEF RemInv, ItemStatuses, OpenStatuses
  <2> QED
    BY <1>3, <1>l, <2>1 DEF RegressionApply, TxOK
<1>4. ASSUME NEW c \in Clients, TransitionApply(c) PROVE StatusMoves
  BY <1>4, <1>o, <1>l, OpShape DEF TransitionApply, OpOK, GuardedTargets
<1>5. ASSUME NEW c \in Clients, RequestApply(c) PROVE StatusMoves
  <2>1. "awaiting_verification" \in ItemStatuses
    BY DEF ItemStatuses, OpenStatuses
  <2> QED
    BY <1>5, <1>o, <1>l, <2>1 DEF RequestApply, OpOK
<1>6. ASSUME NEW c \in Clients, AcceptApply(c) PROVE StatusMoves
  <2>1. "risk_accepted" \in ItemStatuses
    BY DEF ItemStatuses, Resolved
  <2> QED
    BY <1>6, <1>o, <1>l, <1>k, <2>1 DEF AcceptApply, OpOK
<1>7. ASSUME NEW c \in Clients, CompleteApply(c) PROVE StatusMoves
  <2>1. /\ op[c].at = "decided" /\ op[c].ver = item.version
        /\ is_legal(item.status, op[c].to) /\ op[c].to \in ItemStatuses
    BY <1>7, <1>o, OpShape
       DEF CompleteApply, OpOK, VersionHolds, ItemStatuses, OpenStatuses, Resolved
  <2>2. item'.status = op[c].to
    BY <1>7, <2>1, ItemMoves DEF CompleteApply
  <2>3. op[c].r \in Requests /\ req[op[c].r] # None /\ req'[op[c].r].result = op[c].verdict
    BY <1>7, CompletedOK DEF CompleteApply
  <2>4. op[c].to = "verified" => /\ op[c].verdict = "passed"
                                 /\ scan[req[op[c].r].scan] = [st |-> "done", cov |-> TRUE]
    <3> SUFFICES ASSUME op[c].to = "verified"
                 PROVE  /\ op[c].verdict = "passed"
                        /\ scan[req[op[c].r].scan] = [st |-> "done", cov |-> TRUE]
      OBVIOUS
    <3>1. op[c].verdict = "passed" /\ UsableCoverage(req[op[c].r].scan)
          /\ req[op[c].r].scan # None
      BY <1>o, <2>1 DEF OpOK
    <3>2. req[op[c].r].scan \in Scans /\ scan[req[op[c].r].scan].st = "done"
      BY <2>3, <3>1 DEF RemInv, Tables, ReqRow, ReqOK
    <3> QED
      BY <3>1, <3>2 DEF UsableCoverage, RemInv, Tables
  <2> QED
    BY <2>1, <2>2, <2>3, <2>4 DEF StatusMoves
<1>8. CASE FindingsNext /\ UNCHANGED <<item, req, acc>>
  BY <1>8, <1>k
<1>9. ASSUME NEW s \in Scans, RegressionRead(s) \/ RegressionStale(s) PROVE StatusMoves
  BY <1>9, <1>k DEF RegressionRead, RegressionStale
<1>10. CASE \/ \E r \in Requests : claim_verification(r)
            \/ \E due \in SUBSET Acceptances : expire_due_acceptances(due)
  BY <1>10, <1>k DEF claim_verification, expire_due_acceptances
<1>11. ASSUME NEW c \in Clients,
              \/ \E to \in ItemStatuses : TransitionRead(c, to)
              \/ StaleVersion(c)
              \/ \E s \in Scans \cup {None} : RequestRead(c, s)
              \/ \E r \in Requests : CompleteRead(c, r)
              \/ CompleteDecide(c) \/ CompleteRecord(c)
              \/ \E f \in Fingerprints, linked \in BOOLEAN : AcceptRead(c, f, linked)
              \/ \E a \in Acceptances : RevokeRead(c, a)
              \/ RevokeWrite(c)
       PROVE  StatusMoves
  BY <1>11, <1>k DEF TransitionRead, StaleVersion, RequestRead, CompleteRead, CompleteDecide,
       CompleteRecord, AcceptRead, RevokeRead, RevokeWrite
<1>12. CASE UNCHANGED vars
  BY <1>12, <1>k DEF vars
<1> QED
  BY <1>1, <1>2, <1>3, <1>4, <1>5, <1>6, <1>7, <1>8, <1>9, <1>10, <1>11, <1>12 DEF Next

\* Whoever writes the item, its status moves along LEGAL_TRANSITIONS only.
THEOREM LifecycleTheorem == Spec => LegalLifecycle
<1>1. RemInv /\ [Next]_vars =>
        [item # None /\ item'.status # item.status => is_legal(item.status, item'.status)]_vars
  BY StatusStep DEF StatusMoves
<1> QED
  BY <1>1, RemInit, RemStep, PTL DEF Spec, LegalLifecycle

\* Only a retest that ended, looked and found nothing verifies an item.
THEOREM VerifiedTheorem == Spec => VerifiedByRetest
<1>1. RemInv /\ [Next]_vars =>
        [item # None /\ item'.status = "verified" /\ item.status # "verified" =>
          \E c \in Clients :
              /\ op[c].at = "decided" /\ op[c].ver = item.version
              /\ req[op[c].r] # None /\ req'[op[c].r].result = "passed"
              /\ scan[req[op[c].r].scan] = [st |-> "done", cov |-> TRUE]]_vars
  BY StatusStep DEF StatusMoves
<1> QED
  BY <1>1, RemInit, RemStep, PTL DEF Spec, VerifiedByRetest
=============================================================================
