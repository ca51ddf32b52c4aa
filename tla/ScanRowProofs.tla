---------------------------- MODULE ScanRowProofs ----------------------------
(***************************************************************************)
(* What the conditional UPDATEs of the scans table keep, for every value   *)
(* of the thresholds; both execution paths rest on it.                     *)
(***************************************************************************)
EXTENDS ScanRow, TLAPS

-----------------------------------------------------------------------------
(* The statements on the row keep it a row.                                *)

\* Whatever a conditional UPDATE of the scans table writes is a legal row.
LEMMA RowOps ==
    ASSUME NEW r \in Rows, NEW t \in Nat, NEW st \in Statuses
    PROVE  /\ ClaimRow(r, t) \in Rows
           /\ FinalizeRow(r, st) \in Rows
           /\ HeartbeatRow(r) \in Rows
           /\ ReapRow(r) \in Rows
           /\ RequeueRow(r) \in Rows
           /\ CancelRow(r) \in Rows
           /\ AgeRow(r) \in Rows
<1>1. \A a \in AgeOrNull : Older(a) \in AgeOrNull
  BY AgeAssumption DEF Older, Ages, AgeOrNull, None
<1>2. \A a \in Ages : Older(a) \in Ages
  BY AgeAssumption DEF Older, Ages, None
<1>a. 0 \in Ages /\ 0 \in AgeOrNull /\ None \in AgeOrNull
  BY AgeAssumption DEF Ages, AgeOrNull
<1> USE <1>a DEF Rows, Statuses
<1>3. AgeRow(r) \in Rows
  BY <1>1, <1>2 DEF AgeRow
<1>4. ClaimRow(r, t) \in Rows
  BY DEF ClaimRow
<1>5. FinalizeRow(r, st) \in Rows
  BY DEF FinalizeRow
<1>6. HeartbeatRow(r) \in Rows
  BY DEF HeartbeatRow
<1>7. ReapRow(r) \in Rows /\ CancelRow(r) \in Rows
  BY DEF ReapRow, CancelRow
<1>8. RequeueRow(r) \in Rows
  BY DEF RequeueRow
<1> QED
  BY <1>3, <1>4, <1>5, <1>6, <1>7, <1>8

\* The pipeline's aggregate is a terminal status.
LEMMA AggregateStatus == \A s : Aggregate(s) \in Terminal /\ Aggregate(s) \in Statuses
BY DEF Aggregate, Terminal, Statuses

\* What the statements on the row do to its owner.
LEMMA OwnerOps ==
    ASSUME NEW r \in Rows, NEW t, NEW st
    PROVE  /\ ClaimRow(r, t).token = t /\ ClaimRow(r, t).status = "running"
           /\ FinalizeRow(r, st).token = None /\ FinalizeRow(r, st).status = st
           /\ HeartbeatRow(r).token = r.token /\ HeartbeatRow(r).status = r.status
           /\ ReapRow(r).token = None /\ ReapRow(r).status = "failed"
           /\ CancelRow(r).token = None /\ CancelRow(r).status = "cancelled"
           /\ AgeRow(r).token = r.token /\ AgeRow(r).status = r.status
           /\ r.status = "running" =>
                 RequeueRow(r).token = None /\ RequeueRow(r).status = "queued"
           /\ r.status # "running" => RequeueRow(r) = r
BY DEF Rows, ClaimRow, FinalizeRow, HeartbeatRow, ReapRow, CancelRow, AgeRow,
       RequeueRow
=============================================================================
