------------------------------- MODULE Assets -------------------------------
(***************************************************************************)
(* One asset row that several tools discover, in overlapping scans of the  *)
(* same target (modules/assets/service.py).                                *)
(***************************************************************************)
EXTENDS Naturals, Sequences, SequencesExt

CONSTANTS
    Upserts,         \* tool runs that report the asset
    Report,          \* tool run -> the keys it reports and those it inferred
    MaxObservations  \* MAX_OBSERVATIONS

\* A key that is derived at all (api_intel.as_metadata, auth_metadata) comes
\* with its mark, whoever reports it.
ASSUME AssetsAssumption ==
    /\ MaxObservations \in Nat \ {0}
    /\ \A u, v \in Upserts : Report[u].keys \cap Report[v].inferred \subseteq Report[u].inferred

VARIABLES
    doc,      \* the asset's metadata document
    upsert    \* tool run -> its progress and the document it read

assetVars == <<doc, upsert>>

NoDoc == [keys |-> {}, inferred |-> {}, obs |-> <<>>]
NotBegun == [at |-> "idle"]

-----------------------------------------------------------------------------
(* Asset metadata                                                          *)

\* The newest entries of the observation log.
Newest(s, n) == IF Len(s) > n THEN SubSeq(s, Len(s) - n + 1, Len(s)) ELSE s

\* Mutant: the newer list replaces the older one.
_union_techOverwrite(a, b) == b

\* Set-like keys of the document are united, never overwritten.
_union_tech(a, b) == a \cup b

\* The keys of both documents; of the marks, those whose key is present; an
\* observation per tool run, the oldest dropped at the limit.
merge_asset_metadata(old, u) ==
    LET keys == old.keys \cup Report[u].keys IN
    [keys |-> keys,
     inferred |-> IF old.inferred = {} /\ Report[u].inferred = {} THEN {}
                  ELSE _union_tech(old.inferred, Report[u].inferred) \cap keys,
     obs |-> IF u \in ToSet(old.obs) THEN Newest(old.obs, MaxObservations)
             ELSE Append(IF MaxObservations = 1 THEN old.obs   \* [-0:] is the whole list
                         ELSE Newest(old.obs, MaxObservations - 1), u)]

\* upsert_asset reads the document without a lock ...
UpsertRead(u) ==
    /\ upsert[u] = NotBegun
    /\ upsert' = [upsert EXCEPT ![u] = [at |-> "read", old |-> doc]]
    /\ UNCHANGED doc

\* ... and inserts, or overwrites the row by ON DUPLICATE KEY UPDATE.
UpsertWrite(u) ==
    /\ upsert[u].at = "read"
    /\ doc' = merge_asset_metadata(upsert[u].old, u)
    /\ upsert' = [upsert EXCEPT ![u] = NotBegun]

AssetInit == doc = NoDoc /\ upsert = [u \in Upserts |-> NotBegun]

AssetNext == \E u \in Upserts : UpsertRead(u) \/ UpsertWrite(u)

-----------------------------------------------------------------------------
(* Properties                                                              *)

Inferable == UNION {Report[u].inferred : u \in Upserts}

AssetTypeOK == doc.inferred \subseteq doc.keys /\ IsInjective(doc.obs)

(* "silently promoting an inference to an observation": whatever tools     *)
(* report the asset, in whatever order and even from stale reads, a key    *)
(* that its reporter inferred stays marked as inferred on the document.    *)
InferenceStaysMarked == doc.keys \cap Inferable \subseteq doc.inferred
=============================================================================
