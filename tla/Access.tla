------------------------------- MODULE Access -------------------------------
(***************************************************************************)
(* Who may act in a workspace and on a target: the members and their roles *)
(* (modules/workspaces/service.py), and the proofs of authorization of a   *)
(* target (modules/authorization_scope/service.py).  The two do not touch  *)
(* each other's rows, so each has a next-state relation of its own.        *)
(***************************************************************************)
EXTENDS Naturals, Sequences

CONSTANTS
    Members,         \* users of the workspace
    Calls,           \* concurrent membership requests
    MaxProofs,       \* bound on the proofs submitted
    MaxDay           \* bound on time

VARIABLES
    role,     \* user -> "none", "viewer" or "owner"
    call,     \* membership request -> what it has checked
    proofs,   \* the authorization scopes of the target, oldest first
    day,      \* time
    verifier, \* the proof a verify_scope request has read, or 0
    job       \* a scan of the target: its stage, and whether it was admitted
              \* with active tools

memberVars == <<role, call>>
proofVars == <<proofs, day, verifier, job>>

Quiet == [at |-> "idle"]
NoJob == [at |-> "none", active |-> FALSE]

-----------------------------------------------------------------------------
(* Members                                                                 *)

_count_owners == {m \in Members : role[m] = "owner"}

\* invite_member: refused for a member; the unique constraint backs it up.
Invite(m, r) ==
    /\ role[m] = "none"
    /\ role' = [role EXCEPT ![m] = r]
    /\ UNCHANGED call

\* update_member_role and remove_member: the last owner is refused ...
DemoteCheck(c, m, r) ==
    /\ call[c] = Quiet
    /\ role[m] # "none"
    /\ role[m] = "owner" /\ r # "owner" => _count_owners # {m}
    /\ call' = [call EXCEPT ![c] = [at |-> "checked", who |-> m, to |-> r]]
    /\ UNCHANGED role

\* ... and the row is written; a row that is gone by then makes it fail.
DemoteWrite(c) ==
    /\ call[c].at = "checked"
    /\ role' = IF role[call[c].who] = "none" THEN role
               ELSE [role EXCEPT ![call[c].who] = call[c].to]
    /\ call' = [call EXCEPT ![c] = Quiet]

MemberInit ==
    /\ \E owner \in Members : role = [m \in Members |-> IF m = owner THEN "owner" ELSE "none"]
    /\ call = [c \in Calls |-> Quiet]

MemberNext ==
    \/ \E m \in Members, r \in {"viewer", "owner"} : Invite(m, r)
    \/ \E c \in Calls, m \in Members, r \in {"none", "viewer", "owner"} : DemoteCheck(c, m, r)
    \/ \E c \in Calls : DemoteWrite(c)

-----------------------------------------------------------------------------
(* Proofs of authorization, and the scan that needs one                    *)

\* submit_scope always inserts a fresh, unverified row.
Submit(expires) ==
    /\ Len(proofs) < MaxProofs
    /\ proofs' = Append(proofs, [verified |-> FALSE, active |-> FALSE, expires |-> expires])
    /\ UNCHANGED <<day, verifier, job>>

\* get_current_scope: the newest row
CurrentScope(i) == i \in DOMAIN proofs /\ i = Len(proofs)

\* verify_scope reads the newest row ...
VerifyRead(i) ==
    /\ verifier = 0 /\ CurrentScope(i)
    /\ verifier' = i
    /\ UNCHANGED <<proofs, day, job>>

\* ... and verifies that one, though a newer may be there by now. A date of
\* the verifier replaces the date of the proof.
VerifyWrite(active, expires) ==
    /\ verifier # 0
    /\ proofs' = [proofs EXCEPT ![verifier] = [verified |-> TRUE, active |-> active,
                                                expires |-> expires]]
    /\ verifier' = 0
    /\ UNCHANGED <<day, job>>

\* require_verified_target, with the tools the proof has to allow
require_verified_target(i, active) ==
    /\ CurrentScope(i) /\ proofs[i].verified /\ day <= proofs[i].expires
    /\ active => proofs[i].active

\* create_scan
CreateScan(active) ==
    /\ job.at = "none"
    /\ \E i \in DOMAIN proofs : require_verified_target(i, active)
    /\ job' = [at |-> "queued", active |-> active]
    /\ UNCHANGED <<proofs, day, verifier>>

\* run_scan checks again: a scan without authorization fails, and one with
\* leaves out the active tools that are no longer allowed.
StartCelery ==
    /\ job.at = "queued"
    /\ job' = IF \E i \in DOMAIN proofs : require_verified_target(i, FALSE)
              THEN [at |-> "running", active |-> job.active /\ proofs[Len(proofs)].active]
              ELSE [job EXCEPT !.at = "failed"]
    /\ UNCHANGED <<proofs, day, verifier>>

\* lease_jobs looks at the worker, the site and the emergency switch, and the
\* job carries the modules the scan was created with.
StartLease ==
    /\ job.at = "queued"
    /\ job' = [job EXCEPT !.at = "running"]
    /\ UNCHANGED <<proofs, day, verifier>>

ScanOver ==
    /\ job.at \in {"running", "failed"}
    /\ job' = NoJob
    /\ UNCHANGED <<proofs, day, verifier>>

NextDay ==
    /\ day < MaxDay
    /\ day' = day + 1
    /\ UNCHANGED <<proofs, verifier, job>>

ProofInit == proofs = <<>> /\ day = 0 /\ verifier = 0 /\ job = NoJob

ProofNext ==
    \/ \E e \in 0 .. MaxDay : Submit(e) \/ \E a \in BOOLEAN : VerifyWrite(a, e)
    \/ \E i \in 1 .. MaxProofs : VerifyRead(i)
    \/ \E a \in BOOLEAN : CreateScan(a)
    \/ StartCelery \/ StartLease \/ ScanOver \/ NextDay

accessVars == <<memberVars, proofVars>>
AccessInit == MemberInit /\ ProofInit
AccessNext ==
    \/ MemberNext /\ UNCHANGED proofVars
    \/ ProofNext /\ UNCHANGED memberVars
AccessSpec == AccessInit /\ [][AccessNext]_accessVars

-----------------------------------------------------------------------------
(* Properties                                                              *)

AccessTypeOK ==
    /\ role \in [Members -> {"none", "viewer", "owner"}]
    /\ proofs \in Seq([verified : BOOLEAN, active : BOOLEAN, expires : 0 .. MaxDay])
    /\ verifier \in 0 .. Len(proofs)
    /\ job \in [at : {"none", "queued", "running", "failed"}, active : BOOLEAN]

(* create_scan: "The orchestrator re-checks in case authorization is       *)
(* revoked before the scan runs." No scan starts, on either plane, unless  *)
(* the newest proof of its target is verified, unexpired and allows the    *)
(* tools the scan is going to run.                                         *)
StartsAuthorized ==
    [][job.at = "queued" /\ job'.at = "running"
         => require_verified_target(Len(proofs), job'.active)]_proofVars

(* The error of update_member_role and remove_member: "Workspace must have *)
(* at least one owner".                                                    *)
AtLeastOneOwner == _count_owners # {}
=============================================================================
