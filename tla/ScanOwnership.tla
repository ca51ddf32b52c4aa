---------------------------- MODULE ScanOwnership ----------------------------
(***************************************************************************)
(* What the execution token promises, whoever dispatches the scan: at any  *)
(* moment at most one execution owns the scan; an execution takes the      *)
(* credit for an outcome only if it was the owner when the outcome was     *)
(* decided; ownership is never handed to an execution that has already     *)
(* decided one; and a settled scan is never opened again.                  *)
(***************************************************************************)
EXTENDS Integers

VARIABLES phase,    \* "open" | "held" | "failed" | "settled"
          owner,    \* the execution that owns the scan, or NoOne
          winners   \* executions that decided an outcome, not yet announced

ovars == <<phase, owner, winners>>

NoOne == -1

OInit == phase = "open" /\ owner = NoOne /\ winners = {}

\* A new execution becomes the owner of an open or failed scan.
Grant == /\ phase \in {"open", "failed"}
         /\ phase' = "held"
         /\ owner' \in Nat \ winners
         /\ winners' = winners

\* The owner decides the outcome; a failure may be retried later.
Conclude == /\ phase = "held"
            /\ phase' \in {"failed", "settled"}
            /\ owner' = NoOne
            /\ winners' = winners \cup {owner}

\* Ownership is taken away, or the owner gives up without a word.
Revoke == /\ phase = "held"
          /\ phase' \in {"open", "failed"}
          /\ owner' = NoOne
          /\ winners' = winners

\* A user cancels a scan that has no outcome yet.
Cancel == /\ phase \in {"open", "held"}
          /\ phase' = "settled"
          /\ owner' = NoOne
          /\ winners' \subseteq winners

\* Outcomes are announced, or die with the process that decided them.
Announce == /\ winners' \subseteq winners
            /\ UNCHANGED <<phase, owner>>

ONext == Grant \/ Conclude \/ Revoke \/ Cancel \/ Announce

OSpec == OInit /\ [][ONext]_ovars

=============================================================================
