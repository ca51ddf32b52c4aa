---------------------------- MODULE MCRemediation ----------------------------
(* One issue whose fingerprints are spellings of one location.             *)
EXTENDS Remediation, TLC

MCLocation == [f \in Fingerprints |-> "/login"]
Symmetry == Permutations(Clients) \cup Permutations(Acceptances)
=============================================================================
