-------------------------- MODULE MCLeaseExecution --------------------------
(***************************************************************************)
(* LeaseExecution with two workers, so that an execution can be superseded *)
(* by another while it is alive.                                           *)
(***************************************************************************)
EXTENDS LeaseExecution, TLC

CONSTANTS w1, w2

TwoWorkers == {w1, w2}
OneWorker == {w1}
Symmetry == Permutations(TwoWorkers)
=============================================================================
