-------------------------- MODULE MCScanExecution --------------------------
(***************************************************************************)
(* ScanExecution with two worker processes: enough for an execution to be  *)
(* superseded by a second one while it is still alive.                     *)
(***************************************************************************)
EXTENDS ScanExecution, TLC

CONSTANTS e1, e2

TwoExecutors == {e1, e2}
OneExecutor == {e1}
Symmetry == Permutations(TwoExecutors)
=============================================================================
