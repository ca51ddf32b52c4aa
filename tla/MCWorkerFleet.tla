---------------------------- MODULE MCWorkerFleet ----------------------------
(***************************************************************************)
(* WorkerFleet with one private and one public worker.                     *)
(***************************************************************************)
EXTENDS WorkerFleet

CONSTANTS w1, w2

TwoWorkers == {w1, w2}
PrivateWorker == {w1}
=============================================================================
