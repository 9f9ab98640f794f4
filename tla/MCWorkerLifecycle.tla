-------------------------- MODULE MCWorkerLifecycle --------------------------
(* Instances of WorkerLifecycle small enough for TLC. *)
EXTENDS WorkerLifecycle, TLC

CONSTANTS w1, w2, w3, w4, worker, vtWorker

\* Two jobs in a managed slot and two in a legacy one.
TwoSlots == w1 :> worker @@ w2 :> worker @@ w3 :> vtWorker @@ w4 :> vtWorker
=============================================================================
