--------------------------- MODULE MCWorkerQueue ---------------------------
(* Instances of WorkerQueue for TLC.                                       *)
EXTENDS WorkerQueue, TLC

CONSTANTS k1
=============================================================================
