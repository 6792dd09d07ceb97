------------------------- MODULE MCWorkerBeeSwitch -------------------------
(* Small instances of WorkerBeeSwitch for TLC.                              *)
EXTENDS WorkerBeeSwitch
=============================================================================
