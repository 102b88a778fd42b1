---------------------------- MODULE MCWorkerPool ----------------------------
(***************************************************************************)
(* Two workers, the manager and one run of the reconnect callback, so two  *)
(* Starts and two Stops of the same pool in every order the lock allows.   *)
(***************************************************************************)
EXTENDS WorkerPool

CONSTANT reconnect

MCCallbacks == {reconnect}
=============================================================================
