---------------------------- MODULE MCSupervisor ----------------------------
(* A small instance of Supervisor for TLC: a store and a worker of one     *)
(* task group, where the worker depends on the store and restarts however  *)
(* it ends, the store only when it faults.                                 *)
EXTENDS Supervisor, TLC

CONSTANTS store, worker

TheOrder    == <<store, worker>>
TheGroup    == (store :> "task") @@ (worker :> "task")
TheDeps     == (store :> {}) @@ (worker :> {store})
TheMode     == (store :> "on-fault") @@ (worker :> "always")
TheAttempts == (store :> 1) @@ (worker :> 1)
=============================================================================
