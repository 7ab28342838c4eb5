------------------------------ MODULE MCKernel ------------------------------
(* Small instances of Kernel for TLC.  A process is 0, 1 or 2; the pool    *)
(* has the static endpoint 0 and one more.                                 *)
EXTENDS Kernel

TwoProcesses   == 0 .. 1
ThreeProcesses == 0 .. 2

OneEndpoint  == {0, Authority}
TwoEndpoints == {0, 1, Authority}

AllRights  == {{SEND, RECV, TRANSFER, REVOKE}}
LifeRights == AllRights \cup {{ADMIN}}

(* Blocking IPC with everything that can end or overtake a receive. *)
IpcCalls ==
  {"TIMER", "IPC_CLOSE", "IPC_CALL", "IPC_RECV", "IPC_RECV_WAIT", "IPC_CANCEL",
   "CAP_TRANSFER", "CAP_REVOKE", "EXIT", "FAULT", "KILL", "WAIT", "GROUP_TERMINATE",
   "GROUP_TERMINATE_TREE", "GROUP_FREEZE", "GROUP_RESUME", "POLICY_PAUSE",
   "POLICY_RESUME"}

(* Everything that moves capabilities, endpoints and processes around. *)
LifeCalls ==
  {"YIELD", "IPC_CREATE", "IPC_DESTROY", "IPC_CALL", "IPC_RECV_WAIT", "CAP_RESTRICT",
   "CAP_TRANSFER", "CAP_REVOKE", "EXIT", "FAULT", "KILL", "RESTART", "WAIT"}

(* The calls around the reuse of an endpoint's pool slot. *)
ReuseCalls == {"YIELD", "IPC_CREATE", "IPC_DESTROY", "CAP_TRANSFER", "EXIT", "RESTART"}
=============================================================================
