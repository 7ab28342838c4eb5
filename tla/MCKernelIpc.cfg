\* Three processes, the third a child of the second; one endpoint with room
\* for one message; every slot of a capability table used once.
\* The machine may halt (scheduler_halt), so a deadlock is not an error.
CONSTANTS
  Fixture = "recursive"
  Table <- ThreeProcesses
  NoTable = NoTable
  NoProc = NoProc
  NumSlots = 2
  Object <- OneEndpoint
  NoObject = NoObject
  Right = {send, recv, transfer, revoke, admin}
  SEND = send
  RECV = recv
  TRANSFER = transfer
  REVOKE = revoke
  ADMIN = admin
  Authority = Authority
  MaxGen = 1
  MaxDepth = 2
  PoolSize = 1
  QueueCap = 1
  RestartCaps = 2
  Syscalls <- IpcCalls
  RightsArg <- AllRights
SPECIFICATION FairSpec
INVARIANTS CpuInv NoLostWakeup WaitInv
PROPERTIES DeliveredRightly Dispatched
CHECK_DEADLOCK FALSE
