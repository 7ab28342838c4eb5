\* An endpoint is destroyed between the exit and the restart of a holder.
\* The machine may halt (scheduler_halt), so a deadlock is not an error.
CONSTANTS
  Fixture = "recursive"
  Table <- ThreeProcesses
  NoTable = NoTable
  NoProc = NoProc
  NumSlots = 3
  Object <- TwoEndpoints
  NoObject = NoObject
  Right = {send, recv, transfer, revoke, admin}
  SEND = send
  RECV = recv
  TRANSFER = transfer
  REVOKE = revoke
  ADMIN = admin
  Authority = Authority
  MaxGen = 2
  MaxDepth = 1
  PoolSize = 2
  QueueCap = 1
  RestartCaps = 3
  Syscalls <- ReuseCalls
  RightsArg <- AllRights
SPECIFICATION Spec
PROPERTIES CreatedIsExclusive
CHECK_DEADLOCK FALSE
