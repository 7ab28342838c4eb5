\* A process and its child, the static endpoint and one to create and
\* destroy, four capability slots used once each.
\* The machine may halt (scheduler_halt), so a deadlock is not an error.
CONSTANTS
  Fixture = "pair"
  Table <- TwoProcesses
  NoTable = NoTable
  NoProc = NoProc
  NumSlots = 4
  Object <- TwoEndpoints
  NoObject = NoObject
  Right = {send, recv, transfer, revoke, admin}
  SEND = send
  RECV = recv
  TRANSFER = transfer
  REVOKE = revoke
  ADMIN = admin
  Authority = Authority
  MaxGen = 1
  MaxDepth = 1
  PoolSize = 2
  QueueCap = 1
  RestartCaps = 2
  Syscalls <- LifeCalls
  RightsArg <- LifeRights
SPECIFICATION Spec
INVARIANT AuthorityConfined
PROPERTIES DestroyForgets RestartRestores
CHECK_DEADLOCK FALSE
