\* A process and its child with the policy authority; three capability
\* slots used once each, one token slot of two generations.
\* The machine may halt (scheduler_halt), so a deadlock is not an error.
CONSTANTS
  Fixture = "pair"
  Table <- TwoProcesses
  NoTable = NoTable
  NoProc = NoProc
  NumSlots = 3
  Object <- OneEndpoint
  NoObject = NoObject
  Right = {send, recv, transfer, revoke, admin}
  SEND = send
  RECV = recv
  TRANSFER = transfer
  REVOKE = revoke
  ADMIN = admin
  Authority = Authority
  MaxGen = 1
  MaxDepth = 1
  PoolSize = 1
  QueueCap = 1
  RestartCaps = 2
  Syscalls <- TokenCalls
  RightsArg <- DerivedRights
  TokenSlots = 1
  MaxTokenGen = 2
  Nonce = {0, 1}
  Deadline = {0, 2}
  MaxClock = 3
SPECIFICATION TokenSpec
INVARIANTS TokenTypeOK UsedOnce
PROPERTIES ApprovalHolds
CHECK_DEADLOCK FALSE
