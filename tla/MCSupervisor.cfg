SPECIFICATION FairSpec
CONSTANTS
  store = store
  worker = worker
  Service = {store, worker}
  Order <- TheOrder
  Group <- TheGroup
  Deps <- TheDeps
  Mode <- TheMode
  MaxAttempts <- TheAttempts
  Backoff = 1
  Timeout = 2
  NoDue = NoDue
  MaxNonce = 2
INVARIANTS TypeOK AuthorityEnds PausedGroupsRest
PROPERTIES GroupsFailTogether HandlesStayDead Attended
