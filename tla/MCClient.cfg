SPECIFICATION FairSpec
CONSTANTS
  Tags = {"a", "b"}
  MaxSent = 3
  Callers = {"redial", "handle"}
  Ops <- ClientOps
  NoWaitOps <- ButConfirm
  MaxAsync = 1
  Registrations <- ClientListeners
  Capacity = 1
  MaxMessages = 2
  Users = {"rc"}
INVARIANTS RpcInStep ListenersTold NobodyForgotten
PROPERTIES IsDeliveryQueues NobodyIsStuck OpenEnds EndReachesAll
CHECK_DEADLOCK FALSE
