SPECIFICATION FairSpec
CONSTANTS
  Commands = {"kill"}
  MaxConns = 2
  ExchangeExists = TRUE
  Shutdowns = TRUE
  StatsInterval = 1
  Rates = {0, 2}
  MsgTimeout = TRUE
  MaxChanges = 2
  Routines = {"monitor", "redial"}
  Levels = {0, 1, 3}
  Settings = {2}
  Entries = {"plain", "unfit"}
  MaxCalls = 1
  MaxSettings = 1
  Ids = {"t1", "t2"}
  Durations = {1, 2}
  Horizon = 2
INVARIANTS CommandsOnce LogHolds NothingOverdue
PROPERTIES LoopGoesOn StatisticsGoOn ForwardOnTheWay EveryCallEnds
