SPECIFICATION Spec
CONSTANTS
  Leader = "leader"
  Offspring = {}
  Spaced = {}
  Samplers = {router, ticker}
  MaxWork = 1
  MaxSamples = 3
INVARIANT UseReportedOnce
CHECK_DEADLOCK FALSE
