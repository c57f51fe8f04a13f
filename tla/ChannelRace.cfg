SPECIFICATION FairSpec
CONSTANTS
  Users = {"rc"}
  Mechanisms <- MCMechanisms
  Closes = FALSE
PROPERTY LossIsNotified
CHECK_DEADLOCK FALSE
