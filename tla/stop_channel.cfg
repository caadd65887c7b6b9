CONSTANTS
  StopClients = {"s1"}
  OddClients = {"o1"}
  Clients <- AllClients
  Message <- Messages
  Faults = {"init", "start", "db", "error", "slow", "client"}
SPECIFICATION FairSpec
INVARIANTS StopTypeOK CleanupAfterB DeafOnlyAtStart StopInv
PROPERTIES StopHeard StopMeansEnd ClientAnswered
CHECK_DEADLOCK FALSE
