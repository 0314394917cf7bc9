SPECIFICATION Spec
CONSTANTS
  Thread = {t1, t2, t3}
  Main = t1
  Idle = Idle
  NoThread = NoThread
  PRIORITY_MAX = 2
  PRIORITY_NORMAL = 1
  SCHED_RR_INTERVAL = 2
  UserPolicies = {"FIFO", "RR"}
  Handoffs = FALSE
  PolicyChanges = {}
SYMMETRY Symmetry
INVARIANTS
  HigherPriorityIsPending
PROPERTIES
  ReschedulesToHighest
  FifoOnlyOutranked
