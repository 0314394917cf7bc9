SPECIFICATION FairSpec
CONSTANTS
  Thread = {t1, t2, t3}
  Main = t1
  Idle = Idle
  NoThread = NoThread
  PRIORITY_MAX = 0
  PRIORITY_NORMAL = 0
  SCHED_RR_INTERVAL = 2
  UserPolicies = {"RR"}
  Handoffs = FALSE
  PolicyChanges = {}
PROPERTIES
  ReadyRuns
