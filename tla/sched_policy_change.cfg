SPECIFICATION Spec
CONSTANTS
  Thread = {t1, t2}
  Main = t1
  Idle = Idle
  NoThread = NoThread
  PRIORITY_MAX = 1
  PRIORITY_NORMAL = 0
  SCHED_RR_INTERVAL = 1
  UserPolicies = {"FIFO", "RR"}
  Handoffs = FALSE
  PolicyChanges = {"running", "ready", "blocked"}
PROPERTIES
  SetschedparamReschedules
