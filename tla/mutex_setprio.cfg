SPECIFICATION Spec
CONSTANTS
  Thread = {t1, t2, t3}
  Main = t1
  Idle = Idle
  NoThread = NoThread
  NoMutex = NoMutex
  PRIORITY_MAX = 2
  PRIORITY_NORMAL = 1
  SCHED_RR_INTERVAL = 1
  UserPolicies = {"RR"}
  Mutex = {a}
  Inherit = {a}
  Recursive = {}
  MaxCount = 1
  SetPrios = {0, 1, 2}
  Errors = FALSE
PROPERTIES
  GrantsHighest
