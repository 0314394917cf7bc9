SPECIFICATION Spec
CONSTANTS
  Thread = {t1, t2, t3}
  Main = t1
  Idle = Idle
  NoThread = NoThread
  NoMutex = NoMutex
  PRIORITY_MAX = 2
  PRIORITY_NORMAL = 1
  SCHED_RR_INTERVAL = 1
  UserPolicies = {"RR"}
  Mutex = {a, b}
  Inherit = {a, b}
  Recursive = {}
  MaxCount = 1
  SetPrios = {}
  Errors = FALSE
PROPERTIES
  HolderAlreadyBumped
