SPECIFICATION Spec
CONSTANTS
  Thread = {t1, t2, t3}
  Main = t1
  Idle = Idle
  NoThread = NoThread
  NoMutex = NoMutex
  ProcessLock = ProcessLock
  PRIORITY_MAX = 1
  PRIORITY_NORMAL = 1
  SCHED_RR_INTERVAL = 1
  UserPolicies = {"RR"}
  InitMasked = TRUE
  Cancels = TRUE
INVARIANTS
  OwnerHasLock
  SleepersAreWakeable
PROPERTIES
  FirstWakeupCounts
