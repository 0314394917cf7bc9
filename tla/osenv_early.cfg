SPECIFICATION Spec
CONSTANTS
  Thread = {t1, t2}
  Main = t1
  Idle = Idle
  NoThread = NoThread
  NoMutex = NoMutex
  ProcessLock = ProcessLock
  PRIORITY_MAX = 0
  PRIORITY_NORMAL = 0
  SCHED_RR_INTERVAL = 1
  UserPolicies = {"RR"}
  InitMasked = FALSE
  Cancels = FALSE
INVARIANTS
  QueuedIsNotRunning
