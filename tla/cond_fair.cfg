SPECIFICATION FairSpec
CONSTANTS
  Thread = {t1, t2}
  Main = t1
  Idle = Idle
  NoThread = NoThread
  NoMutex = NoMutex
  NoCond = NoCond
  PRIORITY_MAX = 0
  PRIORITY_NORMAL = 0
  SCHED_RR_INTERVAL = 1
  UserPolicies = {"RR"}
  Mutex = {m}
  SetPrios = {}
  Cond = {c}
  Cancels = TRUE
PROPERTIES
  EndedWaitReturns
  TimedWaitReturns
  ReadyRuns
