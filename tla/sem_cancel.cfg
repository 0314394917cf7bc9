SPECIFICATION CancelSpec
CONSTANTS
  Thread = {t1, t2}
  Main = t1
  Idle = Idle
  NoThread = NoThread
  NoSem = NoSem
  PRIORITY_MAX = 0
  PRIORITY_NORMAL = 0
  SCHED_RR_INTERVAL = 1
  UserPolicies = {"RR"}
  Sem = {a}
  InitValue = 1
  MaxValue = 2
INVARIANTS
  NeverRunnableTwice
