SPECIFICATION Spec
CONSTANTS
  Thread = {t1, t2, t3}
  Main = t1
  Idle = Idle
  NoThread = NoThread
  NoSem = NoSem
  PRIORITY_MAX = 1
  PRIORITY_NORMAL = 1
  SCHED_RR_INTERVAL = 1
  UserPolicies = {"RR"}
  Sem = {a, b}
  InitValue = 1
  MaxValue = 2
INVARIANTS
  WaitersAccounted
PROPERTIES
  ImplementsSem
