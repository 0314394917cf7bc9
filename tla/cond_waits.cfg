SPECIFICATION Spec
CONSTANTS
  Thread = {t1, t2, t3}
  Main = t1
  Idle = Idle
  NoThread = NoThread
  NoMutex = NoMutex
  NoCond = NoCond
  PRIORITY_MAX = 1
  PRIORITY_NORMAL = 1
  SCHED_RR_INTERVAL = 1
  UserPolicies = {"RR"}
  Mutex = {m}
  SetPrios = {0}
  Cond = {c}
  Cancels = TRUE
SYMMETRY Symmetry
INVARIANTS
  WaitsAccounted
  NoStaleTimer
  TimeoutIsTruthful
PROPERTIES
  SignalWakesHighest
