SPECIFICATION Spec
CONSTANTS
  Thread = {t1, t2, t3}
  Main = t1
  Idle = Idle
  NoThread = NoThread
  ANYTID = ANYTID
  PRIORITY_MAX = 0
  PRIORITY_NORMAL = 0
  SCHED_RR_INTERVAL = 1
  UserPolicies = {"RR"}
  Sizes = {1, 2}
  Timeouts = {"forever"}
  EarlyReplies = TRUE
  Cancelable = {{}, {"RECV"}}
INVARIANT
  FirstSenderIsSending
