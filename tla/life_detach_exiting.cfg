SPECIFICATION Spec
CONSTANTS
  Thread = {t1, t2, t3}
  NoThread = NoThread
  Main = t1
  Usage = {"detach_exiting"}
INVARIANTS
  NobodyLeaked
CHECK_DEADLOCK FALSE
