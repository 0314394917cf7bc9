SPECIFICATION FairSpec
CONSTANTS
  Thread = {t1, t2, t3}
  NoThread = NoThread
  Main = t1
  Usage = {}
PROPERTIES
  ExitTerminates
  JoinReturns
  DestroyedOnlyWhenGone
INVARIANTS
  AliveCounts
  NoDangling
  NobodyLeaked
CHECK_DEADLOCK FALSE
