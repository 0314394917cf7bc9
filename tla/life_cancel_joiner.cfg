SPECIFICATION FairSpec
CONSTANTS
  Thread = {t1, t2, t3}
  NoThread = NoThread
  Main = t1
  Usage = {"cancel_joiner"}
PROPERTIES
  ExitTerminates
CHECK_DEADLOCK FALSE
