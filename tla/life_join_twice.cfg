SPECIFICATION Spec
CONSTANTS
  Thread = {t1, t2, t3}
  NoThread = NoThread
  Main = t1
  Usage = {"join_twice"}
INVARIANTS
  AllJoinersServed
CHECK_DEADLOCK FALSE
