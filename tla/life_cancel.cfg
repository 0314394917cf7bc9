SPECIFICATION Spec
CONSTANTS
  Thread = {t1, t2, t3}
  NoThread = NoThread
  Main = t1
  Usage = {"cancel_joiner"}
SYMMETRY Symmetry
INVARIANTS
  AliveCounts
  NoDangling
CHECK_DEADLOCK FALSE
