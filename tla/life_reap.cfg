SPECIFICATION Spec
CONSTANTS
  Thread = {t1, t2, t3, t4}
  NoThread = NoThread
  Main = t1
  Usage = {}
SYMMETRY Symmetry
INVARIANTS
  NoDangling
  NobodyLeaked
PROPERTIES
  DestroyedOnlyWhenGone
CHECK_DEADLOCK FALSE
