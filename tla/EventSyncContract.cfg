\* No timeout and no spurious wakeup: the event keeps its contract.
SPECIFICATION FairSpec
CONSTANTS
  Thread = {t1, t2, t3}
  Timed = {}
  Spurious = FALSE
PROPERTY ImplementsContract
CHECK_DEADLOCK FALSE
