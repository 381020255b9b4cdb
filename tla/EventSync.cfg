\* Three threads, one of them waits with a timeout, wakeups may be spurious.
SPECIFICATION FairSpec
CONSTANTS
  Thread = {t1, t2, t3}
  Timed = {t1}
  Spurious = TRUE
INVARIANTS TypeOK NoLostWakeup
PROPERTIES NoWaiterStarves TimedWaitReturns
