\* What the header says of Wait, against a single thread that waits.
SPECIFICATION FairSpec
CONSTANTS
  Thread = {t1, t2}
  Timed = {t1}
  Spurious = TRUE
PROPERTY WaitReportsEvent
