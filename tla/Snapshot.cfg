\* Both commands; the VM is started or stopped twice by others.
SPECIFICATION FairSpec
CONSTANTS
  Op = {"create", "switch"}
  TimeoutGiven = TRUE
  MaxChanges = 2
INVARIANTS TypeOK AnnouncedWhenWritten
PROPERTY WaitEnds
CHECK_DEADLOCK FALSE
