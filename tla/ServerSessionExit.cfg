\* What the manual says of the exit status.
CONSTANTS
  Vms = 2  MaxEvents = 3
  Disks = 2  Blocks = 2  Content = {0, 1}
  TimeoutGiven = TRUE
SPECIFICATION Spec
INVARIANT ExitStatusTells
CHECK_DEADLOCK FALSE
