\* What the manual says of timeouts, against prlctl exec without --timeout.
SPECIFICATION JobFairSpec
CONSTANTS
  Hook <- CommandHook
  Commands = {"exec"}
  MaxHooks = 3
  MaxSignals = 0
  Receiver = {"main"}
  TimeoutGiven = FALSE
PROPERTY DefaultIsUnlimited
CHECK_DEADLOCK FALSE
