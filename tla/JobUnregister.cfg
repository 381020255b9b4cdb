\* The code's own rule for callbacks, against the deletion of a backup.
SPECIFICATION JobFairSpec
CONSTANTS
  Hook <- CommandHook
  Commands = {"backup_delete"}
  MaxHooks = 3
  MaxSignals = 0
  Receiver = {"main"}
  TimeoutGiven = FALSE
PROPERTY UnregisterSameData
CHECK_DEADLOCK FALSE
