\* Every command, with --timeout, two signals, delivered to either thread.
SPECIFICATION JobFairSpec
CONSTANTS
  Hook <- CommandHook
  Commands <- Command
  MaxHooks = 3
  MaxSignals = 2
  Receiver = {"main", "monitor"}
  TimeoutGiven = TRUE
INVARIANTS JobTypeOK HookDataLive CallbackDataLive NothingLeftBehind SurvivesWork
PROPERTIES CancelIsFinal InterruptEndsWait
CHECK_DEADLOCK FALSE
