\* Two hooks at a time, three signals, delivered to either thread.
SPECIFICATION FairSpec
CONSTANTS
  Hook = {h1, h2}
  MaxHooks = 2
  MaxSignals = 3
  Receiver = {"main", "monitor"}
INVARIANTS TypeOK SurvivesSignals
PROPERTIES HooksFrozen SignalsServed JoinReturns
CHECK_DEADLOCK FALSE
