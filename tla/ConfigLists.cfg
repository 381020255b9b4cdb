\* Three devices, one of which is added; two commands at a time.
CONSTANTS
  Device = {"hdd0", "hdd1", "net0"}
  MaxIndex = 4
  MaxNames = 3
  Command = {"p", "q"}
  NetClass = {1}
  Net = {"n1", "n2", "n3"}
SPECIFICATION Spec
INVARIANT ListsTypeOK EveryDeviceListed ListedOnce IndexesGrow OrderIsAsAsked ListIsAsAsked NetworkOnce
CHECK_DEADLOCK FALSE
