\* Every line with three options or commands.
CONSTANTS
  Reader = {"vm", "ct", "srv"}
  MaxOptions = 3
  Named = {"net", "hdd", "usb"}
SPECIFICATION Spec
INVARIANT SetTypeOK NoEditIsDropped SuccessTells
PROPERTY ImplementsTransaction
CHECK_DEADLOCK FALSE
