\* Each kind of action; two VMs with statistics, two disks of two blocks.
CONSTANTS
  Vms = 2  MaxEvents = 3
  Disks = 2  Blocks = 2  Content = {0, 1}
  TimeoutGiven = TRUE
SPECIFICATION FairSpec
INVARIANT SrvTypeOK CommittedIsComplete WaitsForItsVm SessionsEnded PeerOutlivesJob SuccessIsReal
PROPERTY BackupIsClosed StatisticsEnd
CHECK_DEADLOCK FALSE
