SPECIFICATION Spec
CONSTANTS
  eth0 = eth0
  eth1 = eth1
  NoSlave = NoSlave
  Dev = {eth0, eth1}
  Served = {eth0, eth1}
  Slaves <- TwoSlaves
  MaxPackets = 2
  SleepSuffices = TRUE
  FlushSuffices = TRUE
  LinksMayFail = FALSE
  ControllerMayDie = FALSE
  DpipeMayDie = FALSE
CHECK_DEADLOCK FALSE
INVARIANT InOrder
