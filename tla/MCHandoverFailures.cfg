SPECIFICATION ClientsSpec
CONSTANTS
  eth0 = eth0
  eth1 = eth1
  NoSlave = NoSlave
  Dev = {eth0, eth1}
  Served = {eth0, eth1}
  HardDev = eth0
  Slaves <- TwoSlaves
  Programs = {"soft", "quiet", "hard", "simple"}
  Backlog = 1
  MaxPackets = 1
  SleepSuffices = FALSE
  FlushSuffices = FALSE
  LinksMayFail = TRUE
  ControllerMayDie = TRUE
  DpipeMayDie = TRUE
CHECK_DEADLOCK FALSE
INVARIANT TypeOK
INVARIANT QuietBetween
INVARIANT OneAssociation
PROPERTY HandoverEnds
PROPERTY OutputEnds
