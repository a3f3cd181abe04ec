SPECIFICATION FairSpec
CONSTANTS
  eth0 = eth0
  eth1 = eth1
  NoSlave = NoSlave
  Dev = {eth0, eth1}
  Served = {eth0, eth1}
  Slaves <- TwoSlaves
  MaxPackets = 6
  SleepSuffices = TRUE
  FlushSuffices = TRUE
  LinksMayFail = FALSE
  ControllerMayDie = TRUE
  DpipeMayDie = FALSE
CHECK_DEADLOCK FALSE
INVARIANT NothingLost
INVARIANT ActivePlumbed
PROPERTY ChannelSpec
