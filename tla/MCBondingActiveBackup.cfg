SPECIFICATION PortFairSpec
CONSTANTS
  eth0 = eth0
  eth1 = eth1
  NoSlave = NoSlave
  Dev = {eth0, eth1}
  Mode = "activebackup"
  Primary = eth0
  UpDelay = 0
  DownDelay = 1
  RtnlOvertake = FALSE
  HoolockIoctls = FALSE
  SymlinkMayFail = FALSE
  Monitors = {"mii"}
  ArpValidate = FALSE
  Punctual = TRUE
  Closable = TRUE
  Downable = {eth0, eth1}
  Kernels = {"2.6.24", "2.6.27"}
INVARIANT StateFollowsActive
PROPERTY PortUpFromBack
PROPERTY LinkFollowsCarrier
PROPERTY DeadSlaveNotKept
PROPERTY HandlersFinish
