SPECIFICATION PortFairSpec
CONSTANTS
  eth0 = eth0
  eth1 = eth1
  NoSlave = NoSlave
  Dev = {eth0, eth1}
  Mode = "trunk"
  Primary = NoSlave
  UpDelay = 0
  DownDelay = 0
  RtnlOvertake = TRUE
  HoolockIoctls = FALSE
  SymlinkMayFail = TRUE
  Monitors = {"mii", "arp"}
  ArpValidate = FALSE
  Punctual = FALSE
  Closable = TRUE
  Downable = {}
  Kernels = {"2.6.24", "2.6.27"}
INVARIANT PortCarrier
PROPERTY LbActiveUp
PROPERTY ClosedMonitorStops
