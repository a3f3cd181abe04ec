SPECIFICATION PortSpec
CONSTANTS
  eth0 = eth0
  eth1 = eth1
  NoSlave = NoSlave
  Dev = {eth0, eth1}
  Mode = "hoolock"
  Primary = eth0
  UpDelay = 1
  DownDelay = 1
  RtnlOvertake = TRUE
  HoolockIoctls = TRUE
  SymlinkMayFail = FALSE
  Monitors = {"mii"}
  ArpValidate = FALSE
  Punctual = TRUE
  Closable = TRUE
  Downable = {eth0, eth1}
  Kernels = {"2.6.24", "2.6.27"}
INVARIANT TypeOK
INVARIANT PointersValid
PROPERTY FailoverOnlyForCause
