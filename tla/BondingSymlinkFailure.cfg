SPECIFICATION Spec
CONSTANTS
  eth0 = eth0
  eth1 = eth1
  NoSlave = NoSlave
  Dev = {eth0, eth1}
  Mode = "activebackup"
  Primary = NoSlave
  UpDelay = 0
  DownDelay = 0
  RtnlOvertake = FALSE
  HoolockIoctls = FALSE
  SymlinkMayFail = TRUE
INVARIANT PointersValid
