SPECIFICATION Spec
CONSTANTS
  eth0 = eth0
  eth1 = eth1
  NoSlave = NoSlave
  Dev = {eth0, eth1}
  Mode = "hoolock"
  Primary = NoSlave
  UpDelay = 0
  DownDelay = 0
  RtnlOvertake = FALSE
  HoolockIoctls = TRUE
  SymlinkMayFail = FALSE
INVARIANT NoNullDereference
