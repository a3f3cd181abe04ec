SPECIFICATION FairSpec
CONSTANTS
  eth0 = eth0
  NoSlave = NoSlave
  Dev = {eth0}
  Mode = "hoolock"
  Primary = NoSlave
  UpDelay = 0
  DownDelay = 0
  RtnlOvertake = FALSE
  HoolockIoctls = TRUE
  SymlinkMayFail = FALSE
PROPERTY HandlersFinish
