SPECIFICATION ArpFairSpec
CONSTANTS
  NoSlave = NoSlave
  Dev = {eth0, eth1}
  Mode = "activebackup"
  Primary = NoSlave
  UpDelay = 0
  DownDelay = 0
  RtnlOvertake = TRUE
  HoolockIoctls = FALSE
  SymlinkMayFail = FALSE
  Monitors = {"arp"}
  ArpValidate = TRUE
  Punctual = TRUE
  Closable = FALSE
  Downable = {eth1}
INVARIANT SearchListed
PROPERTY ActiveReceives
PROPERTY ActiveIsFound
PROPERTY SilentDropped
