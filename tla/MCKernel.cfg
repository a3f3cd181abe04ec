SPECIFICATION KernelSpec
CONSTANTS
  Dev = {d1, d2, d3}
  NoSlave = NoSlave
  OtherMac = OtherMac
  UserMax = 2
  Challenged = {d3}
  Mtus = {1400, 1500}
  Nic = {n1, n2}
  Talker = {n2}
  Ib = {n2}
  Bond = bond
  Thread = {t1, t2}
  Cpu = {c1, c2}
  Irq = {c2}
  None = None
  MaxBacklog = 0
INVARIANTS SharesExact MacsAgree OwnMacBack MtuUndone VlansFollow
           RefsExact NoDangling SlavesListed NoBugOn BacklogPolled
PROPERTY UnregisterEnds
CHECK_DEADLOCK FALSE
