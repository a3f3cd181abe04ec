# Hoolock in TLA+

Hoolock moves a Wi-Fi client from one access point to another without losing packets. The client
has two interfaces enslaved to a Linux bonding device in a new mode, `hoolock`; a client program, an
OpenFlow controller (NOX) and, in the test bed, a "plumber" that stands for radio association go
through a four-stage protocol: MAKE_REQ, MAKE_ACK, BREAK_REQ, BREAK_ACK. The repository keeps the
bonding driver and the network device core for two kernels, 2.6.27 (`27/`) and 2.6.24 (`24/`), and
four client programs. This directory models the driver, a concurrent kernel program; the life of the
devices it is made of; and the protocol end to end.

Paths below are relative to `src/`.

## The system

| component | state | operations | modelled in |
|---|---|---|---|
| slave list, active slave, carrier (`27/bond_main.c`, `27/bonding.h`) | `first_slave` list, `curr_active_slave`, `primary_slave`, `slave->link/new_link/delay/state`, the bond's carrier | enslave, release, free-all, best-slave search, change of the active slave, `bond_set_carrier` | `SlaveList`, `Bonding` |
| MII link monitor (`27/bond_main.c`) | `mii_work`, `kill_timers`, the proposals in `new_link` | inspect (under `bond->lock`), wait for rtnl, commit slave by slave, re-arm | `Bonding` |
| ARP monitors (`27/bond_main.c`) | `arp_work`, the stamps `last_rx`, `trans_start`, `slave->jiffies`, `current_arp_slave` | load balancing: judge and select; active-backup: inspect, commit, probe, search; `bond_arp_rcv` | `ArpMonitor` |
| hoolock ioctls (`27/bond_main.c`) | `buffer_mode`, `pbuff` | GETACTIVE, GETPASSIVE, MAKE, BREAK, TEST | `Bonding` (roles, modes, locks), `Handover` (packets) |
| receive hook (`27/bond_main.c`, `27/dev.c`) | `pbuff` | `bond_hoolock_recv` called by `netif_receive_skb` | `Handover`, in part |
| the driver of 2.6.24 (`24/bond_main.c`, `24/bonding.h`) | the same, without `new_link` | the same, with fewer lock windows and other error paths | `Bonding24` |
| receive mode, addresses, MTU, VLANs (`bond_main.c`, `dev.c` of both kernels) | promiscuity, allmulti and multicast counts, `dev_addr`, `perm_hwaddr`, `mtu`, `vlan_list`, filters | `bond_set_multicast_list`, `bond_mc_swap`, `bond_do_fail_over_mac`, `bond_set_mac_address`, `bond_change_mtu`, VLAN add and kill, and their parts in enslave and release | `DeviceSettings` |
| life of devices (`dev.c` of both kernels; `bond_create`, `bond_destroy`, `bond_netdev_event`) | `reg_state`, reference counts, `net_todo_list`, the backlog of each processor | register, unregister, notify, `netdev_run_todo`, `netdev_wait_allrefs`, `netif_rx`, `process_backlog`, `flush_backlog`, `dev_cpu_callback`, `free_netdev` | `NetDevices` |
| soft client (`src/hoolock_client.cc`) | its place in the loop, `act_slave`, `pas_slave` | one iteration per handover | `Handover` |
| other clients (`src/client.cc`, `src/hard_client.cc`, `src/simple_client.cc`), output handler (`src/output_handler.c`) | the same; `act_ch`; the iperf process and its connection | quiet handover, break before make, none; one connection at a time | `Clients` |
| plumber (`src/plumb.c`) | `eth0_pid`, `eth1_pid`, the dpipe processes | make, break | `Plumber` |
| controller (external) | in transition or not, the route of the flow, the flush timer | the four messages, rerouting on a flow-in event | `Handover`, as the environment of the client |
| transmit policies | none of their own | hoolock's read of the active slave | `Bonding`, in part |
| parameters, proc, ethtool, statistics, gratuitous ARP, test programs, patch, report | | | left out, see the end |

They interact through

* rtnl, `bond->lock` and `curr_slave_lock` inside the driver. rtnl serialises the administrator's
  handlers and the commit half of the monitors; the inspection half and the transmit path run without
  it, between any two sections of a handler;
* the netdev notifier, by which the end of a device reaches the bond, and reference counts, by which
  the end waits for the bond, the protocols and the packets;
* ioctls from the client to the driver, at moments the driver knows nothing of;
* two TCP connections: client to controller (one message outstanding at a time) and client to plumber
  (one connection per command, answered when the command has been carried out), and a third to the
  output handler, shared with a child process;
* packets, which take the route the controller has set and the pipe the plumber has forked.

What is hard about it, and so what the properties are about:

* a handler that drops `bond->lock` half-way shows its intermediate state to the others
  (`bond_enslave`, `bond_release`, and every change of the active slave in active-backup mode);
* the monitors act on proposals, or on an active slave they have read, that can be older than a
  release, an enslave or an ioctl;
* what the bond has set on a slave is undone in another place, after any number of failovers;
* a device ends while packets of it are queued on several processors, threads unregister others, and
  its bond may end with it;
* the client, the driver and the plumber each decide for themselves which slave is "the other one";
* two steps of the handover rest on time only: `sleep(1)` and the controller's flush time;
* any party can fail in the middle, and the client has no timeouts.

`PROJECT.json` lists these hazards at their lines with the properties that cover each.

## Modules

```
SlaveList -- Bonding -- ArpMonitor -- Bonding24          Plumber, LosslessChannel -- Handover -- Clients
     \-- DeviceSettings      NetDevices
TLC:     MCBonding  MCArp  MCPorts  MCKernel                    MCHandover  MCClients
proofs:  SlaveListProofs -- BondingProofs -- PortProofs         HandoverProofs -- ClientsProofs
               \-- SettingsProofs      NetDevicesLemmas -- NetDevicesProofs
```

`SlaveList` holds the circular list and its searches as operators. A list is the sequence the `next`
pointers visit from `first_slave`. `SlaveByDev` keeps a peculiarity of `bond_get_slave_by_dev`: on a
miss the cursor has gone round the circle and the result is the first slave, not NULL.

`Bonding` is the driver of 2.6.27. A step is a section of code under `bond->lock`; handlers that drop
the lock are split there. `op` names the handler that holds rtnl and the slave it works on, `gap` what
a handler still has to do after `netdev_bonding_change`, `mon` where the running instance of the
monitor is.

| actions | code |
|---|---|
| `EnslaveAttach`, `EnslaveSetup`, `EnslaveDone`, `EnslaveFails` | `bond_enslave`, up to `write_unlock_bh`, from `write_lock_bh` to the carrier, symlinks, `err_close` |
| `ReleaseDetach`, `ReleaseReselect`, `ReleaseFinish` | `bond_release` |
| `FreeAllBegin`, `FreeAllNext` | `bond_free_all`, `bond_release_all` |
| `Open`, `Close` | `bond_open`, `bond_close` |
| `IoctlChangeActive`, `IoctlHoolockTest`, `IoctlMake`, `IoctlBreak`, `IoctlGetActive` | the ioctls; `Spin` is a writer that meets the read locks GETACTIVE has leaked |
| `MiiInspect`, `MiiQuit`, `MiiCommitBegin`, `MiiCommitSlave`, `MiiCommitEnd` | `bond_mii_monitor`, `bond_miimon_inspect`, `bond_miimon_commit` |
| `XmitHoolock` | `bond_xmit_hoolock`, as far as it reads `curr_active_slave` |
| `CarrierChange`, `SlaveUpDown` | the devices: carrier, `NETDEV_UP/DOWN` |

`ArpMonitor` adds the other kind of link monitor to the same handlers (`ArpHandler` is a handler of
`Bonding` with what it does to the monitor's fields, `ArpFields`). Time is counted in arp intervals;
what the code compares with jiffies is kept as an age that stops growing where no comparison can tell.

| actions | code |
|---|---|
| `LbBegin`, `LbPass` | `bond_loadbalance_arp_mon`: reading the active slave; the loop over the slaves and the failover |
| `ArpInspect`, `ArpCommitBegin`, `ArpCommitSlave`, `ArpCommitPrimary`, `ArpCommitEnd` | `bond_activebackup_arp_mon`, `bond_ab_arp_inspect`, `bond_ab_arp_commit` |
| `ArpProbe`, `ArpSearch` | `bond_ab_arp_probe`, up to and after the point where it gives `curr_slave_lock` back |
| `ProbeAnswered`, `ProbeHeard` | `bond_arp_rcv`, `bond_validate_arp` |
| `Tick`, `ArpQuit` | the timer; `kill_timers` and a bond without slaves |

`Bonding24` is the 2.6.24 port. Its header lists how it differs; operators of the other modules that
mean the same there are used again under a name that ends in 24. `EnslaveOpen24` and `EnslaveSetup24`
are `bond_enslave`, which is one section here; `ReleaseStray24` is `bond_release` of a device that has
kept its master without being a slave; `MiiInspect24` and `MiiCommit24` are the two calls of
`__bond_mii_monitor`; `LbJudge24` and `LbSelect24` the load-balancing ARP monitor with its wait for
rtnl. `kernel` says which port a behaviour is about, so that the runs check the same properties of
both.

`DeviceSettings` is what a bond sets on its slaves. Everything in it runs under rtnl, so an operation
of the code is a step, and which slave is best is left open. `setting` says which of the four settings
a behaviour looks at. `lost` becomes true where the code itself loses track (see below); nothing is
looked at after that.

| actions | code |
|---|---|
| `Enslave`, `EnslaveFails` (`Joins` is what they share; `Enslave24` is either of them in 2.6.24), `Release`, `ReleaseAll`, `ActiveChanges` | their parts of `bond_enslave`, `bond_release`, `bond_release_all`, `bond_change_active_slave`, with `McSwap24/27` and `FailOverMac24/27` |
| `BondUser`, `OpenClose`, `DeviceUser` | `bond_set_multicast_list` by way of `__dev_set_rx_mode` and `dev_open`; `dev_set_promiscuity`, `dev_set_allmulti`, `dev_mc_add` on a slave |
| `SetHwAddr`, `SetMacAddress` | `bond_sethwaddr`, `bond_set_mac_address` |
| `ChangeMtu` | `bond_change_mtu` |
| `AddVid`, `KillVid` | `bond_vlan_rx_add_vid`, `bond_vlan_rx_kill_vid`, `bond_add_vlan`, `bond_del_vlan` |

`NetDevices` is the life of the devices in both kernels. `pc` says where each thread is.

| actions | code |
|---|---|
| `CreateBond`, `SysfsDone`, `SysfsFails27`, `SysfsFails24` | `bond_create` |
| `UnregisterNic`, `DestroyBond`, `Notify`, `PutLast` | `unregister_netdevice`, `rollback_registered`, `bond_netdev_event`, `bond_release_and_destroy` |
| `UnlockRtnl27`, `UnlockRtnl24`, `RunTodo24`, `TodoNext`, `FlushBacklog`, `Rebroadcast`, `WaitEnds`, `TodoDone` | `rtnl_unlock`, `netdev_run_todo`, `flush_backlog`, `netdev_wait_allrefs`, `free_netdev` |
| `OpenOrClose`, `EnslaveNic`, `OpenFails27`, `OpenFails24`, `ReleaseNic` | `dev_open`, `dev_close`, `netdev_set_master` by enslave, also one whose `dev_open` fails, and by release |
| `NetifRx`, `ProcessBacklog`, `NetifReceive`, `CpuDies`, `DevCpuCallback` | the backlog of each processor |

`Plumber` and `Handover` are the protocol. An action of the client is what it does from one blocking call
to the next, and `pc` names the call. A path is a FIFO channel from the sender to one access point; the
last hop is the dpipe the plumber has forked, and a packet that finds no connected pipe is lost. `Served`
are the two interfaces the plumber knows (the digits 0 and 1): it answers a command about any other one
without doing anything. `HeldBack` compares what the code compares, `orig_dev` with the *slave* pointer.
`LosslessChannel` is the abstract specification of a downlink flow: a packet sent is in transit until
received, is received once and is received in the end, in no particular order.

`Clients` puts the other programs into the same surroundings (`client` says which one runs):
`QuietBreakReq` is the soft client of `client.cc`, `HardLoop`, `HardBreak`, `HardMake` and
`HardAnswers` are `hard_client.cc`, `SimpleRuns` is `simple_client.cc`. `StartIperf`, `StopIperf`,
`Orphan` and `NextOutput` are the connection to the output handler, which the background ping of two
of the clients inherits (`StartPing`, `PingEnds`). A program that has ended is followed by another one
(`Restart`), which finds the bond, the network and the plumber as they are; a plumber is either for
hard handovers or for the others (`is_hard`), and so are its clients.

The modules with proofs are `SlaveListProofs` (lemmas about the list), `BondingProofs` (on `Bonding`),
`PortProofs` (on `Bonding24` and `ArpMonitor`), `SettingsProofs`, `HandoverProofs`, `ClientsProofs`,
`NetDevicesLemmas` and `NetDevicesProofs`. `MCBonding`, `MCArp`, `MCPorts`, `MCKernel`, `MCHandover` and
`MCClients` instantiate the specifications for TLC.

## Runs

| run | shows | distinct states |
|---|---|---|
| `bonding_hoolock` | `TypeOK`, `PointersValid`, `FailoverOnlyForCause` in hoolock mode, both kernels, primary set, both delays 1, all ioctls, a monitor that can be overtaken | 981 600 |
| `bonding_active_backup` | both kernels: `StateFollowsActive`, `PortUpFromBack`; under fairness `LinkFollowsCarrier`, `DeadSlaveNotKept`, `HandlersFinish` | 40 320 |
| `bonding_trunk` | both kernels, either monitor, where all slaves carry traffic, with failing symlinks: `PortCarrier` and `LbActiveUp`; under fairness `ClosedMonitorStops` | 202 190 |
| `arp_monitor` | the active-backup ARP monitor with validation: `SearchListed`, `ActiveReceives`; under fairness `ActiveIsFound`, `SilentDropped` | 403 629 |
| `kernel_devices` | settings: `SharesExact`, `MacsAgree`, `OwnMacBack`, `MtuUndone`, `VlansFollow`; devices: `RefsExact`, `NoDangling`, `SlavesListed`, `NoBugOn`, `BacklogPolled`; under fairness `UnregisterEnds` | 544 852 |
| `handover_lossless` | `NothingLost`, `ActivePlumbed` and the refinement `ChannelSpec`, over repeated handovers, with a controller that can die | 25 084 |
| `handover_failures` | all four clients, one after the other, with pipes, links and controller failing and no timing assumption: `TypeOK`, `QuietBetween`, `OneAssociation`; under fairness `HandoverEnds`, `OutputEnds` | 305 988 |
| `bonding_xmit_null` | violation of `NoNullDereference` | |
| `bonding_symlink_failure` | violation of `PointersValid` | |
| `bonding_overtaken_commit` | violation of `UpOnlyFromBack` | |
| `bonding_lock_leak` | violation of `HandlersFinish` | |
| `handover_reordering` | violation of `InOrder` | |

`DeviceSettings` and `NetDevices` share no state and are checked in one run; `part` in `MCKernel` says
which of the two a behaviour is about.

### Bounds

* Bonding and ARP: two devices. The client has two interfaces, and with two slaves every search has a
  winner, a loser and a start that is neither. Delays of 0 and 1 monitor periods distinguish "at once",
  "being counted" and "counted". `Old` bounds the ages at 4 (active-backup) or 2 intervals, one more
  than the largest the code compares with. A bond with an ARP monitor that has been closed is not
  opened again, and `Closable` says whether it is closed at all (in `bonding_trunk` it is). `Downable`
  says whose interface the administrator takes down.
* `Punctual`: the work runs in the interval in which it is due. The active-backup run assumes it, the
  trunk run does not. In both, handlers run between the inspection and the commit of a monitor that
  waits for rtnl (`RtnlOvertake`) and in every gap of the locks.
* A bond with an ARP monitor has no primary slave, which `ArpAssumption` says, so that the test of
  `arp_interval` for one at `27/bond_main.c:1102` is left out, and nobody issues the ioctls MAKE, BREAK,
  TEST and GETACTIVE on it (`HoolockIoctls`): they are for the hoolock mode, which
  `bonding_hoolock` checks under the MII monitor.
* Settings: three devices, because unwinding has a first, a middle and a last; one VLAN; two MTUs;
  two users of the receive mode of the bond (`UserMax`), so that the second one changes nothing; one
  of the devices is VLAN challenged.
* Devices: two drivers' devices, one of them not Ethernet, and the bond; two threads; two processors.
  `Talker` receives packets and `Irq` is interrupted for them and may go offline. `MaxBacklog` is 0,
  which lets one packet wait, as `netif_rx` compares with `<=`. A device lives once and a processor
  that goes offline stays so. `DestroyedWith`, the end of a bond within that of its last slave, is one
  step, although `rollback_registered` sleeps in `synchronize_net` meanwhile: rtnl is held all along.
* Handover: six packets are enough for one on each path and in the buffer in each of two handovers; the
  number of handovers is not bounded. With four clients and failures one packet is enough, as the
  properties are about the programs; their number, one after the other, is not bounded. `Backlog` = 1 lets
  one connection wait behind another (5 in the code). The messages between client and controller need no
  bound: one is outstanding at a time.

`kernel_devices`, `handover_lossless` and `handover_failures` are checked without deadlock detection:
all devices may be gone for good, and the user can quit.

### Fairness

In `Bonding`, `Bonding24` and `ArpMonitor` the handlers that have begun and the monitors are weakly
fair: they are code that runs once it is scheduled. The monitor's acquisition of rtnl is strongly
fair, because rtnl is a mutex with a FIFO of waiters and every handler releases it. No administrator,
no device and no ioctl is fair. In `ArpMonitor` time passes and a target that can be reached answers;
paths need not recover.

In `NetDevices` a thread goes on with what it has begun (`Continue`) and the softirq of a processor
runs; the acquisitions of `net_todo_run_mutex` (`RunTodo24`) and of rtnl by the rebroadcast are
strongly fair, for the same reason as above. No driver and no administrator is fair.

In `Handover` and `Clients` the programs, the plumber, the controller, the output handler and the
network are weakly fair; the user need not press a key, the sender need not send, nothing need fail.
`BreakReq` waits for the flow to be rerouted only if `SleepSuffices`, and `NoxBreakAck` for the old
path to be empty only if `FlushSuffices`: these two constants are the timing assumptions of the code,
and the failure run drops both.

### What the violations say

* `handover_reordering`. `bond_hoolock_recv` (`27/bond_main.c:2349`) compares a `net_device` with a
  `struct slave`, so nothing is ever buffered and a packet on a faster new path overtakes one on the
  old path. The report promises the opposite (`doc/report/impl.tex:19`). With the comparison the
  report describes (`d = active`) TLC finds `InOrder` satisfied in the same model, with four packets.
* `bonding_xmit_null`. A bond with slaves has no active slave between two sections of `bond_enslave`
  and of `bond_release`; `bond_xmit_hoolock` dereferences it.
* `bonding_symlink_failure`. `bond_enslave` frees the new slave on its last error path without taking
  it off the list.
* `bonding_overtaken_commit`. The commit takes the zero in a fresh slave's `new_link` for "up".
* `bonding_lock_leak`. GETACTIVE without an active slave returns with both locks held.

### What the model also shows, without a run of its own

Each of these either follows from a model with one constant changed, or is a condition a property had
to be given; the constant or condition is named.

The driver of 2.6.27:

* A monitor that waits for rtnl while `bond_close` runs re-arms itself on the closed bond; the next
  instance stops (`ClosedMonitorStops`).
* TEST for a device that is not enslaved makes the first slave active (`SlaveByDev`;
  the comment at `27/bonding.h:231` says it returns NULL for a device that is not a slave).
* An active-backup bond whose slaves were all administratively down at a failover can stay without an
  active slave although one is up again: bringing the interface up selects nothing while its link is
  still UP.
* MAKE declares a slave up early and leaves the bond's carrier off; releasing the last slave that is
  up, if it is a backup, leaves it on. Hence `CarrierUpWithSlaves` is claimed for the trunk modes, and
  only in one direction. With `DownDelay` > 0 a slave that recovers in time does not set a carrier
  that an enslave has computed meanwhile.
* With a positive `updelay`, or a monitor that has been overtaken, the commit in active-backup mode
  sets the state of an active slave that was declared up early back to BACKUP. Hence
  `StateFollowsActive` is claimed for `updelay` 0 and no overtaking.

Its ARP monitors:

* `bond_ab_arp_probe` (`27/bond_main.c:3205-3245`) gives `curr_slave_lock` back between seeing that
  there is no active slave and searching for one. A slave that a handler selects in between is set down
  and inactive, and nobody notices. `Deposed` names these states, and the properties state the
  exception: `ActiveReceives` says that only a search can bring them about (a search that is not
  overtaken has no active slave to depose), `ActiveIsFound` and `SilentDropped` hold unless the slave
  stays deposed for good. Without the exception TLC finds both violated.
* `bond_loadbalance_arp_mon` has the same gap between reading `oldcurrent` and using it: a slave that
  is selected in between and found silent stays the active one. `LbActiveUp` excepts this pass.
* A commit that runs late (`Punctual` = FALSE) can set a slave up that was never made active.
* The state the code reports as "PROBE: c_arp && cas BAD" is reached by enslaving during a search.
* With an ARP monitor and an `updelay` the link of a trunk bond's first slave starts as BACK in either
  kernel (`27/bond_main.c:1640`), and `bond_enslave` leaves the carrier off. The monitor later sets the
  slave up without setting the carrier, as the slave is the active one already: the carrier stays off
  over a slave that is up (`UpDelay` = 1 in `MCBondingTrunk.cfg`), although the driver warns that
  `updelay` has "no effect unless miimon is set" (`27/bond_main.c:5098-5107`, `24/bond_main.c:4996`).
  Hence `UpDelay` = 0 in `bonding_trunk`.
* A slave of a trunk bond that recovers while it is administratively down leaves the bond with neither
  carrier nor active slave, and nothing selects one when it comes up; hence `Downable` = {} in
  `bonding_trunk`.
* Hoolock mode is served by the load-balancing monitor, as `bond_open` tests for active-backup only.
* The stamps are compared with signed differences: a device that has been silent for 2^31 jiffies
  looks as if it had just received something. The ages do not show this.

The driver of 2.6.24:

* If `dev_open` of a new slave fails, `bond_enslave` leaves its master set; releasing it later detaches
  and frees the first slave of the list in its place (`ReleaseStray24`).
* The ARP monitors take rtnl while they hold `bond->lock` for reading; a handler that holds rtnl and
  wants the lock for writing never gets it (`Deadly24`, after which nobody moves, `Locked24`).
* If a failover selects the slave that is active already, the monitor does not set the carrier; hence
  the premise of `PortCarrier`. The first pass of `bond_mii_monitor` decrements delays that the second
  decrements again.
* Hoolock mode is missing from `USES_PRIMARY`, so that a primary slave has no effect.

Settings:

* `bond_for_each_slave_from_to` (`27/bonding.h:107-110`, the same in 24) ends at `stop->next`. When
  the *last* of several slaves refuses an address or an MTU that is where the loop begins, and nothing
  is unwound, though the comment says "unwind from head to the slave that failed" (`Stranded`).
* A receive mode changed while the bond is down is pushed twice to a slave enslaved in between, which
  stays promiscuous. `bond_release_all` gives addresses back only without `fail_over_mac`, so that
  devices keep what "follow" has swapped.
* When `bond_enslave` fails at the symlinks (`EnslaveFails`), `err_close` takes the address and the
  features back, but neither the promiscuity, allmulti and multicast it has pushed
  (`27/bond_main.c:1558-1577`) nor the VLAN filter (1588), nor an active role the slave may have got.
* In these four cases `lost` becomes true and the properties make no claim.
* MTUs are neither set at enslave nor given back at release; hence `MtuUndone` allows a slave the MTU
  it came with.

Devices:

* In 2.6.27 a packet does not hold its device. `flush_backlog` may interrupt a processor that is
  receiving a packet of it, which then outlives the device, and it does not see the queue of a
  processor that has gone offline. In 2.6.24 `dev_cpu_callback` hands the packets of such a processor
  to `netif_rx`, which holds the device once more: the reference is never put, the unregistration waits
  for ever, and by `net_todo_run_mutex` every other one with it. `strays` are these devices; the
  properties except them.
* `bond_create` gives rtnl back before it makes the sysfs entry. If that fails, 2.6.24 frees a
  registered device and hits the BUG_ON of `free_netdev` with rtnl held (`NoBugOn` excepts it). In
  2.6.27 `bond_create` then unregisters the bond, and if another thread has destroyed it meanwhile, the
  BUG_ON of `rollback_registered` is hit (the other exception of `NoBugOn`).
* If a new slave cannot be opened, 2.6.24 goes to `err_restore_mac` (`24/bond_main.c:1433-1438`), past
  the `netdev_set_master` that would give back the reference to the bond, whose unregistration then
  waits for ever (`OpenFails24`; the bond is one of the `strays`).
* `bond_setup_by_slave` is never undone: an Ethernet slave of a bond that once had an Infiniband slave
  takes the bond with it when it is unregistered as the last one (`byslave`).

Clients:

* `client.cc` does not ping after MAKE. If nothing else goes uplink the controller does not reroute the
  flow and the break loses it (the quiet client is in `handover_failures` only).
* A client that ends because GETPASSIVE fails leaves its iperf server and the connection of the output
  handler behind (`Orphan`); a client whose controller has died spins in its read loop.
* The hard handover needs `eth0` to be the active slave, as both dpipes attach to `mobile0SW`
  (`HardDev`).
* A hard client takes the interface of the active slave for the access point it begins with. If the
  last one has ended over the other access point, that dpipe still runs, and the new client's first
  make connects a second one (`src/plumb.c:80` and 96 look at one pid each). `alone` says that no such
  client has begun; `OneAssociation` is claimed as long as it is true.

## Proofs

The proofs hold for any set of devices and any bounds. They rest on the ASSUMEs of the modules, which say
that the constants are of their type, that NULL is not a device, that the bond's other address is no
device's own, that the slave list of the handover is not empty and has no duplicates, that there are
finitely many processors, that the plumber knows exactly two interfaces (`ServedAssumption`), to which the
slaves of a hard client belong (`HardAssumption`), and that a bond with an ARP monitor has neither a
primary slave nor the hoolock ioctls (`ArpAssumption`). Anything more is written as the hypothesis of a
theorem and explained here.

### The slave list

`SlaveListProofs` supplies what attaching, detaching and the searches do to the members of a list: a
turn around it visits every slave (`TurnVisits`), and a search that finds nothing has nothing to find
(`FirstHit`).

### The driver of 2.6.27 with the MII monitor

`BondingProofs`, for any delays, all three modes, and a monitor that may be overtaken except where the
contrary is said.

* `TypeCorrect`: `Spec => []TypeOK`.
* `PointersSafe`: `Spec => []PointersValid`, assuming the symlinks can be made (the violation above
  shows the assumption is needed). `PointersValid` is not inductive: a handler half-way through
  relies on what it did before. `PointersInv` adds `HandlersInv`: a slave being added is on the list,
  a slave being removed is not and is the only device that may have the bond for master while off the
  list, a committing monitor holds rtnl, and during free-all there is no active and no primary slave.
  One lemma per action.
* `FailoverCaused`: `Spec => FailoverOnlyForCause`, from the same invariant and a lemma about where
  the search starts: an active slave that is up and is not competing with the primary wins it.
* `LinksComeBack`: `Spec => UpOnlyFromBack`, assuming nobody overtakes a waiting monitor
  (`bonding_overtaken_commit` is the counterexample without). `ProposalsInv` says that the proposals
  the commit has not reached yet (`Pending`) are about links as they still are, also of a slave that
  was enslaved while the monitor waited.
* `StatesFollow`: `Spec => []StateFollowsActive` under `StateAssumption`: in active-backup mode no
  `updelay`, no overtaking and no hoolock ioctls. Each is needed: with an `updelay` a slave selected
  early is set back to BACKUP by the commit, an overtaken commit applies an old proposal to the active
  slave, and MAKE activates a slave whose link need not be up. In the other modes it holds without.
  `StateInv` adds that the link of an active-backup bond's active slave is up or failing, so that the
  commit has no reason to touch its state.

### Both ports and both monitors

`PortProofs` is about the step relation of either kernel with either monitor, for any number of
devices.

* `PortPointers`: `PortSpec => []PointersValid`, assuming that neither symlinks nor, in 2.6.24,
  `dev_open` fail. `PointersInv24` is `PointersInv` with the handlers of 2.6.24, where a failed
  `dev_open` leaves a device with a master it is no slave of.
* `PortTypes`, `PortFailovers`: `TypeOK` under the MII monitor, `FailoverOnlyForCause` under either.
* `PortLinksComeBack`: in 2.6.27 again without overtaking. 2.6.24 inspects again when it has got rtnl,
  so that overtaking does no harm there; but one commit may mark a slave BACK and select it early, so
  the theorem assumes `UpDelay` = 0 for it.
* `PortStatesFollow`: `StateFollowsActive` with the assumptions of `StatesFollow`; for 2.6.24 even
  with overtaking, for the same reason.
* `ArpSearchListed`, `PortSearchListed`: `[]SearchListed`. A release gives up the search together with
  the slave. `SearchInv` adds why no slave becomes active between two sections of `bond_release_all`,
  which would free it: `kill_timers` is set and no load-balancing pass is under way.
* `ArpActiveReceives`: `ArpSpec => ActiveReceives` in active-backup mode, with handlers in every gap of
  the locks and before every commit: no step but the second half of a search makes the active slave one
  that is inactive or not up.
* `PortLbActiveUp`: `PortSpec => LbActiveUp` in the other modes: no step leaves the active slave down but
  a pass that has read another one. Both use `ArpInv`: the slave being added in active-backup mode is
  not the active one.
* `PortCarries`: `[]PortCarrier`, from `CarrierInv`, one invariant for each monitor. The code sets the
  carrier only in some of the places where a link changes, so the invariant says who else will:
  * `CarrierMii` (2.6.27, MII): while a slave is up the carrier is on, or `bond_enslave`, the caller of
    a notified change or the commit has yet to set it. A link that has failed may recover without
    anybody setting the carrier, so it must not fail without taking the carrier with it: without a
    `downdelay` it fails together with the proposal to set it down, and no failed link is left when the
    commit ends (it goes through the list, and `pos` says how far).
  * `CarrierMii24` (2.6.24, MII): the same for slaves that have a master, while the monitor is at rest.
    Freed slaves that are left on the list are up, not running, and never found by the search, so that
    the monitor does not set the carrier for them: they are the exception in `PortCarrier`.
  * `CarrierLb` (ARP): the carrier is also on whenever there is an active slave, so that a slave that
    comes up next to it needs nothing; 2.6.24 excepts the time between judging and selecting.

  That a selection finds a slave that is up if there is one (`BestSlaveFound`) is what lets the monitor
  leave the carrier alone when it selects the slave it had.

  Assumed are: no hoolock ioctls, which activate a slave without setting the carrier; in 2.6.27 under
  MII no `downdelay`; for the ARP monitors and 2.6.24 a mode without notification in which nobody sets
  slaves down by hand, and for the ARP monitors no `updelay` (with one it is false, see "What the model
  also shows"). What a handler does to the active slave during a load-balancing pass does no harm:
  `RoleLb` says that in 2.6.24 the active slave is the one the pass has read, and that in 2.6.27 nobody
  takes the role away without a successor.
  `bonding_trunk` is an instance.

### Settings

`SettingsProofs` is about both kernels, all modes and settings, and any number of users, MTUs and
challenged devices.

* `SharesAreExact`, `AddressesAgree`, `AddressesReturned`, `MtuIsUndone`, `VlansAreFollowed`:
  `SettingsSpec` implies that `SharesExact`, `MacsAgree`, `OwnMacBack`, `MtuUndone` and `VlansFollow`
  hold always. All follow from `SettingsInvariant`: `SettingsSpec => []SettingsInv`.
* `SettingsInv` strengthens each property by what its actions rely on. `SharesInv` adds that the copy
  the bond has pushed is what it should push (`shown` exactly if there are users), without which a
  push could not be told from a second one. `MacsInv` adds that `perm_hwaddr` of a slave is the
  device's own address, which is what makes a release give the right one back after any number of
  swaps, and that with `fail_over_mac=active` no device address ever changes. `ListInv` says that the
  active slave is on the list, and `ParamInv` which parameters go together.
* First both kernels' next-state relations are reduced to one without the kernel (`NextIsStep`), as they
  differ in the operators below the actions only; then there is a lemma per setting, with a step per
  action. `FailOverMacIs` is `bond_do_fail_over_mac` of both kernels in one
  formula.

### Devices

`NetDevicesProofs` is about both kernels, with any number of devices, threads, processors and queued
packets; `NetDevicesLemmas` has the facts about its operators (what a flush leaves of a queue, how many
references a device has after each kind of step).

* `NetInvariant`: `NetSpec => []NetInv`, and from it `References` (`RefsExact`), `Freeing`
  (`NoDangling`), `BetweenHolders` (`SlavesListed`) and `BugOns` (`NoBugOn`).
* The parts of `NetInv`: `LocksInv` (who holds rtnl and `net_todo_run_mutex` is where `pc` says),
  `ListsInv` (a device that is unregistered is in one place: with its thread, on `net_todo_list` or on
  the list of one thread, once), `AskedInv` (what a driver has asked to end and will free is on its way,
  and on no list of another thread that could keep it longer than the driver waits), `SlavesInv`
  (whoever unregisters the bond or a slave has yet to tell the bond), `RefsExact`, `LeftInv` (a device
  that is past its list is held by nobody), `FlushedInv` (in 2.6.27 a device that has been flushed has
  no packets) and `NoBugOn`. `NoDangling` follows from the last four.
* They assume nothing of the threads that enslave to or destroy a bond while it is being made;
  `NoBugOn` names the two BUG_ONs that are hit.
* `Polling`: `NetSpec => []BacklogPolled`.
* What a flush leaves of a queue is stated by positions (`Without`), as `SelectSeq` is recursive and out
  of the prover's reach; `FlushAssumption` in `MCKernel` has TLC compare the two.

### The protocol

`HandoverProofs` holds for any list of slaves and any number of packets and handovers.

* `HandoverTypes` and `Quiet`: `[]TypeOK` and `[]QuietBetween`, without any timing assumption and
  whatever fails, from `ProgramInvariant`, which says at each blocking call of the client what it has
  asked of whom, and so which answers can be under way.
* `Lossless`: `Spec => []NothingLost`, assuming `Reliable`: the two timing assumptions, no failing pipe
  and no failing link, and that the plumber knows all the slaves. The controller may die. The inductive
  invariant `LosslessInv` says that a path in use ends in a connected pipe (`PipesInv`), that the
  plumber's command is the one the client is waiting for and a break is for `act` (`RequestInv`), that
  `act` and `pas` are the driver's two roles, exchanged by MAKE (`RolesInv`), that messages are only where
  the client waits for them (`MessagesInv`), and that once BREAK_REQ is acknowledged the flow has left
  `act` and its path is empty (`RouteInv`). The last two are what makes the break harmless.
* `ActivePipe`: `Spec => []ActivePlumbed`, from the same invariant (`PlumbedInv`: the slave a make names
  has a dpipe once it is answered).
* `ReceivedOnce`: a packet that has been received is on no path and in no buffer and is received once
  (`PacketsInv`), whatever fails.
* `ImplementsChannel`: under `Reliable` every behaviour is one of `LosslessChannel` without its
  fairness: initial states map to initial states, and every step to a send, a receipt or a stutter. It
  needs both invariants: a packet that leaves a path is received (`LosslessInv`) and was not before
  (`PacketsInv`).

`ClientsProofs` is about the four programs together.

* `ClientsInvariant`, `ClientsTypes`, `ClientsQuiet`: the same for whichever program runs.
* `HardAssociation`: `ClientsSpec => []OneAssociation`, for any number of clients one after the other,
  with dpipes that die, as long as none begins where the other access point is still connected.
  `AloneInv` says at each call of `hard_client.cc` which dpipes the plumber has forked, before and after
  it has answered.

### Only model-checked

The liveness properties (`LinkFollowsCarrier`, `DeadSlaveNotKept`, `HandlersFinish`,
`ClosedMonitorStops`, `ActiveIsFound`, `SilentDropped`, `UnregisterEnds`, `HandoverEnds`, `OutputEnds`)
and the fairness part of `ChannelSpec`, which are beyond the prover; and the type invariant of
`ArpMonitor`'s own variables, which no run states either.

## Abstractions

* Reports (printk), statistics and gratuitous ARPs change nothing the properties see and are left out
  of the actions that make them.
* `use_carrier` = 1. The 802.3ad, ALB and TLB modes share the trunk mode's handling of list, carrier
  and links; their own state is in files the repository does not contain.
* `arp_validate` is "none" or "all"; a bond with an ARP monitor has an IP address; the carrier of its
  devices stays on.
* An error of `bond_enslave` before anything is pushed or attached takes back what was done and is no
  step in `Bonding` and `DeviceSettings`. Of the others, those at the symlinks are `EnslaveFails` in both
  and `EnslaveFails24` in `Bonding24`; a `dev_open` that fails is in `Bonding24` and `NetDevices`. A push
  fails only if a count is at its maximum, which none is.
* In `DeviceSettings` an enslave may leave any slave active in active-backup mode, as
  `bond_select_active_slave` runs there in both kernels; in the other modes it keeps an active slave.
* A device whose freed slave structure is still listed is not enslaved again: what the kernel does
  with it from there is undefined.
* The receive mode stands for promiscuity, allmulti and one multicast address, which are counted
  alike; no count reaches its maximum. Devices can set their address. A softirq that joins a multicast
  group while `bond_mc_swap` runs (`27/bond_main.c:975`) is not modelled.
* In `NetDevices` a driver frees a device after its unregistration has ended; a processor's backlog is
  polled only while it is online.
* In `Handover` the links of the two slaves are up, except that the monitor may move the active role
  (`LinksMayFail`). `handover_lossless` excludes that, so that an active role that moves between GETACTIVE
  and MAKE, and makes client and plumber wrong about the roles, is only in `handover_failures`, where
  nothing is claimed about packets. The dpipes are those of the soft handover (`is_hard` = 0; the hard one
  in `Clients`) without artificial loss (`is_lossy` = 0). A read or write that meets a dead controller
  leaves the client where it is.
* The sender, the network and the controller are external: their actions do what the clients and the
  report need of them.

## Not modelled

* The transmit policies except hoolock's: they pick a slave under the locks of the driver and change
  no state but the round-robin cursor.
* The reference counts of a packet on the receive path, and the lock order of `pbuff.lock` against
  `bond->lock`: BREAK calls `netif_receive_skb` with all three locks held
  (`27/bond_main.c:2297`), which would matter if anything were ever buffered.
* `bond_check_params` and the sysfs, proc, ethtool and statistics code: tables and views.
* The rest of `dev.c` of both kernels (transmit queues, NAPI drivers, checksums and segmentation,
  namespaces, proc files), which is stock Linux that hoolock does not touch.
* The active-backup ARP monitor of 2.6.24.
* A bond with a single slave under a handover: no run has one, so that GETPASSIVE never fails in a run and
  `Orphan` is not taken. What it leaves, an iperf server without a client, ends only when it is killed.
* The NOX controller, which is an archive in the repository; test programs, patch and report.

## Plan

Every invariant and action property of the passing runs is now stated by a theorem, some under
hypotheses. What is left:

1. The hypotheses of `PortCarries`: the active-backup mode of 2.6.24 and of the ARP monitors, where the
   carrier waits for the end of a notification, and slaves set down by hand, which the search passes over.
2. A type invariant for `ArpMonitor`'s own variables.
3. If the model is to grow: the receive path with its locks (`RxPath`), the active-backup ARP monitor
   of 2.6.24, the transmit policies.
