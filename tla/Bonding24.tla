------------------------------ MODULE Bonding24 ------------------------------
(***************************************************************************)
(* The bonding driver of Linux 2.6.24 with the hoolock mode                *)
(* (24/bond_main.c, 24/bonding.h): the other port the repository keeps.    *)
(* The operators of Bonding and ArpMonitor that mean the same here are     *)
(* used again under a name of their own.  What is different:               *)
(*                                                                         *)
(*  - bond_change_active_slave keeps its locks, so nothing has a gap;      *)
(*  - bond_enslave is one section, and its error paths undo less;          *)
(*  - the MII monitor goes through the slaves twice, first without rtnl    *)
(*    and up to the first change only, and has no new_link;                *)
(*  - TEST is MAKE without the buffer mode;                                *)
(*  - hoolock mode does not use a primary slave;                           *)
(*  - the ARP monitor waits for rtnl while it holds bond->lock.            *)
(*                                                                         *)
(* The variable kernel says which port runs; it never changes.             *)
(***************************************************************************)
EXTENDS ArpMonitor

CONSTANT Kernels   \* the ports to choose from

ASSUME KernelsAssumption == Kernels \subseteq {"2.6.24", "2.6.27"}

VARIABLE kernel

pvars == <<avars, kernel>>

UsesPrimary24 == Mode = "activebackup"

-------------------------------------------------------------------------------
(***************************************************************************)
(* The active slave and the carrier.                                       *)
(***************************************************************************)
SlaveByDev24(list, d) == SlaveByDev(list, d)
Attach24(list, s)     == Attach(list, s)
Detach24(list, s)     == Detach(list, s)
CarrierOf24(list, lnk) == CarrierOf(list, lnk)
BestSlave24(list, prim, lnk, dly) == BestSlave(list, prim, lnk, dly)

ChangeActive24(new, lnk, dly, st) == ChangeActive(new, lnk, dly, st, "none")

SelectActive24(lnk, dly, st) ==
  LET best == BestSlave24(slaves, primary, lnk, dly)
  IN  /\ ChangeActive24(best, lnk, dly, st)
      /\ bondCarrier' = IF best # active THEN CarrierOf24(slaves, link') ELSE bondCarrier

-------------------------------------------------------------------------------
(***************************************************************************)
(* bond_enslave.  The device gets its master and is opened first; from the *)
(* attachment to bond_set_carrier bond->lock is held for writing.          *)
(***************************************************************************)
EnslaveOpen24(d) ==
  /\ WriterFree /\ ~master[d] /\ ~running[d]
  /\ d \notin ToSet(slaves)             \* bound: a freed slave left on the list is not enslaved again
  /\ master' = [master EXCEPT ![d] = TRUE]
  /\ \/ /\ running' = [running EXCEPT ![d] = TRUE]
        /\ op' = Doing("enslave", d)
     \/ /\ SymlinkMayFail                \* dev_open fails: the device keeps its master
        /\ UNCHANGED <<running, op>>
  /\ UNCHANGED <<carrier, slaveVars, bondVars, adminVars, monVars, oops>>

Primary24(d) == IF UsesPrimary24 /\ Primary = d THEN d ELSE primary

EnslaveSetup24 ==
  LET d    == op.dev
      list == Attach24(slaves, d)
      lnk  == [link EXCEPT ![d] = InitialLink(d)]
      dly  == [delay EXCEPT ![d] = IF carrier[d] THEN UpDelay ELSE 0]
      st   == [state EXCEPT ![d] = NewSlaveState]
      Adopted == IF active = NoSlave THEN d ELSE active
  IN  /\ op.kind = "enslave"
      /\ slaves' = list /\ primary' = Primary24(d)
      /\ \/ /\ Mode = "activebackup"
            /\ ChangeActive24(BestSlave24(list, primary', lnk, dly), lnk, dly, st)
         \/ /\ Mode = "hoolock"
            /\ ChangeActive24(Adopted, lnk, dly, st)
         \/ /\ Mode = "trunk"
            /\ active' = Adopted /\ link' = lnk /\ delay' = dly /\ state' = st /\ gap' = "none"
      /\ bondCarrier' = CarrierOf24(list, link')
      /\ op' = Doing("symlinks", d)
      /\ UNCHANGED <<devVars, newLink, adminVars, monVars, oops>>

(* The symlinks, or err_unset_master: the slave stays on the list.         *)
EnslaveDone24  == EnslaveDone
EnslaveFails24 == EnslaveFails

-------------------------------------------------------------------------------
(***************************************************************************)
(* bond_release and bond_release_all.                                      *)
(***************************************************************************)
ReleaseDetach24(d) == d \in ToSet(slaves) /\ ReleaseDetach(d)

(* A device that has kept its master without being a slave: the search     *)
(* returns the first slave, which is detached and freed in its place.      *)
ReleaseStray24(d) ==
  LET s == SlaveByDev24(slaves, d)
  IN  /\ WriterFree /\ master[d] /\ d \notin ToSet(slaves) /\ s # NoSlave
      /\ slaves'  = Detach24(slaves, s)
      /\ primary' = IF primary = s THEN NoSlave ELSE primary
      /\ ChangeActive24(IF active = s THEN NoSlave ELSE active, link, delay, state)
      /\ bondCarrier' = IF active # s /\ slaves' = <<>> THEN FALSE ELSE bondCarrier
      /\ op' = Doing(IF active = s THEN "reselect" ELSE "release", d)
      /\ UNCHANGED <<devVars, newLink, adminVars, monVars, oops>>

ReleaseReselect24 ==
  /\ op.kind = "reselect"
  /\ IF HasSlaves
       THEN SelectActive24(link, delay, state)
       ELSE bondCarrier' = FALSE /\ UNCHANGED <<active, gap, link, delay, state>>
  /\ op' = Doing("release", op.dev)
  /\ UNCHANGED <<devVars, newLink, slaves, primary, adminVars, monVars, oops>>

Discard24(d)    == Discard(d)
ReleaseFinish24 == ReleaseFinish
FreeAllBegin24  == FreeAllBegin
FreeAllNext24   == FreeAllNext

-------------------------------------------------------------------------------
(***************************************************************************)
(* bond_open, bond_close and the ioctls.                                   *)
(***************************************************************************)
Open24  == Open
Close24 == Close

IoctlChangeActive24(d) == UsesPrimary24 /\ d \in ToSet(slaves) /\ IoctlChangeActive(d) /\ gap' = "none"

SwitchOver24 ==
  LET new == Passive(slaves, active)
  IN  ChangeActive24(IF new = NoSlave THEN active ELSE new, link, delay, state)

IoctlHoolockTest24 ==
  /\ WriterFree /\ HoolockIoctls
  /\ SwitchOver24
  /\ UNCHANGED <<devVars, newLink, slaves, primary, bondCarrier, adminVars, monVars, op, oops>>

IoctlMake24 ==
  /\ WriterFree /\ HoolockIoctls
  /\ SwitchOver24
  /\ bufferMode' = TRUE
  /\ UNCHANGED <<devVars, newLink, slaves, primary, bondCarrier, bondUp, killTimers, leaked, monVars, op, oops>>

IoctlBreak24     == IoctlBreak
IoctlGetActive24 == IoctlGetActive
Spin24           == Spin
XmitHoolock24    == XmitHoolock

-------------------------------------------------------------------------------
(***************************************************************************)
(* bond_mii_monitor, which calls __bond_mii_monitor twice.  The switch is  *)
(* that of the inspection of Bonding; new says what only the second call,  *)
(* which has the locks, may do.                                            *)
(***************************************************************************)
Unattended24(s) == link[s] = "UP" /\ carrier[s] /\ active = NoSlave

Change24(s) == Inspected(s).new # "NOCHANGE" \/ Unattended24(s)

(* The first call returns at the first slave that needs rtnl, and the      *)
(* slaves after it wait for the second one.                                *)
Visited24 == {slaves[k] : k \in {k \in DOMAIN slaves : \A j \in 1..(k-1) : ~Change24(slaves[j])}}

MiiInspect24 ==
  LET needed == \E s \in ToSet(slaves) : Change24(s)
  IN  /\ work /\ mon = "idle" /\ ~killTimers /\ op # Destroyed
      /\ link'  = [d \in Dev |-> IF d \in Visited24 THEN Inspected(d).link ELSE link[d]]
      /\ delay' = [d \in Dev |-> IF d \in Visited24 THEN Inspected(d).delay ELSE delay[d]]
      /\ mon'   = IF needed THEN "waiting" ELSE "idle"
      /\ work'  = ~needed
      /\ bondCarrier' = IF ~needed /\ HasSlaves THEN CarrierOf24(slaves, link') ELSE bondCarrier
      /\ UNCHANGED <<devVars, newLink, state, slaves, active, primary, gap, adminVars, pos, op, oops>>

MiiQuit24        == MiiQuit
MiiCommitBegin24 == MiiCommitBegin

Link24(s)  == IF Inspected(s).new = "NOCHANGE" THEN Inspected(s).link ELSE Inspected(s).new

State24(s) ==
  CASE Inspected(s).new = "UP" /\ Mode # "activebackup"                -> "ACTIVE"
    [] Inspected(s).new = "UP" /\ Mode = "activebackup" /\ s # primary -> "BACKUP"
    [] Inspected(s).new = "DOWN" /\ Mode = "activebackup"              -> "BACKUP"
    [] OTHER                                                            -> state[s]

Failover24(s) ==
  \/ Unattended24(s)
  \/ Inspected(s).new = "UP" /\ (active = NoSlave \/ s = primary)
  \/ Inspected(s).new = "DOWN" /\ s = active

MiiCommit24 ==
  LET S   == ToSet(slaves)
      lnk == [d \in Dev |-> IF d \in S THEN Link24(d) ELSE link[d]]
      dly == [d \in Dev |-> IF d \in S THEN Inspected(d).delay ELSE delay[d]]
      st  == [d \in Dev |-> IF d \in S THEN State24(d) ELSE state[d]]
  IN  /\ mon = "committing" /\ ~leaked
      /\ IF \E s \in S : Failover24(s)
           THEN SelectActive24(lnk, dly, st)
           ELSE /\ link' = lnk /\ delay' = dly /\ state' = st
                /\ bondCarrier' = IF HasSlaves THEN CarrierOf24(slaves, lnk) ELSE bondCarrier
                /\ UNCHANGED <<active, gap>>
      /\ work' = TRUE /\ mon' = "idle" /\ pos' = 0
      /\ op' = Idle
      /\ UNCHANGED <<devVars, newLink, slaves, primary, adminVars, oops>>

HandlerStep24 == \/ EnslaveSetup24 \/ EnslaveDone24 \/ EnslaveFails24
                 \/ ReleaseReselect24 \/ ReleaseFinish24 \/ FreeAllNext24
MonitorStep24 == MiiInspect24 \/ MiiQuit24 \/ MiiCommit24
AdminStep24(d) == \/ EnslaveOpen24(d) \/ ReleaseDetach24(d) \/ ReleaseStray24(d)
                  \/ (d \in Downable /\ SlaveUpDown(d)) \/ IoctlChangeActive24(d)
AdminBond24 == \/ FreeAllBegin24 \/ Open24 \/ Close24 \/ IoctlHoolockTest24
               \/ IoctlMake24 \/ IoctlBreak24 \/ IoctlGetActive24 \/ Spin24

MiiNext24 ==
  \/ ~oops /\ (HandlerStep24 \/ MonitorStep24 \/ MiiCommitBegin24 \/ AdminBond24 \/ XmitHoolock24)
  \/ ~oops /\ \E d \in Dev : AdminStep24(d) \/ CarrierChange(d)
  \/ Stopped

-------------------------------------------------------------------------------
(***************************************************************************)
(* bond_loadbalance_arp_mon.  It judges the slaves as the 2.6.27 monitor   *)
(* does, but when it has to select another active slave it waits for rtnl  *)
(* (mon is "rtnl") and keeps bond->lock, which it holds for reading.  The  *)
(* bond has an address (bond_has_ip).                                      *)
(***************************************************************************)
ArpQuit24 == ArpQuit
LbBegin24 == LbBegin

LbJudge24 ==
  LET S == ToSet(slaves)
  IN  /\ Mode # "activebackup" /\ mon = "searching"
      /\ link'  = [d \in Dev |-> IF d \in S /\ Recovered(d) THEN "UP"
                                ELSE IF d \in S /\ Silent(d) THEN "DOWN" ELSE link[d]]
      /\ state' = [d \in Dev |-> IF d \in S /\ Recovered(d) THEN "ACTIVE"
                                ELSE IF d \in S /\ Silent(d) THEN "BACKUP" ELSE state[d]]
      /\ SendProbes(S)
      /\ IF LbFailover THEN mon' = "rtnl" /\ UNCHANGED <<work, due>> ELSE Rearm
      /\ seen' = NoSlave
      /\ UNCHANGED <<devVars, newLink, delay, bondVars, adminVars, pos, op, oops, monitor, reach, rx, since, cur>>

LbSelect24 ==
  /\ mon = "rtnl" /\ op = Idle
  /\ SelectActive24(link, delay, state)
  /\ Rearm
  /\ UNCHANGED <<devVars, newLink, slaves, primary, adminVars, pos, op, oops,
                 monitor, reach, ageVars, cur, seen, probes>>

(* The handlers that take bond->lock for writing, and those that do not.   *)
Writer24 == \/ FreeAllBegin24 \/ FreeAllNext24 \/ Close24 \/ EnslaveSetup24 \/ ReleaseReselect24
            \/ \E d \in Dev : ReleaseDetach24(d) \/ ReleaseStray24(d)
Reader24 == \/ EnslaveDone24 \/ EnslaveFails24 \/ ReleaseFinish24
            \/ (Open24 /\ ~killTimers)   \* bound: a bond that is closed is not opened again
            \/ \E d \in Dev : EnslaveOpen24(d) \/ IoctlChangeActive24(d)

ArpHandler24 ==
  /\ \/ Writer24 /\ mon \notin {"searching", "rtnl"}
     \/ Reader24
  /\ ArpFields

(* A handler that holds rtnl wants bond->lock while the monitor that holds *)
(* it wants rtnl: neither goes on, and nobody else gets rtnl.              *)
Deadly24 ==
  /\ mon = "rtnl" /\ op.kind \in {"none", "enslave", "reselect", "freeall"}
  /\ op' = Spinning
  /\ UNCHANGED <<devVars, slaveVars, bondVars, adminVars, monVars, oops, arpVars>>

Locked24 == mon = "rtnl" /\ op = Spinning /\ UNCHANGED avars

ArpMonitorStep24 == ArpQuit24 \/ LbBegin24 \/ LbJudge24 \/ LbSelect24

ArpNext24 ==
  \/ ArpHandler24 \/ ArpMonitorStep24 \/ Deadly24 \/ Tick
  \/ \E d \in Dev : ProbeAnswered(d) \/ ProbeHeard(d)
  \/ (Stopped /\ UNCHANGED arpVars) \/ Locked24

-------------------------------------------------------------------------------
PortInit == ArpInit /\ kernel \in Kernels

PortNext ==
  /\ \/ kernel = "2.6.27" /\ monitor = "mii" /\ Next /\ UNCHANGED arpVars
     \/ kernel = "2.6.27" /\ monitor = "arp" /\ ArpNext
     \/ kernel = "2.6.24" /\ monitor = "mii" /\ MiiNext24 /\ UNCHANGED arpVars
     \/ kernel = "2.6.24" /\ monitor = "arp" /\ Mode # "activebackup" /\ ArpNext24
  /\ UNCHANGED kernel

PortSpec == PortInit /\ [][PortNext]_pvars

(* The same fairness in either port, for a bond with the MII monitor.      *)
PortFairness ==
  /\ WF_pvars(kernel = "2.6.27" /\ ~oops /\ HandlerStep /\ UNCHANGED <<arpVars, kernel>>)
  /\ WF_pvars(kernel = "2.6.27" /\ ~oops /\ MonitorStep /\ UNCHANGED <<arpVars, kernel>>)
  /\ WF_pvars(kernel = "2.6.24" /\ ~oops /\ HandlerStep24 /\ UNCHANGED <<arpVars, kernel>>)
  /\ WF_pvars(kernel = "2.6.24" /\ ~oops /\ MonitorStep24 /\ UNCHANGED <<arpVars, kernel>>)
  /\ SF_pvars(~oops /\ MiiCommitBegin /\ UNCHANGED <<arpVars, kernel>>)

PortFairSpec == PortSpec /\ PortFairness
-------------------------------------------------------------------------------
(***************************************************************************)
(* Properties of both ports.                                               *)
(***************************************************************************)

(* CarrierUpWithSlaves for either port.  The monitor of 2.6.24 sets the    *)
(* carrier only when it selects nobody or somebody else: a freed slave     *)
(* left on the list, up but not running, keeps it from doing so.           *)
PortCarrier == (kernel = "2.6.24" => ListedAttached) => CarrierUpWithSlaves

(* UpOnlyFromBack for either port: 2.6.24 may see the carrier and, with an *)
(* updelay of zero, declare the link up in one call.                       *)
PortUpFromBack ==
  [][\A s \in Listed : link[s] = "DOWN" /\ link'[s] = "UP" =>
       \/ op = Doing("enslave", s)
       \/ kernel = "2.6.24" /\ op = Committing /\ carrier[s] /\ UpDelay = 0]_pvars

(* The MII monitor of a bond that stays closed stops, in either port,      *)
(* although an instance that waits for rtnl while bond_close runs does not *)
(* look at kill_timers again and re-arms itself.                           *)
ClosedMonitorStops ==
  monitor = "mii" /\ <>[](~bondUp /\ op # Destroyed) => <>[](~work /\ mon = "idle")

(* The pointers of either port.  2.6.24 attaches a slave later, and may    *)
(* leave a master set.                                                     *)
HandlersInv24 ==
  /\ op.kind = "enslave"  => op.dev \notin Listed /\ master[op.dev]
  /\ op.kind = "symlinks" => op.dev \in Listed
  /\ op.kind \in Removing => op.dev \notin Listed
  /\ op.kind = "freeall"  => active = NoSlave /\ primary = NoSlave
  /\ mon = "committing"   => op = Committing /\ pos > 0
  /\ op.kind = "commit"   => mon = "committing"

PointersInv24 == PointersCore /\ HandlersInv24

PortPointersInv == IF kernel = "2.6.27" THEN PointersInv ELSE PointersInv24

PortStateInv == IF kernel = "2.6.27" THEN StateInv /\ ProposalsInv
                ELSE StateFollowsActive /\ (Mode = "activebackup" /\ active # NoSlave => link[active] \in {"UP", "FAIL"})

(* What makes PortCarrier inductive.  A slave is up only under a carrier,  *)
(* except while somebody who will set it is at work.  The MII monitor of   *)
(* 2.6.27 lets a link that has failed recover without setting the carrier; *)
(* without a downdelay such a link is about to be set down.                *)
BondEnds    == op.kind \in {"freeall", "destroyed", "spinning"}
AttachedUp  == \E s \in Listed : link[s] = "UP" /\ master[s]
AttachedRun == /\ \A s \in Listed : master[s] => running[s]
               /\ op.kind = "enslave" => running[op.dev]

CarrierMii ==
  /\ op.kind = "reselect" => gap = "none"
  /\ \A s \in Listed : link[s] = "FAIL" => mon # "idle" /\ newLink[s] = "DOWN"
  /\ mon = "committing" => \A k \in 1..Len(slaves) : link[slaves[k]] = "FAIL" => k >= pos
  /\ CarrierOf(slaves, link) => bondCarrier \/ BondEnds \/ op.kind = "enslave" \/ gap = "carrier" \/ mon = "committing"

CarrierMii24 ==
  /\ gap = "none" /\ primary = NoSlave /\ AttachedRun
  /\ AttachedUp => bondCarrier \/ BondEnds \/ op.kind = "enslave" \/ mon # "idle"

CarrierLb ==
  /\ gap = "none" /\ AttachedRun /\ (kernel = "2.6.27" => ListedAttached)
  /\ AttachedUp => bondCarrier \/ BondEnds \/ op.kind = "enslave" \/ mon = "rtnl"
  /\ active # NoSlave => bondCarrier

(* What a pass that goes by what it has read of curr_active_slave may rely *)
(* on: in 2.6.24 it is still so, for bond->lock keeps the handlers out; in *)
(* 2.6.27 nobody takes the role away without a successor.                  *)
RoleLb ==
  IF kernel = "2.6.24" THEN mon = "searching" => seen = active
  ELSE /\ mon = "searching" /\ seen # NoSlave => active # NoSlave
       /\ mon = "searching" /\ op.kind = "reselect" => seen = active
       /\ op.kind = "reselect" /\ active # NoSlave /\ mon # "rtnl" => link[active] = "UP"

CarrierInv == IF monitor = "arp" THEN CarrierLb /\ RoleLb ELSE IF kernel = "2.6.24" THEN CarrierMii24 ELSE CarrierMii
==============================================================================
