------------------------------- MODULE Bonding -------------------------------
(***************************************************************************)
(* The bonding driver of Linux 2.6.27 with the hoolock mode added to it    *)
(* (27/bond_main.c, 27/bonding.h): the list of slaves, the active slave,   *)
(* the MII link monitor and the ioctls that change them.                   *)
(*                                                                         *)
(* Grain: a step is a section of code executed under bond->lock (and       *)
(* curr_slave_lock where the code takes it).  Handlers that drop the lock  *)
(* on their way are split there.  Everything that runs under rtnl is       *)
(* serialised by the variable op, which names the handler holding rtnl;    *)
(* the transmit path and the inspection half of the monitor run without    *)
(* rtnl and interleave with the sections of those handlers.                *)
(*                                                                         *)
(* Assumed parameters: miimon > 0, use_carrier = 1 (the default) and       *)
(* arp_interval = 0.  The packets BREAK releases are in module Handover.   *)
(***************************************************************************)
EXTENDS SlaveList

CONSTANTS Mode,           \* bond->params.mode
          Primary,        \* bond->params.primary, NoSlave when unset
          UpDelay,        \* bond->params.updelay, in monitor periods
          DownDelay,      \* bond->params.downdelay
          RtnlOvertake,   \* may an administrator take rtnl before a monitor that waits for it?
          HoolockIoctls,  \* do programs issue MAKE, BREAK and TEST?  The driver accepts them in every mode
          SymlinkMayFail  \* may bond_create_slave_symlinks fail?

ASSUME ModeAssumption  == Mode \in {"activebackup", "hoolock", "trunk"}
ASSUME ParamAssumption == /\ Primary \in Dev \cup {NoSlave}
                          /\ UpDelay \in Nat /\ DownDelay \in Nat
                          /\ {RtnlOvertake, HoolockIoctls} \subseteq BOOLEAN
                          /\ SymlinkMayFail \in BOOLEAN

VARIABLES
  carrier,      \* netif_carrier_ok of each network device
  running,      \* IFF_UP and netif_running of each network device
  master,       \* IFF_SLAVE is set and dev->master is the bond
  link,         \* slave->link
  newLink,      \* slave->new_link
  delay,        \* slave->delay
  state,        \* slave->state
  slaves,       \* the list that starts at bond->first_slave
  active,       \* bond->curr_active_slave
  primary,      \* bond->primary_slave
  bondCarrier,  \* netif_carrier_ok(bond->dev)
  bondUp,       \* IFF_UP and netif_running of the bond itself
  bufferMode,   \* bond->buffer_mode
  killTimers,   \* bond->kill_timers
  work,         \* is mii_work pending?
  mon,          \* where the running instance of bond_mii_monitor is
  op,           \* the handler that holds rtnl and the slave it works on
  gap,          \* what is left to do when bond_change_active_slave has the locks again
  pos,          \* cursor of the commit loop
  leaked,       \* bond->lock and curr_slave_lock are held by an ioctl that has returned
  oops          \* a NULL pointer has been dereferenced

devVars   == <<carrier, running, master>>
slaveVars == <<link, newLink, delay, state>>
bondVars  == <<slaves, active, primary, bondCarrier, gap>>
adminVars == <<bondUp, bufferMode, killTimers, leaked>>
monVars   == <<work, mon, pos>>
vars == <<devVars, slaveVars, bondVars, adminVars, monVars, op, oops>>

Link  == {"UP", "FAIL", "DOWN", "BACK"}
State == {"ACTIVE", "BACKUP"}
Rest  == {"none", "carrier", "buffer", "end"}

Idle      == [kind |-> "none", dev |-> NoSlave]
Doing(k, d) == [kind |-> k, dev |-> d]
Adding    == {"enslave", "symlinks"}             \* handlers at work on a listed slave
Removing  == {"reselect", "release", "freeall"}  \* on a slave taken off the list
Committing == [kind |-> "commit", dev |-> NoSlave]
Destroyed == [kind |-> "destroyed", dev |-> NoSlave]
Spinning  == [kind |-> "spinning", dev |-> NoSlave]

(* slave_cnt > 0 *)
HasSlaves == slaves # <<>>

(* the macros IS_UP and BOND_IS_OK *)
IsUp(d)  == running[d] /\ carrier[d]
BondIsOk == bondUp /\ HasSlaves

(* An administrator's handler can start: rtnl is free.                     *)
RtnlFree == op = Idle /\ gap = "none" /\ (RtnlOvertake \/ mon # "waiting")

(* It also gets the locks for writing, which a leaked read lock denies.    *)
WriterFree == RtnlFree /\ ~leaked

Init ==
  /\ carrier \in [Dev -> BOOLEAN]
  /\ running = [d \in Dev |-> FALSE]
  /\ master  = [d \in Dev |-> FALSE]
  /\ link    = [d \in Dev |-> "UP"]
  /\ newLink = [d \in Dev |-> "UP"]
  /\ delay   = [d \in Dev |-> 0]
  /\ state   = [d \in Dev |-> "ACTIVE"]
  /\ slaves = <<>> /\ active = NoSlave /\ primary = NoSlave
  /\ bondCarrier = FALSE /\ bondUp = FALSE /\ bufferMode = FALSE
  /\ killTimers = FALSE /\ work = FALSE /\ mon = "idle" /\ pos = 0
  /\ op = Idle /\ gap = "none" /\ leaked = FALSE /\ oops = FALSE

-------------------------------------------------------------------------------
(***************************************************************************)
(* Choosing and changing the active slave.  The operators take the link    *)
(* fields as arguments because their callers have just written them.       *)
(***************************************************************************)

(* bond_find_best_slave: starting at the primary if it is up, else at the  *)
(* active slave, else at the first: the first slave with its link up, or   *)
(* the one whose updelay is nearest to its end.  (A bond with an           *)
(* arp_interval does not start at the primary: see ArpAssumption.)         *)
Mutant_SearchFromFirst(list, prim) == list[1]   \* forgets who is active

SearchStart(list, prim) ==
  IF prim # NoSlave /\ IsUp(prim) THEN prim
  ELSE IF active # NoSlave THEN active ELSE list[1]

BestSlave(list, prim, lnk, dly) ==
  LET turn == TurnFrom(list, SearchStart(list, prim))
      Ready(s)   == IsUp(s) /\ lnk[s] = "UP"
      Waiting(s) == IsUp(s) /\ lnk[s] = "BACK" /\ dly[s] < UpDelay
      Soonest(s) == /\ Waiting(s)
                    /\ \A t \in ToSet(turn) : Waiting(t) => dly[s] <= dly[t]
  IN  IF list = <<>> THEN NoSlave
      ELSE IF FirstSuch(turn, Ready) # NoSlave THEN FirstSuch(turn, Ready)
      ELSE FirstSuch(turn, Soonest)

(* bond_change_active_slave.  A slave still waiting for its updelay is     *)
(* declared up at once.  In active-backup mode both locks are dropped      *)
(* while the change is notified (netdev_bonding_change) and the caller     *)
(* does the rest when it has them again: gap says what.  The reports and   *)
(* the multicast lists are not modelled.                                   *)
ChangeActive(new, lnk, dly, st, rest) ==
  LET early == new # active /\ new # NoSlave /\ lnk[new] = "BACK"
  IN  /\ active' = new
      /\ gap'    = IF Mode = "activebackup" /\ new \notin {active, NoSlave} THEN rest ELSE "none"
      /\ link'   = IF early THEN [lnk EXCEPT ![new] = "UP"] ELSE lnk
      /\ delay'  = IF early THEN [dly EXCEPT ![new] = 0] ELSE dly
      /\ state'  = IF Mode = "activebackup" /\ new # active
                     THEN [d \in Dev |-> CASE d = new    -> "ACTIVE"
                                           [] d = active -> "BACKUP"
                                           [] OTHER      -> st[d]]
                     ELSE st

(* bond_set_carrier: the value it gives the carrier of the bond.           *)
Mutant_CarrierOfFirst(list, lnk) == list # <<>> /\ lnk[list[1]] = "UP"

CarrierOf(list, lnk) == \E s \in ToSet(list) : lnk[s] = "UP"

(* bond_select_active_slave.  The carrier is recomputed only on a change.  *)
SelectActive(lnk, dly, st) ==
  LET best == BestSlave(slaves, primary, lnk, dly)
  IN  /\ ChangeActive(best, lnk, dly, st, "carrier")
      /\ bondCarrier' = IF best # active /\ gap' = "none" THEN CarrierOf(slaves, link')
                                                          ELSE bondCarrier

(* The rest of the handler that has notified a change: select and enslave  *)
(* set the carrier, MAKE sets the buffer mode, the other ioctls return.    *)
AfterNotify ==
  /\ gap # "none" /\ gap' = "none"
  /\ bondCarrier' = IF gap = "carrier" THEN CarrierOf(slaves, link) ELSE bondCarrier
  /\ bufferMode'  = (gap = "buffer" \/ bufferMode)
  /\ UNCHANGED <<devVars, slaveVars, slaves, active, primary, bondUp, killTimers, leaked, monVars, op, oops>>

-------------------------------------------------------------------------------
(***************************************************************************)
(* bond_enslave, in the three sections separated by the release of         *)
(* bond->lock.  The early failures undo what they did and are stuttering   *)
(* steps here.  kzalloc has zeroed the slave: 0 is BOND_LINK_UP for link   *)
(* and for new_link, and BOND_STATE_ACTIVE for state.                      *)
(***************************************************************************)
EnslaveAttach(d) ==
  /\ WriterFree
  /\ ~master[d] /\ ~running[d]          \* -EBUSY, -EPERM otherwise
  /\ d \notin ToSet(slaves)             \* bound: a freed slave left on the list is not enslaved again
  /\ master'  = [master EXCEPT ![d] = TRUE]
  /\ running' = [running EXCEPT ![d] = TRUE]
  /\ link'    = [link EXCEPT ![d] = "UP"]
  /\ newLink' = [newLink EXCEPT ![d] = "UP"]
  /\ delay'   = [delay EXCEPT ![d] = 0]
  /\ state'   = [state EXCEPT ![d] = "ACTIVE"]
  /\ slaves'  = Attach(slaves, d)
  /\ op' = Doing("enslave", d)
  /\ UNCHANGED <<carrier, active, primary, bondCarrier, gap, adminVars, monVars, oops>>

(* The initial state of the link, by what netif_carrier_ok says.           *)
InitialLink(d) ==
  IF ~carrier[d] THEN "DOWN" ELSE IF UpDelay > 0 THEN "BACK" ELSE "UP"

Mutant_NewSlaveState == "ACTIVE"

NewSlaveState == IF Mode = "activebackup" THEN "BACKUP" ELSE "ACTIVE"

EnslaveSetup ==
  LET d   == op.dev
      lnk == [link EXCEPT ![d] = InitialLink(d)]
      dly == [delay EXCEPT ![d] = IF carrier[d] /\ UpDelay > 0 THEN UpDelay ELSE @]
      prm == IF Mode # "trunk" /\ Primary = d THEN d ELSE primary
      st  == [state EXCEPT ![d] = NewSlaveState]
      AdoptsFirst == active = NoSlave
  IN  /\ op.kind = "enslave"
      /\ primary' = prm
      /\ \/ /\ Mode = "activebackup"
            /\ ChangeActive(BestSlave(slaves, prm, lnk, dly), lnk, dly, st, "carrier")
         \/ /\ Mode = "hoolock"
            /\ ChangeActive(IF AdoptsFirst THEN d ELSE active, lnk, dly, st, "carrier")
         \/ /\ Mode = "trunk"
            /\ active' = IF AdoptsFirst THEN d ELSE active
            /\ link' = lnk /\ delay' = dly /\ state' = st /\ gap' = "none"
      /\ bondCarrier' = IF gap' = "none" THEN CarrierOf(slaves, link') ELSE bondCarrier
      /\ op' = Doing("symlinks", d)
      /\ UNCHANGED <<devVars, newLink, slaves, adminVars, monVars, oops>>

EnslaveDone ==
  /\ op.kind = "symlinks" /\ gap = "none"
  /\ op' = Idle
  /\ UNCHANGED <<devVars, slaveVars, bondVars, adminVars, monVars, oops>>

(* bond_create_slave_symlinks fails: err_close closes the device, clears   *)
(* its master and frees the slave, but leaves it on the list.              *)
EnslaveFails ==
  /\ SymlinkMayFail /\ op.kind = "symlinks" /\ gap = "none"
  /\ running' = [running EXCEPT ![op.dev] = FALSE]
  /\ master'  = [master EXCEPT ![op.dev] = FALSE]
  /\ op' = Idle
  /\ UNCHANGED <<carrier, slaveVars, bondVars, adminVars, monVars, oops>>

-------------------------------------------------------------------------------
(***************************************************************************)
(* bond_release.  The slave is taken off the list under the write lock; if *)
(* it was the active one the lock is dropped and a successor is selected   *)
(* under the read lock; the device is closed and the slave freed at last.  *)
(***************************************************************************)
Mutant_ActiveWithout(d) == active

ActiveWithout(d) == IF active = d THEN NoSlave ELSE active

ReleaseDetach(d) ==
  LET rest      == Detach(slaves, d)
      wasActive == active = d
  IN  /\ WriterFree /\ master[d]
      /\ slaves'  = rest
      /\ primary' = IF primary = d THEN NoSlave ELSE primary
      /\ ChangeActive(ActiveWithout(d), link, delay, state, "none")
      /\ bondCarrier' = IF ~wasActive /\ rest = <<>> THEN FALSE ELSE bondCarrier
      /\ op' = Doing(IF wasActive THEN "reselect" ELSE "release", d)
      /\ UNCHANGED <<devVars, newLink, adminVars, monVars, oops>>

ReleaseReselect ==
  /\ op.kind = "reselect"
  /\ IF HasSlaves
       THEN SelectActive(link, delay, state)
       ELSE bondCarrier' = FALSE /\ UNCHANGED <<active, gap, link, delay, state>>
  /\ op' = Doing("release", op.dev)
  /\ UNCHANGED <<devVars, newLink, slaves, primary, adminVars, monVars, oops>>

(* netdev_set_master(NULL), dev_close and kfree of slave d.                *)
Discard(d) ==
  /\ master'  = [master EXCEPT ![d] = FALSE]
  /\ running' = [running EXCEPT ![d] = FALSE]
  /\ link'    = [link EXCEPT ![d] = "UP"]
  /\ newLink' = [newLink EXCEPT ![d] = "UP"]
  /\ delay'   = [delay EXCEPT ![d] = 0]
  /\ state'   = [state EXCEPT ![d] = "ACTIVE"]

ReleaseFinish ==
  /\ op.kind = "release" /\ gap = "none"
  /\ Discard(op.dev)
  /\ op' = Idle
  /\ UNCHANGED <<carrier, bondVars, adminVars, monVars, oops>>

(***************************************************************************)
(* bond_free_all for this bond, at module exit: cancel the works, release  *)
(* all the slaves (bond_release_all, one section per slave) and destroy    *)
(* the bond.  The bond may still be up.                                    *)
(***************************************************************************)
FreeAllBegin ==
  /\ WriterFree
  /\ killTimers' = TRUE
  /\ work' = FALSE
  /\ bondCarrier' = FALSE
  /\ IF HasSlaves
       THEN /\ primary' = NoSlave
            /\ ChangeActive(NoSlave, link, delay, state, "none")
            /\ slaves' = Tail(slaves)
            /\ op' = Doing("freeall", slaves[1])
       ELSE /\ op' = Destroyed
            /\ UNCHANGED <<primary, active, gap, link, delay, state, slaves>>
  /\ UNCHANGED <<devVars, newLink, bondUp, bufferMode, leaked, mon, pos, oops>>

FreeAllNext ==
  /\ op.kind = "freeall"
  /\ Discard(op.dev)
  /\ slaves' = IF HasSlaves THEN Tail(slaves) ELSE slaves
  /\ op' = IF HasSlaves THEN Doing("freeall", slaves[1]) ELSE Destroyed
  /\ UNCHANGED <<carrier, active, primary, bondCarrier, gap, adminVars, monVars, oops>>

-------------------------------------------------------------------------------
(***************************************************************************)
(* bond_open and bond_close.                                               *)
(***************************************************************************)
Open ==
  /\ RtnlFree /\ ~bondUp
  /\ bondUp' = TRUE /\ killTimers' = FALSE /\ work' = TRUE
  /\ UNCHANGED <<devVars, slaveVars, bondVars, bufferMode, leaked, mon, pos, op, oops>>

Close ==
  /\ WriterFree /\ bondUp
  /\ bondUp' = FALSE /\ killTimers' = TRUE /\ work' = FALSE
  /\ UNCHANGED <<devVars, slaveVars, bondVars, bufferMode, leaked, mon, pos, op, oops>>

(***************************************************************************)
(* The ioctls that move the active slave.                                  *)
(***************************************************************************)
(* bond_ioctl_change_active                                                *)
IoctlChangeActive(d) ==
  /\ WriterFree
  /\ Mode # "trunk" /\ master[d]
  /\ d # active /\ active # NoSlave /\ link[d] = "UP" /\ IsUp(d)
  /\ ChangeActive(d, link, delay, state, "end")
  /\ UNCHANGED <<devVars, newLink, slaves, primary, bondCarrier, adminVars, monVars, op, oops>>

(* bond_ioctl_hoolock_change_active, called for SIOCBONDHOOLOCKTEST with   *)
(* any network device; no mode is checked.                                 *)
IoctlHoolockTest(d) ==
  /\ WriterFree /\ HoolockIoctls /\ HasSlaves
  /\ ChangeActive(SlaveByDev(slaves, d), link, delay, state, "end")
  /\ UNCHANGED <<devVars, newLink, slaves, primary, bondCarrier, adminVars, monVars, op, oops>>

(* bond_ioctl_make                                                         *)
IoctlMake ==
  LET new == Passive(slaves, active)
  IN  /\ WriterFree /\ HoolockIoctls
      /\ ChangeActive(IF new = NoSlave THEN active ELSE new, link, delay, state, "buffer")
      /\ bufferMode' = (gap' = "none" \/ bufferMode)
      /\ UNCHANGED <<devVars, newLink, slaves, primary, bondCarrier, bondUp, killTimers, leaked, monVars, op, oops>>

(* bond_ioctl_break                                                        *)
IoctlBreak ==
  /\ WriterFree /\ HoolockIoctls
  /\ bufferMode' = FALSE
  /\ UNCHANGED <<devVars, slaveVars, bondVars, bondUp, killTimers, leaked, monVars, op, oops>>

(* SIOCBONDHOOLOCKGETACTIVE returns -EFAULT when there is no active slave, *)
(* with both locks held for reading.                                       *)
IoctlGetActive ==
  /\ RtnlFree /\ HoolockIoctls /\ active = NoSlave
  /\ leaked' = TRUE
  /\ UNCHANGED <<devVars, slaveVars, bondVars, bondUp, bufferMode, killTimers, monVars, op, oops>>

(* From then on a handler that wants to write spins, and never releases    *)
(* rtnl; nobody sees what it did before.                                   *)
Spin ==
  /\ RtnlFree /\ leaked
  /\ op' = Spinning
  /\ UNCHANGED <<devVars, slaveVars, bondVars, adminVars, monVars, oops>>

(***************************************************************************)
(* bond_xmit_hoolock changes nothing, except that it reads                 *)
(* curr_active_slave->dev without looking whether there is an active slave.*)
(***************************************************************************)
XmitHoolock ==
  /\ Mode = "hoolock" /\ BondIsOk /\ active = NoSlave
  /\ oops' = TRUE
  /\ UNCHANGED <<devVars, slaveVars, bondVars, adminVars, monVars, op>>

-------------------------------------------------------------------------------
(***************************************************************************)
(* bond_mii_monitor.  bond_miimon_inspect looks at every slave under       *)
(* bond->lock; if it proposes a change the lock is dropped, rtnl is        *)
(* awaited, and bond_miimon_commit goes through the list.                  *)
(***************************************************************************)

(* What the inspection writes in the link, delay and new_link of slave s,  *)
(* in the two halves of its switch.                                        *)
Keep(s, l) == [link |-> l, delay |-> delay[s], new |-> "NOCHANGE"]

Mutant_CountDown(l, n, final) ==   \* one period too many, and delay becomes -1
  [link |-> l, delay |-> n - 1, new |-> IF n < 0 THEN final ELSE "NOCHANGE"]

CountDown(l, n, final) ==          \* the delay ends or goes on
  [link |-> l, delay |-> IF n = 0 THEN 0 ELSE n - 1, new |-> IF n = 0 THEN final ELSE "NOCHANGE"]

Mutant_InspectedUp(s) ==           \* a link that failed does not recover
  IF carrier[s] THEN Keep(s, link[s])
  ELSE CountDown("FAIL", IF link[s] = "UP" THEN DownDelay ELSE delay[s], "DOWN")

InspectedUp(s) ==                  \* BOND_LINK_UP and BOND_LINK_FAIL
  IF carrier[s] THEN Keep(s, "UP")
  ELSE CountDown("FAIL", IF link[s] = "UP" THEN DownDelay ELSE delay[s], "DOWN")

Mutant_InspectedDown(s) ==         \* a link that comes back is not marked so
  IF ~carrier[s] THEN Keep(s, "DOWN")
  ELSE CountDown(link[s], IF link[s] = "DOWN" THEN UpDelay ELSE delay[s], "UP")

InspectedDown(s) ==                \* BOND_LINK_DOWN and BOND_LINK_BACK
  IF ~carrier[s] THEN Keep(s, "DOWN")
  ELSE CountDown("BACK", IF link[s] = "DOWN" THEN UpDelay ELSE delay[s], "UP")

Inspected(s) == IF link[s] \in {"UP", "FAIL"} THEN InspectedUp(s) ELSE InspectedDown(s)

MiiInspect ==
  LET S == ToSet(slaves)
  IN  /\ work /\ mon = "idle" /\ ~killTimers /\ op # Destroyed
      /\ link'    = [d \in Dev |-> IF d \in S THEN Inspected(d).link ELSE link[d]]
      /\ delay'   = [d \in Dev |-> IF d \in S THEN Inspected(d).delay ELSE delay[d]]
      /\ newLink' = [d \in Dev |-> IF d \in S THEN Inspected(d).new ELSE newLink[d]]
      /\ \/ /\ \E d \in S : newLink'[d] # "NOCHANGE"
            /\ mon' = "waiting" /\ work' = FALSE
         \/ /\ \A d \in S : newLink'[d] = "NOCHANGE"   \* re_arm
            /\ UNCHANGED <<mon, work>>
      /\ UNCHANGED <<devVars, state, bondVars, adminVars, pos, op, oops>>

(* The work runs although the timers have been killed: it does not re-arm. *)
Mutant_MiiQuit ==   \* re-arms
  /\ work /\ mon = "idle" /\ killTimers
  /\ work' = TRUE
  /\ UNCHANGED <<devVars, slaveVars, bondVars, adminVars, mon, pos, op, oops>>

MiiQuit ==
  /\ work /\ mon = "idle" /\ killTimers
  /\ work' = FALSE
  /\ UNCHANGED <<devVars, slaveVars, bondVars, adminVars, mon, pos, op, oops>>

MiiCommitBegin ==
  /\ mon = "waiting" /\ op = Idle /\ gap = "none"
  /\ mon' = "committing" /\ pos' = 1
  /\ op' = Committing
  /\ UNCHANGED <<devVars, slaveVars, bondVars, adminVars, work, oops>>

(* One turn of the loop of bond_miimon_commit, for slave s.                *)
CommittedState(s) ==
  CASE newLink[s] = "UP" /\ Mode # "activebackup"                   -> "ACTIVE"
    [] newLink[s] = "UP" /\ Mode = "activebackup" /\ s # primary    -> "BACKUP"
    [] newLink[s] = "DOWN" /\ Mode = "activebackup"                 -> "BACKUP"
    [] OTHER                                                         -> state[s]

Mutant_FailoverNeeded(s) == newLink[s] = "UP" /\ (active = NoSlave \/ s = primary)

FailoverNeeded(s) ==
  \/ newLink[s] = "UP" /\ (active = NoSlave \/ s = primary)
  \/ newLink[s] = "DOWN" /\ s = active

MiiCommitSlave ==
  LET s   == slaves[pos]
      lnk == [link EXCEPT ![s] = newLink[s]]
      st  == [state EXCEPT ![s] = CommittedState(s)]
  IN  /\ mon = "committing" /\ pos <= Len(slaves) /\ gap = "none"
      /\ pos' = pos + 1
      /\ \/ /\ newLink[s] = "NOCHANGE"
            /\ UNCHANGED <<link, delay, state, active, bondCarrier, gap>>
         \/ /\ newLink[s] # "NOCHANGE" /\ ~FailoverNeeded(s)
            /\ link' = lnk /\ state' = st
            /\ UNCHANGED <<delay, active, bondCarrier, gap>>
         \/ /\ newLink[s] # "NOCHANGE" /\ FailoverNeeded(s) /\ ~leaked
            /\ SelectActive(lnk, delay, st)
      /\ UNCHANGED <<devVars, newLink, slaves, primary, adminVars, work, mon, op, oops>>

(* The end of the loop: set the carrier, release rtnl, re-arm.             *)
Mutant_MiiCommitEnd ==   \* returns early when nothing is active, with rtnl held
  /\ mon = "committing" /\ pos > Len(slaves) /\ gap = "none"
  /\ bondCarrier' = CarrierOf(slaves, link)
  /\ work' = TRUE /\ mon' = "idle" /\ pos' = 0
  /\ op' = IF active = NoSlave THEN op ELSE Idle
  /\ UNCHANGED <<devVars, slaveVars, slaves, active, primary, gap, adminVars, oops>>

MiiCommitEnd ==
  /\ mon = "committing" /\ pos > Len(slaves) /\ gap = "none"
  /\ bondCarrier' = CarrierOf(slaves, link)
  /\ work' = TRUE /\ mon' = "idle" /\ pos' = 0
  /\ op' = Idle
  /\ UNCHANGED <<devVars, slaveVars, slaves, active, primary, gap, adminVars, oops>>

-------------------------------------------------------------------------------
(* The devices: their carrier comes and goes, and the administrator sets   *)
(* a slave up or down (NETDEV_DOWN is ignored by bond_slave_netdev_event). *)
CarrierChange(d) ==
  /\ carrier' = [carrier EXCEPT ![d] = ~@]
  /\ UNCHANGED <<running, master, slaveVars, bondVars, adminVars, monVars, op, oops>>

SlaveUpDown(d) ==
  /\ RtnlFree /\ master[d]
  /\ running' = [running EXCEPT ![d] = ~@]
  /\ UNCHANGED <<carrier, master, slaveVars, bondVars, adminVars, monVars, op, oops>>

(* A kernel that has oopsed or spins and a bond that has been freed stay so. *)
Stopped == (oops \/ leaked \/ op = Destroyed) /\ UNCHANGED vars

HandlerStep == \/ EnslaveSetup \/ EnslaveDone \/ EnslaveFails
               \/ ReleaseReselect \/ ReleaseFinish \/ FreeAllNext \/ AfterNotify
MonitorStep == MiiInspect \/ MiiQuit \/ MiiCommitSlave \/ MiiCommitEnd
AdminStep(d) == \/ EnslaveAttach(d) \/ ReleaseDetach(d) \/ SlaveUpDown(d)
                \/ IoctlChangeActive(d) \/ IoctlHoolockTest(d)
AdminBond == FreeAllBegin \/ Open \/ Close \/ IoctlMake \/ IoctlBreak \/ IoctlGetActive \/ Spin

Next ==
  \/ ~oops /\ (HandlerStep \/ MonitorStep \/ MiiCommitBegin \/ AdminBond \/ XmitHoolock)
  \/ ~oops /\ \E d \in Dev : AdminStep(d) \/ CarrierChange(d)
  \/ Stopped

Spec == Init /\ [][Next]_vars

(* Handlers and the work queue make progress, and a monitor that waits for *)
(* rtnl, a mutex with a queue of waiters, gets it in the end.              *)
Fairness ==
  /\ WF_vars(~oops /\ HandlerStep)
  /\ WF_vars(~oops /\ MonitorStep)
  /\ SF_vars(~oops /\ MiiCommitBegin)

FairSpec == Spec /\ Fairness
-------------------------------------------------------------------------------
(***************************************************************************)
(* Properties.                                                             *)
(***************************************************************************)

Listed == ToSet(slaves)

(* Every variable has its type; what mon may be depends on the monitor.    *)
FieldTypes ==
  /\ carrier \in [Dev -> BOOLEAN] /\ running \in [Dev -> BOOLEAN] /\ master \in [Dev -> BOOLEAN]
  /\ link \in [Dev -> Link] /\ newLink \in [Dev -> {"UP", "DOWN", "NOCHANGE"}]
  /\ delay \in [Dev -> Nat] /\ state \in [Dev -> State]
  /\ slaves \in Seq(Dev) /\ {active, primary} \subseteq Dev \cup {NoSlave}
  /\ {bondCarrier, bondUp, bufferMode, killTimers, work, leaked, oops} \subseteq BOOLEAN
  /\ pos \in Nat /\ gap \in Rest
  /\ op \in {Idle, Destroyed, Committing, Spinning} \cup [kind : Adding \cup Removing, dev : Dev]

TypeOK == FieldTypes /\ mon \in {"idle", "waiting", "committing"}

(* No dangling pointer: curr_active_slave and primary_slave are NULL or on *)
(* the slave list, which holds each slave once and only slaves that have   *)
(* not been freed (their device still has the bond for its master).        *)
RolesListed    == {active, primary} \subseteq Listed \cup {NoSlave}
ListedOnce     == Once(slaves)
ListedAttached == \A s \in Listed : master[s]
PointersValid  == RolesListed /\ ListedOnce /\ ListedAttached

(* The inductive strengthening of PointersValid: what the handlers that    *)
(* are half-way through have done to the list and to the devices.          *)
HandlersInv ==
  /\ op.kind \in Adding   => op.dev \in Listed
  /\ op.kind \in Removing => op.dev \notin Listed
  /\ op.kind = "freeall"  => active = NoSlave /\ primary = NoSlave
  /\ mon = "committing"   => op = Committing /\ pos > 0
  /\ op.kind = "commit"   => mon = "committing"
  /\ \A d \in Dev : master[d] => d \in Listed \/ (op.kind \in Removing /\ op.dev = d)

PointersCore == /\ FieldTypes /\ RolesListed /\ ListedOnce
                /\ ~SymlinkMayFail => ListedAttached

PointersInv == PointersCore /\ HandlersInv

(* In active-backup mode the active slave, and it alone, has state ACTIVE; *)
(* in the other modes, where all the slaves receive, every slave has it.   *)
StateFollowsActive ==
  \A s \in Listed : op # Doing("enslave", s) =>
     (state[s] = "ACTIVE" <=> (Mode = "activebackup" => s = active))

(* What makes UpOnlyFromBack inductive when the monitor is not overtaken:  *)
(* the proposals that are still to be committed are about the links as     *)
(* they are, except that a slave whose updelay was cut short is up.        *)
Pending == {k \in 1..Len(slaves) : mon = "waiting" \/ (mon = "committing" /\ k >= pos)}

Proposed(s) == newLink[s] = "UP" => link[s] = "BACK" \/ (UpDelay > 0 /\ link[s] = "UP")

ProposalsInv ==
  /\ op.kind = "enslave" => link[op.dev] \in {"UP", "FAIL"}
  /\ op.kind = "enslave" /\ mon = "waiting" => newLink[op.dev] # "UP"
  /\ \A k \in Pending : Proposed(slaves[k])

(* With it, in active-backup mode, StateFollowsActive is inductive.        *)
StateInv ==
  /\ StateFollowsActive
  /\ Mode = "activebackup" /\ op.kind = "enslave" => op.dev # active
  /\ Mode = "activebackup" /\ active # NoSlave => link[active] \in {"UP", "FAIL"}

(* "If any slaves are up, the master is up" (bond_set_carrier): between    *)
(* handlers a bond with a slave whose link is up has its carrier on.       *)
CarrierUpWithSlaves ==
  op = Idle /\ gap = "none" /\ mon = "idle" /\ (\E s \in Listed : link[s] = "UP") => bondCarrier

(* The link monitor takes the active role from a slave only if that slave  *)
(* has lost its link or its carrier, or to give it to the primary; a       *)
(* handover the client has made is not undone otherwise.                   *)
FailoverOnlyForCause ==
  [][op.kind = "commit" /\ active # NoSlave /\ active' # active =>
       newLink[active] = "DOWN" \/ ~IsUp(active) \/ link[active] # "UP" \/ active' = primary]_vars

(* A link that was down never becomes up at once: the monitor has to see   *)
(* its carrier first and to count updelay (link BACK); only bond_enslave    *)
(* sets the link of the slave it adds to what it finds.                    *)
UpOnlyFromBack ==
  [][\A s \in Listed : link[s] = "DOWN" /\ link'[s] = "UP" =>
       op = Doing("enslave", s)]_vars

(* Every handler that takes rtnl gives it back, or frees the bond.         *)
HandlersFinish == op # Idle ~> op \in {Idle, Destroyed}

(* The transmit path never dereferences a NULL active slave.               *)
NoNullDereference == ~oops

(* The link of a slave of an open bond follows its carrier, whatever the   *)
(* administrator and the other slaves do.                                  *)
LinkFollowsCarrier ==
  \A d \in Dev :
    /\ <>[](bondUp /\ d \in Listed /\ carrier[d])  => <>[](link[d] = "UP")
    /\ <>[](bondUp /\ d \in Listed /\ ~carrier[d]) => <>[](link[d] = "DOWN")

(* An open bond does not keep an active slave whose carrier stays down.    *)
DeadSlaveNotKept ==
  \A d \in Dev : <>[](bondUp /\ ~carrier[d]) => <>[](active # d)
==============================================================================
