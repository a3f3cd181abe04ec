------------------------------ MODULE ArpMonitor -----------------------------
(***************************************************************************)
(* The ARP monitors of the bonding driver (27/bond_main.c): a bond that is *)
(* configured with arp_interval judges a slave by the ARP traffic it sends *)
(* and receives.  bond_loadbalance_arp_mon serves the modes in which all   *)
(* slaves carry traffic and hoolock mode, bond_activebackup_arp_mon the    *)
(* active-backup mode.  Handlers, ioctls and the change of the active      *)
(* slave are those of module Bonding.                                      *)
(*                                                                         *)
(* Time is counted in arp intervals.  The stamps that are compared with    *)
(* jiffies are kept as ages, which stop growing where no comparison can    *)
(* tell them apart any more.  The carrier of the devices stays on: what    *)
(* comes and goes is the path behind it.                                   *)
(***************************************************************************)
EXTENDS Bonding

CONSTANTS
  Monitors,      \* the link monitors to choose from, "mii" and "arp"
  ArpValidate,   \* is arp_validate=all set?  (not none; the other two values are not modelled)
  Punctual,      \* does the work run in the interval in which it is due, and a handler end in the one it began in?
  Closable,      \* bound: does the administrator close a bond with an ARP monitor of 2.6.27?
  Downable       \* bound: the devices the administrator sets down and up

(* Bounds: a bond with an ARP monitor has no primary slave, at which       *)
(* bond_find_best_slave would not start here, and no program issues MAKE,  *)
(* BREAK, GETACTIVE or TEST for it.                                        *)
ASSUME MonitorsAssumption == Monitors \subseteq {"mii", "arp"}
ASSUME ArpAssumption == /\ Downable \subseteq Dev
                        /\ {ArpValidate, Punctual, Closable} \subseteq BOOLEAN
                        /\ ArpValidate => Mode = "activebackup"   \* bond_check_params
                        /\ "arp" \in Monitors => Primary = NoSlave /\ ~HoolockIoctls

VARIABLES
  monitor,   \* which of params.miimon and params.arp_interval is positive; never changes
  reach,     \* does the path behind each device lead to an ARP target?
  rx,        \* age of what slave_last_rx returns
  tx,        \* age of dev->trans_start
  since,     \* age of slave->jiffies, the time of becoming active or a candidate
  cur,       \* bond->current_arp_slave
  seen,      \* oldcurrent, as bond_loadbalance_arp_mon read it
  due,       \* has the interval of the pending arp_work passed?
  probes     \* slaves whose ARP request is in the network

ageVars == <<rx, tx, since>>
arpVars == <<monitor, reach, ageVars, cur, seen, due, probes>>
avars   == <<vars, arpVars>>

(* Ages that are not told apart from older ones.  Bound: a device that is  *)
(* released has been silent that long when it is enslaved again.           *)
Old == IF Mode = "activebackup" THEN 4 ELSE 2

ArpInit ==
  /\ Init
  /\ monitor \in Monitors
  /\ monitor = "arp" => \A d \in Dev : carrier[d]
  /\ reach = [d \in Dev |-> FALSE]
  /\ rx = [d \in Dev |-> Old] /\ tx = [d \in Dev |-> 2] /\ since = [d \in Dev |-> 2]
  /\ cur = NoSlave /\ seen = NoSlave /\ due = FALSE /\ probes = {}

-------------------------------------------------------------------------------
(***************************************************************************)
(* Probes and what comes of them.                                          *)
(***************************************************************************)

(* bond_arp_send_all for each slave of S.  A device that is down drops it. *)
SendProbes(S) ==
  LET out == {s \in S : IsUp(s)}
  IN  /\ tx' = [d \in Dev |-> IF d \in out THEN 0 ELSE tx[d]]
      /\ probes' = probes \cup {s \in out : reach[s]}

(* bond_arp_rcv and bond_validate_arp, or the driver's dev->last_rx: a     *)
(* reply counts on a slave that is active, a probe on one that is backup;  *)
(* without validation everything does.                                     *)
Counts(d, what) ==
  ArpValidate => state[d] = (IF what = "reply" THEN "ACTIVE" ELSE "BACKUP")

Receive(d, what) ==
  rx' = [rx EXCEPT ![d] = IF ~ArpValidate \/ (d \in ToSet(slaves) /\ Counts(d, what)) THEN 0 ELSE @]

(* The target answers within the interval.                                 *)
ProbeAnswered(s) ==
  /\ s \in probes
  /\ probes' = probes \ {s}
  /\ Receive(s, "reply")
  /\ UNCHANGED <<vars, monitor, reach, tx, since, cur, seen, due>>

(* The request is a broadcast, and another slave may hear it.              *)
ProbeHeard(d) ==
  /\ reach[d] /\ IsUp(d) /\ \E s \in probes : s # d
  /\ Receive(d, "probe")
  /\ UNCHANGED <<vars, monitor, reach, tx, since, cur, seen, due, probes>>

-------------------------------------------------------------------------------
(***************************************************************************)
(* The work and its timer.                                                 *)
(***************************************************************************)
Runnable == work /\ due /\ mon = "idle" /\ op # Destroyed

Rearm == work' = TRUE /\ due' = (work /\ due) /\ mon' = "idle"

(* An interval passes, when no work runs, unless it waits for rtnl.  Paths *)
(* that fail or recover do so now: each slave sends once an interval.      *)
Tick ==
  LET Older(age, most) == [d \in Dev |-> IF age[d] < most THEN age[d] + 1 ELSE age[d]]
  IN  /\ probes = {}
      /\ mon \in {"idle", "waiting"}
      /\ Punctual => ~Runnable /\ mon = "idle" /\ op \in {Idle, Destroyed} /\ gap = "none"
      /\ rx' = Older(rx, Old) /\ tx' = Older(tx, 2)
      /\ since' = IF Mode = "activebackup" THEN Older(since, 2) ELSE since
      /\ due' = work
      /\ reach' \in [Dev -> BOOLEAN]
      /\ \A d \in Dev : reach'[d] => IsUp(d) /\ master[d]   \* a path nobody uses counts as failed
      /\ UNCHANGED <<vars, monitor, cur, seen, probes>>

(* The timers have been killed, or there is no slave.                      *)
ArpQuit ==
  /\ Runnable /\ (killTimers \/ ~HasSlaves)
  /\ IF killTimers THEN work' = FALSE /\ due' = FALSE /\ mon' = "idle"
                   ELSE work' = TRUE /\ due' = FALSE /\ mon' = "idle"
  /\ UNCHANGED <<devVars, slaveVars, bondVars, adminVars, pos, op, oops, monitor, reach, ageVars, cur, seen, probes>>

-------------------------------------------------------------------------------
(***************************************************************************)
(* bond_loadbalance_arp_mon, under bond->lock.  It reads the active slave  *)
(* and gives curr_slave_lock back before it looks at the slaves.           *)
(***************************************************************************)
LbBegin ==
  /\ Mode # "activebackup" /\ Runnable /\ ~killTimers /\ HasSlaves
  /\ seen' = active
  /\ mon' = "searching" /\ work' = FALSE /\ due' = FALSE
  /\ UNCHANGED <<devVars, slaveVars, bondVars, adminVars, pos, op, oops, monitor, reach, ageVars, cur, probes>>

Recovered(s) == link[s] # "UP" /\ tx[s] <= 1 /\ rx[s] <= 1

Silent(s) == link[s] = "UP" /\ (tx[s] >= 2 \/ rx[s] >= 2)

Mutant_LbFailover == \E s \in ToSet(slaves) : Recovered(s) /\ seen = NoSlave   \* keeps a silent slave

LbFailover == \E s \in ToSet(slaves) : (Recovered(s) /\ seen = NoSlave) \/ (Silent(s) /\ s = seen)

LbPass ==
  LET S   == ToSet(slaves)
      lnk == [d \in Dev |-> IF d \in S /\ Recovered(d) THEN "UP"
                            ELSE IF d \in S /\ Silent(d) THEN "DOWN" ELSE link[d]]
      st  == [d \in Dev |-> IF d \in S /\ Recovered(d) THEN "ACTIVE"
                            ELSE IF d \in S /\ Silent(d) THEN "BACKUP" ELSE state[d]]
  IN  /\ Mode # "activebackup" /\ mon = "searching"
      /\ IF LbFailover THEN SelectActive(lnk, delay, st)
         ELSE link' = lnk /\ state' = st /\ UNCHANGED <<delay, active, bondCarrier, gap>>
      /\ SendProbes(S)
      /\ seen' = NoSlave
      /\ Rearm
      /\ UNCHANGED <<devVars, newLink, slaves, primary, adminVars, pos, op, oops, monitor, reach, rx, since, cur>>

-------------------------------------------------------------------------------
(***************************************************************************)
(* bond_activebackup_arp_mon.  Inspection, under bond->lock.               *)
(***************************************************************************)
Mutant_ArpInspected(s) ==   \* content with an active slave that only sends
  CASE link[s] # "UP" -> IF rx[s] <= 1 THEN "UP" ELSE "NOCHANGE"
    [] link[s] = "UP" /\ since[s] < 2 -> "NOCHANGE"
    [] link[s] = "UP" /\ since[s] >= 2 /\ state[s] = "BACKUP" ->
         IF cur = NoSlave /\ rx[s] > 3 THEN "DOWN" ELSE "NOCHANGE"
    [] OTHER -> IF tx[s] >= 2 /\ rx[s] >= 2 THEN "DOWN" ELSE "NOCHANGE"

ArpInspected(s) ==
  CASE link[s] # "UP" -> IF rx[s] <= 1 THEN "UP" ELSE "NOCHANGE"
    [] link[s] = "UP" /\ since[s] < 2 -> "NOCHANGE"
    [] link[s] = "UP" /\ since[s] >= 2 /\ state[s] = "BACKUP" ->
         IF cur = NoSlave /\ rx[s] > 3 THEN "DOWN" ELSE "NOCHANGE"
    [] OTHER -> IF tx[s] >= 2 \/ rx[s] >= 2 THEN "DOWN" ELSE "NOCHANGE"

PrimaryWaits == primary \notin {NoSlave, active} /\ link[primary] = "UP"

ArpInspect ==
  LET S == ToSet(slaves)
      changed == PrimaryWaits \/ \E d \in S : ArpInspected(d) # "NOCHANGE"
  IN  /\ Mode = "activebackup" /\ Runnable /\ ~killTimers /\ HasSlaves
      /\ newLink' = [d \in Dev |-> IF d \in S /\ changed THEN ArpInspected(d) ELSE newLink[d]]
      /\ mon' = IF changed THEN "waiting" ELSE "probing"
      /\ work' = FALSE /\ due' = FALSE
      /\ UNCHANGED <<devVars, link, delay, state, bondVars, adminVars, pos, op, oops,
                     monitor, reach, ageVars, cur, seen, probes>>

(***************************************************************************)
(* bond_ab_arp_commit, with rtnl: slave by slave, then the primary.        *)
(***************************************************************************)
ArpCommitBegin == Mode = "activebackup" /\ MiiCommitBegin /\ UNCHANGED arpVars

CommitUp(s) ==
  LET lnk == [link EXCEPT ![s] = "UP"]
  IN  \/ /\ active = NoSlave /\ tx[s] <= 1
         /\ ChangeActive(s, lnk, delay, state, "end")
         /\ cur' = NoSlave /\ UNCHANGED bondCarrier
      \/ /\ active # s /\ ~(active = NoSlave /\ tx[s] <= 1)
         /\ link' = lnk /\ state' = [state EXCEPT ![s] = "BACKUP"]
         /\ cur' = NoSlave /\ UNCHANGED <<delay, active, bondCarrier, gap>>
      \/ /\ active = s
         /\ UNCHANGED <<link, delay, state, active, bondCarrier, gap, cur>>

Mutant_CommitDown(s) ==   \* does not look for a successor
  /\ link' = [link EXCEPT ![s] = "DOWN"]
  /\ state' = [state EXCEPT ![s] = "BACKUP"]
  /\ UNCHANGED <<delay, active, bondCarrier, gap, cur>>

CommitDown(s) ==
  LET lnk == [link EXCEPT ![s] = "DOWN"]
      st  == [state EXCEPT ![s] = IF s = active THEN "BACKUP" ELSE @]
  IN  \/ /\ s = active /\ SelectActive(lnk, delay, st) /\ cur' = NoSlave
      \/ /\ s # active /\ link' = lnk /\ state' = st
         /\ UNCHANGED <<delay, active, bondCarrier, gap, cur>>

(* slave->jiffies of the slave that has just become active *)
Promoted == [d \in Dev |-> IF Mode = "activebackup" /\ active' = d /\ active # d THEN 0 ELSE since[d]]

ArpCommitSlave ==
  LET s == slaves[pos]
  IN  /\ Mode = "activebackup" /\ mon = "committing" /\ pos <= Len(slaves) /\ gap = "none"
      /\ pos' = pos + 1
      /\ \/ newLink[s] = "NOCHANGE" /\ UNCHANGED <<link, delay, state, active, bondCarrier, gap, cur>>
         \/ newLink[s] = "UP"   /\ CommitUp(s)
         \/ newLink[s] = "DOWN" /\ CommitDown(s)
      /\ since' = Promoted
      /\ UNCHANGED <<devVars, newLink, slaves, primary, adminVars, work, mon, op, oops,
                     monitor, reach, rx, tx, seen, due, probes>>

ArpCommitPrimary ==
  /\ Mode = "activebackup" /\ mon = "committing" /\ pos = Len(slaves) + 1 /\ gap = "none"
  /\ pos' = pos + 1
  /\ IF PrimaryWaits THEN ChangeActive(primary, link, delay, state, "end")
                     ELSE UNCHANGED <<link, delay, state, active, gap>>
  /\ since' = Promoted
  /\ UNCHANGED <<devVars, newLink, slaves, primary, bondCarrier, adminVars, work, mon, op, oops,
                 monitor, reach, rx, tx, cur, seen, due, probes>>

(* (The proposals are not read again, and are forgotten here.)             *)
ArpCommitEnd ==
  /\ Mode = "activebackup" /\ mon = "committing" /\ pos > Len(slaves) + 1 /\ gap = "none"
  /\ bondCarrier' = CarrierOf(slaves, link)
  /\ newLink' = [d \in Dev |-> "UP"]
  /\ mon' = "relock" /\ op' = Idle /\ pos' = 0
  /\ UNCHANGED <<devVars, link, delay, state, slaves, active, primary, gap, adminVars, work, oops, arpVars>>

(***************************************************************************)
(* bond_ab_arp_probe, under bond->lock.  Without an active slave it gives  *)
(* curr_slave_lock back before it goes on to search for a candidate.       *)
(***************************************************************************)
ArpProbe ==
  /\ Mode = "activebackup" /\ mon \in {"probing", "relock"}
  /\ IF active # NoSlave
       THEN SendProbes({active}) /\ Rearm
       ELSE mon' = "searching" /\ UNCHANGED <<work, due, tx, probes>>
  /\ UNCHANGED <<devVars, slaveVars, bondVars, adminVars, pos, op, oops, monitor, reach, rx, since, cur, seen>>

(* The slaves after the one that was probed last, which ends the turn; the *)
(* next candidate, and the slaves that are passed over on the way to it.   *)
SearchFrom == IF cur = NoSlave THEN slaves[1] ELSE cur
SearchTurn == Append(Tail(TurnFrom(slaves, SearchFrom)), SearchFrom)
Mutant_Candidate == IF IsUp(SearchFrom) THEN SearchFrom ELSE NoSlave   \* does not go on to the next
Candidate  == FirstSuch(SearchTurn, IsUp)
Passed     == {SearchTurn[k] : k \in {k \in DOMAIN SearchTurn :
                                        \A j \in 1..k : SearchTurn[j] # Candidate}}

ArpSearch ==
  /\ Mode = "activebackup" /\ mon = "searching"
  /\ IF ~HasSlaves THEN UNCHANGED <<link, state, since, cur, tx, probes>>
     ELSE /\ link' = [d \in Dev |-> IF d = Candidate THEN "BACK"
                                    ELSE IF d \in Passed /\ link[d] = "UP" THEN "DOWN" ELSE link[d]]
          /\ state' = [d \in Dev |-> IF d = Candidate THEN "ACTIVE"
                                     ELSE IF d = SearchFrom \/ (d \in Passed /\ link[d] = "UP") THEN "BACKUP"
                                     ELSE state[d]]
          /\ since' = [d \in Dev |-> IF d = Candidate THEN 0 ELSE since[d]]
          /\ cur' = IF Candidate = NoSlave THEN SearchFrom ELSE Candidate
          /\ SendProbes({Candidate} \ {NoSlave})
  /\ Rearm
  /\ UNCHANGED <<devVars, newLink, delay, bondVars, adminVars, pos, op, oops, monitor, reach, rx, seen>>

-------------------------------------------------------------------------------
(***************************************************************************)
(* The handlers of the bond, and what they do to the ARP monitor's fields. *)
(* bond_release and bond_release_all give up a search; bond_enslave stamps *)
(* the new slave, a change of the active slave the new one.                *)
(***************************************************************************)
Mutant_SearchAfter == cur   \* the search goes on from a slave that has been freed

SearchAfter == IF Len(slaves') < Len(slaves) THEN NoSlave ELSE cur

Writer == \/ FreeAllBegin \/ FreeAllNext \/ (Closable /\ Close)
          \/ \E d \in Dev : EnslaveAttach(d) \/ ReleaseDetach(d)
Reader == \/ EnslaveSetup \/ EnslaveDone \/ ReleaseReselect \/ ReleaseFinish \/ AfterNotify
          \/ (Open /\ ~killTimers)   \* bound: a bond that is closed is not opened again
          \/ \E d \in Dev : (d \in Downable /\ SlaveUpDown(d)) \/ IoctlChangeActive(d)

ArpFields ==
  /\ cur' = SearchAfter
  /\ since' = [d \in Dev |-> IF Mode = "activebackup" /\ op = Doing("enslave", d) THEN 0
                              ELSE IF ~master'[d] THEN 2 ELSE Promoted[d]]
  /\ rx' = [d \in Dev |-> IF op = Doing("enslave", d) /\ ArpValidate THEN 0
                           ELSE IF ~master'[d] THEN Old ELSE rx[d]]
  /\ tx' = [d \in Dev |-> IF ~master'[d] THEN 2 ELSE tx[d]]
  /\ probes' = {d \in probes : master'[d]}
  /\ reach' = [d \in Dev |-> reach[d] /\ running'[d] /\ master'[d]]
  /\ due' = (work' /\ (due \/ ~work))
  /\ UNCHANGED <<monitor, seen>>

ArpHandler ==
  /\ \/ Writer /\ mon \notin {"probing", "searching"}
     \/ Reader
  /\ ArpFields

-------------------------------------------------------------------------------
ArpMonitorStep == \/ ArpQuit \/ LbBegin \/ LbPass
                  \/ ArpInspect \/ ArpCommitSlave \/ ArpCommitPrimary \/ ArpCommitEnd
                  \/ ArpProbe \/ ArpSearch

ArpNext ==
  \/ monitor = "arp" /\ (ArpHandler \/ ArpMonitorStep \/ ArpCommitBegin \/ Tick)
  \/ monitor = "arp" /\ \E d \in Dev : ProbeAnswered(d) \/ ProbeHeard(d)
  \/ monitor = "arp" /\ Stopped /\ UNCHANGED arpVars

ArpSpec == ArpInit /\ [][ArpNext]_avars

(* The work runs, handlers that have begun end, rtnl is got in the end,    *)
(* targets that can be reached answer, and time passes.                    *)
ArpFairness ==
  /\ WF_avars(monitor = "arp" /\ ArpMonitorStep)
  /\ WF_avars(monitor = "arp" /\ (op # Idle \/ gap # "none") /\ ArpHandler)
  /\ SF_avars(monitor = "arp" /\ ArpCommitBegin)
  /\ WF_avars(monitor = "arp" /\ \E d \in Dev : ProbeAnswered(d))
  /\ WF_avars(monitor = "arp" /\ Tick)

ArpFairSpec == ArpSpec /\ ArpFairness
-------------------------------------------------------------------------------
(***************************************************************************)
(* Properties.                                                             *)
(***************************************************************************)
Usable(d) == bondUp /\ d \in Listed /\ IsUp(d) /\ reach[d]

(* From some time on only the monitor moves the active role and no slave   *)
(* comes or goes.                                                          *)
LeftAlone == /\ <>[](op.kind \in {"none", "commit"})
             /\ <>[][active' # active => op.kind = "commit"]_avars


(* The three pointers into the list of slaves, current_arp_slave with them, *)
(* are NULL or on the list, also while an instance of the work runs that    *)
(* has given curr_slave_lock back in the middle.                            *)
SearchListed == {active, primary, cur} \subseteq Listed \cup {NoSlave}

(* In active-backup mode an active slave that is marked inactive or not up *)
(* has been deposed half-way: skb_bond_should_drop drops what it receives, *)
(* and nothing looks for a successor.                                      *)
Deposed == active # NoSlave /\ (state[active] # "ACTIVE" \/ link[active] # "UP")

(* No step deposes the active slave half-way, neither the commit of        *)
(* proposals that have become old nor a handler, with one exception that   *)
(* the code does make: a search for a candidate.  It has begun without an  *)
(* active slave, and bond_ab_arp_probe has given curr_slave_lock back, so  *)
(* that a handler may have selected the slave it then marks inactive.      *)
Searches == mon = "searching" /\ mon' # "searching"

ActiveReceives == [][Deposed' => Deposed \/ Searches]_avars

(* In the modes in which all slaves carry traffic a slave that has been    *)
(* found silent does not stay the active one: the pass that marks it down  *)
(* replaces it (or waits for rtnl to do so), unless a handler has selected *)
(* it after the pass read curr_active_slave, without which nothing does.   *)
ActiveDown == active # NoSlave /\ link[active] = "DOWN" /\ mon # "rtnl"

LbActiveUp == [][monitor = "arp" /\ ActiveDown' => ActiveDown \/ (Searches /\ seen # active)]_avars

(* What makes SearchListed inductive, with the validity of the other two:  *)
(* bond_release_all has stopped the monitor that could select a slave.     *)
SearchInv ==
  /\ cur \in Listed \cup {NoSlave}
  /\ monitor = "mii" => cur = NoSlave
  /\ monitor = "arp" /\ op.kind = "freeall" /\ Mode # "activebackup" => killTimers /\ mon # "searching"

(* What makes the other two follow from a single step.                     *)
ArpInv ==
  monitor = "arp" =>
    /\ \A d \in Dev : carrier[d]
    /\ op.kind = "enslave" /\ Mode = "activebackup" => op.dev # active

(* A bond with a usable slave has an active slave that is usable, and its  *)
(* carrier on, again and again, unless the active slave stays deposed for  *)
(* good, which only a search that a handler overtook can have done to it.  *)
ActiveIsFound ==
  LeftAlone => \A d \in Dev :
    <>[]Usable(d) => []<>(active # NoSlave /\ Usable(active) /\ bondCarrier) \/ <>[]Deposed

(* A slave that can reach no target any more loses the active role for     *)
(* good, with the same exception.                                          *)
SilentDropped ==
  LeftAlone => \A d \in Dev :
    <>[](bondUp /\ d \in Listed /\ ~reach[d]) => <>[](active # d) \/ <>[]Deposed
===============================================================================
