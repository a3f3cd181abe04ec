------------------------------ MODULE NetDevices ------------------------------
(***************************************************************************)
(* The life of the network devices a bond is made of, in both kernels:     *)
(* dev.c registers, unregisters and frees them and queues their packets,   *)
(* bond_main.c enslaves them and follows the notifications of dev.c.       *)
(*                                                                         *)
(* All but the end of an unregistration and the packets runs under rtnl.   *)
(* An operation that holds rtnl throughout is one step; an unregistration  *)
(* takes several, as it sleeps for packets that are being received.        *)
(* Every device lives once: a new device is another one.                   *)
(***************************************************************************)
EXTENDS Integers, Sequences, SequencesExt, FiniteSets

CONSTANTS
  Nic,          \* the devices of the drivers, registered already
  Talker,       \* bound: the devices that receive packets
  Ib,           \* those that are no Ethernet devices
  Bond,         \* the bonding device
  Thread,       \* the processes that take rtnl
  Cpu,          \* the processors
  Irq,          \* bound: those the drivers interrupt, and that may go offline
  None,         \* no thread and no device
  MaxBacklog    \* netdev_max_backlog

ASSUME NetAssumption ==
  /\ Ib \subseteq Nic /\ Talker \subseteq Nic /\ Irq \subseteq Cpu
  /\ Bond \notin Nic /\ None \notin Nic \cup {Bond} \cup Thread
  /\ IsFiniteSet(Cpu) /\ MaxBacklog \in Nat

VARIABLES
  ver,      \* the kernel
  dev,      \* reg_state, IFF_UP, refcnt and how many of the references the protocols hold
  slaves,   \* the slaves of the bond
  byslave,  \* bond->setup_by_slave, and with it bond_dev->type
  bondList, \* is the bond on bond_dev_list?
  rtnl,     \* who holds the rtnl semaphore
  mutex,    \* who holds net_todo_run_mutex (2.6.24)
  pc,       \* where each thread is
  unreg,    \* the device it unregisters
  creator,  \* the thread that is in bond_create
  asked,    \* the devices of drivers it has unregistered and has to free
  todo,     \* net_todo_list
  snap,     \* the list each thread works off in netdev_run_todo
  backlog,  \* input_pkt_queue of each processor: the devices of the packets
  polling,  \* NAPI_STATE_SCHED of queue->backlog
  busy,     \* the device of the packet each processor is receiving
  alive,    \* the processors that are online
  strays,   \* the devices with packets or references the code has lost sight of
  crashed   \* the BUG_ON that was hit

threadVars == <<rtnl, mutex, pc, unreg, creator, asked, todo, snap>>
cpuVars    == <<backlog, polling, busy, alive>>
bondVars   == <<slaves, byslave, bondList>>
netVars    == <<ver, dev, bondVars, threadVars, cpuVars, strays, crashed>>

Device == Nic \cup {Bond}

NetInit ==
  /\ ver \in {"2.6.24", "2.6.27"}
  /\ dev = [d \in Device |->
              IF d = Bond THEN [reg |-> "uninitialized", up |-> FALSE, ref |-> 0, held |-> 0]
                          ELSE [reg |-> "registered", up |-> FALSE, ref |-> 1, held |-> 0]]
  /\ slaves = {} /\ byslave = FALSE /\ bondList = FALSE
  /\ rtnl = None /\ mutex = None /\ creator = None
  /\ pc = [t \in Thread |-> "idle"] /\ unreg = [t \in Thread |-> None]
  /\ asked = [t \in Thread |-> {}] /\ todo = <<>> /\ snap = [t \in Thread |-> <<>>]
  /\ backlog = [c \in Cpu |-> <<>>] /\ polling = [c \in Cpu |-> FALSE]
  /\ busy = [c \in Cpu |-> None] /\ alive = Cpu
  /\ strays = {} /\ crashed = "no"

-------------------------------------------------------------------------------
(***************************************************************************)
(* What the functions of dev.c do to the devices D.                        *)
(***************************************************************************)
DevHold(D, d) == [D EXCEPT ![d].ref = @ + 1]
DevPut(D, d)  == [D EXCEPT ![d].ref = @ - 1]

(* The protocols put back what they hold when they are told of the end.    *)
ProtocolsLetGo(D, d) == [D EXCEPT ![d].ref = @ - D[d].held, ![d].held = 0]

DevOpen(D, d)  == [D EXCEPT ![d].up = TRUE]
DevClose(D, d) == [D EXCEPT ![d].up = FALSE]

(* rollback_registered up to the notification *)
Unlisted(D, d) == [DevClose(D, d) EXCEPT ![d].reg = "unregistering"]

Listed(d) == dev[d].reg = "registered"

Mutant_Released(D, S) == [d \in Device |-> IF d \in S THEN DevClose(D, d)[d] ELSE D[d]]

(* bond_release and bond_release_all: netdev_set_master(slave, NULL) puts  *)
(* the reference of each slave to the bond.                                *)
Released(D, S) ==
  [d \in Device |-> CASE d \in S  -> DevClose(D, d)[d]
                      [] d = Bond -> [D[d] EXCEPT !.ref = @ - Cardinality(S)]
                      [] OTHER    -> D[d]]

(* bond_release_and_destroy, the last slave being d.  The unregistration   *)
(* of the bond within that of its slave is one step here, although it      *)
(* sleeps for packets as well: rtnl is held, so nothing but a packet comes *)
(* in between.                                                             *)
DestroyedWith(D, d) ==
  DevPut(ProtocolsLetGo(Unlisted(Released(D, {d}), Bond), Bond), Bond)

(* bond_netdev_event on NETDEV_UNREGISTER *)
LastOfBond(d) == byslave /\ slaves = {d}

Mutant_Freed(d) == IF d = Bond THEN slaves' = slaves ELSE slaves' = slaves \ {d}

(* The slaves left when the bonding driver has heard that d goes.          *)
Freed(d) == slaves' = IF d = Bond THEN {} ELSE slaves \ {d}

NotifyUnregister(d) ==
  LET D == ProtocolsLetGo(dev, d)
  IN  /\ Freed(d)
      /\ dev' = CASE d = Bond                             -> Released(D, slaves)
                  [] d \in slaves /\ LastOfBond(d)        -> DestroyedWith(D, d)
                  [] d \in slaves /\ ~LastOfBond(d)       -> Released(D, {d})
                  [] OTHER                                -> D
      /\ bondList' = (bondList /\ ~(d \in slaves /\ LastOfBond(d)))
      /\ todo' = IF d \in slaves /\ LastOfBond(d) THEN Append(todo, Bond) ELSE todo
      /\ crashed' = IF d \in slaves /\ LastOfBond(d) /\ ~Listed(Bond) THEN "rollback" ELSE crashed

-------------------------------------------------------------------------------
(***************************************************************************)
(* Operations under rtnl.                                                  *)
(***************************************************************************)
Goto(t, label) == pc' = [pc EXCEPT ![t] = label]

(* rtnl_lock at the beginning, rtnl_unlock still to come *)
Lock(t) == pc[t] = "idle" /\ rtnl = None /\ rtnl' = t

(* rtnl_lock and rtnl_unlock in one step, netdev_run_todo still to come;   *)
(* in 2.6.27 it has nothing to do, as whoever fills the list empties it.   *)
LockForShort(t, then) ==
  /\ pc[t] = "idle" /\ rtnl = None
  /\ Goto(t, IF ver = "2.6.24" THEN "mutex" ELSE then)
  /\ UNCHANGED <<ver, rtnl, mutex, unreg, asked, todo, snap, cpuVars, crashed>>

(* register_netdevice.  A registration that is refused leaves nothing.     *)
Registered(D, d) == [D EXCEPT ![d].reg = "registered", ![d].ref = 1]

(* bond_create up to bond_create_sysfs_entry *)
CreateBond(t) ==
  /\ dev[Bond].reg = "uninitialized"
  /\ LockForShort(t, "sysfs")
  /\ dev' = Registered(dev, Bond)
  /\ bondList' = TRUE /\ creator' = t
  /\ UNCHANGED <<slaves, byslave, strays>>

(* An administrator opens or closes a device; the bond is not looked at.   *)
OpenOrClose(t, d) ==
  /\ Listed(d) /\ LockForShort(t, "idle")
  /\ dev' = IF dev[d].up THEN DevClose(dev, d) ELSE DevOpen(dev, d)
  /\ UNCHANGED <<bondVars, creator, strays>>

(* bond_enslave as far as it succeeds and fails alike: bond_setup_by_slave *)
(* is never taken back.  Bound: nothing is enslaved after an enslave that  *)
(* has lost its reference to the bond.                                     *)
BeginEnslave(t, d) ==
  /\ LockForShort(t, "idle")
  /\ Listed(d) /\ Listed(Bond) /\ d \notin slaves /\ ~dev[d].up /\ Bond \notin strays
  /\ slaves # {} => (byslave <=> d \in Ib)
  /\ byslave' = (byslave \/ (slaves = {} /\ d \in Ib))
  /\ UNCHANGED <<bondList, creator>>

EnslaveNic(t, d) ==
  /\ BeginEnslave(t, d)
  /\ slaves' = slaves \cup {d}
  /\ dev' = DevHold(DevOpen(dev, d), Bond)
  /\ UNCHANGED strays

(* The device cannot be opened.  2.6.24 then forgets to take back          *)
(* netdev_set_master, and with it the reference to the bond.               *)
OpenFails27(t, d) ==
  /\ ver = "2.6.27" /\ BeginEnslave(t, d)
  /\ UNCHANGED <<dev, slaves, strays>>

OpenFails24(t, d) ==
  /\ ver = "2.6.24" /\ BeginEnslave(t, d)
  /\ dev' = DevHold(dev, Bond)
  /\ strays' = strays \cup {Bond}
  /\ UNCHANGED slaves

(* bond_release by ioctl *)
ReleaseNic(t, d) ==
  /\ LockForShort(t, "idle")
  /\ d \in slaves
  /\ slaves' = slaves \ {d}
  /\ dev' = Released(dev, {d})
  /\ UNCHANGED <<byslave, bondList, creator, strays>>

(* unregister_netdevice begins: by a driver, by bond_destroy and where     *)
(* bond_create takes back the bond.                                        *)
Unregister(t, d) ==
  /\ rtnl' = t
  /\ \/ /\ Listed(d)
        /\ dev' = Unlisted(dev, d) /\ unreg' = [unreg EXCEPT ![t] = d]
        /\ Goto(t, "notify") /\ UNCHANGED crashed
     \/ /\ ~Listed(d)
        /\ crashed' = "rollback" /\ Goto(t, "dead") /\ UNCHANGED <<dev, unreg>>
  /\ UNCHANGED <<ver, slaves, byslave, mutex, todo, snap, cpuVars, strays>>

UnregisterNic(t, d) ==
  /\ Lock(t) /\ Listed(d)
  /\ Unregister(t, d)
  /\ asked' = [asked EXCEPT ![t] = @ \cup {d}]
  /\ UNCHANGED <<bondList, creator>>

DestroyBond(t) ==
  /\ Lock(t) /\ bondList
  /\ Unregister(t, Bond)
  /\ bondList' = FALSE
  /\ UNCHANGED <<asked, creator>>

(* The notification and the rest of rollback_registered, net_set_todo.     *)
Notify(t) ==
  /\ pc[t] = "notify"
  /\ NotifyUnregister(unreg[t]) /\ Goto(t, "put")
  /\ UNCHANGED <<ver, byslave, rtnl, mutex, unreg, creator, asked, snap, cpuVars, strays>>

PutLast(t) ==
  /\ pc[t] = "put"
  /\ dev' = DevPut(dev, unreg[t])
  /\ todo' = Append(todo, unreg[t])
  /\ unreg' = [unreg EXCEPT ![t] = None] /\ Goto(t, "unlock")
  /\ UNCHANGED <<ver, bondVars, rtnl, mutex, creator, asked, snap, cpuVars, strays, crashed>>

(* bond_create after the unlock: bond_create_sysfs_entry, whatever has     *)
(* become of the bond meanwhile.  If it was destroyed, the memory may be   *)
(* free, and the function succeeds or fails.                               *)
SysfsDone(t) ==
  /\ pc[t] = "sysfs"
  /\ creator' = None /\ Goto(t, "idle")
  /\ UNCHANGED <<ver, dev, bondVars, rtnl, mutex, unreg, asked, todo, snap, cpuVars, strays, crashed>>

Mutant_SysfsFails27(t) ==
  /\ ver = "2.6.27" /\ pc[t] = "sysfs" /\ rtnl = None
  /\ crashed' = "free" /\ rtnl' = t /\ bondList' = FALSE /\ Goto(t, "dead")
  /\ UNCHANGED <<ver, dev, slaves, byslave, mutex, unreg, creator, asked, todo, snap, cpuVars, strays>>

(* The creator is still in bond_create if the bond was gone.               *)
SysfsFails27(t) ==
  /\ ver = "2.6.27" /\ pc[t] = "sysfs" /\ rtnl = None
  /\ Unregister(t, Bond)
  /\ bondList' = FALSE
  /\ creator' = IF Listed(Bond) THEN None ELSE t
  /\ UNCHANGED asked

(* 2.6.24 frees the device without having unregistered it.                 *)
SysfsFails24(t) ==
  /\ ver = "2.6.24" /\ pc[t] = "sysfs" /\ rtnl = None
  /\ crashed' = "free" /\ rtnl' = t /\ bondList' = FALSE /\ Goto(t, "dead")
  /\ UNCHANGED <<ver, dev, slaves, byslave, mutex, unreg, creator, asked, todo, snap, cpuVars, strays>>

-------------------------------------------------------------------------------
(***************************************************************************)
(* rtnl_unlock and netdev_run_todo.                                        *)
(***************************************************************************)
UnlockRtnl27(t) ==
  /\ ver = "2.6.27" /\ pc[t] = "unlock"
  /\ snap' = [snap EXCEPT ![t] = todo] /\ todo' = <<>>
  /\ rtnl' = None /\ Goto(t, "todo")
  /\ UNCHANGED <<ver, dev, bondVars, mutex, unreg, creator, asked, cpuVars, strays, crashed>>

UnlockRtnl24(t) ==
  /\ ver = "2.6.24" /\ pc[t] = "unlock"
  /\ rtnl' = None /\ Goto(t, "mutex")
  /\ UNCHANGED <<ver, dev, bondVars, mutex, unreg, creator, asked, todo, snap, cpuVars, strays, crashed>>

Mutant_RunTodo24(t) ==  \* no mutex needed if there is nothing to do
  /\ pc[t] = "mutex" /\ (mutex = None \/ todo = <<>>)
  /\ mutex' = (IF mutex = None THEN t ELSE mutex)
  /\ snap' = [snap EXCEPT ![t] = todo] /\ todo' = <<>>
  /\ Goto(t, "todo")
  /\ UNCHANGED <<ver, dev, bondVars, rtnl, unreg, creator, asked, cpuVars, strays, crashed>>

RunTodo24(t) ==
  /\ pc[t] = "mutex" /\ mutex = None
  /\ mutex' = t
  /\ snap' = [snap EXCEPT ![t] = todo] /\ todo' = <<>>
  /\ Goto(t, "todo")
  /\ UNCHANGED <<ver, dev, bondVars, rtnl, unreg, creator, asked, cpuVars, strays, crashed>>

TodoNext(t) ==
  /\ pc[t] = "todo" /\ snap[t] # <<>>
  /\ dev' = [dev EXCEPT ![Head(snap[t])].reg = "unregistered"]
  /\ Goto(t, IF ver = "2.6.24" THEN "wait" ELSE "flush")
  /\ UNCHANGED <<ver, bondVars, rtnl, mutex, unreg, creator, asked, todo, snap, cpuVars, strays, crashed>>

(* The packets of a queue that are not of d, in the same order: the k-th   *)
(* of them is where k of them are at or before.                            *)
Nth(K, k) == CHOOSE i \in K : Cardinality({j \in K : j <= i}) = k

Without(s, d) ==
  LET K == {i \in DOMAIN s : s[i] # d}
  IN  [k \in 1..Cardinality(K) |-> s[Nth(K, k)]]

(* flush_backlog on each processor that is online.  It does not see a      *)
(* packet that is being received, nor the queue of a dead processor.       *)
FlushBacklog(t) ==
  /\ pc[t] = "flush"
  /\ LET d == Head(snap[t]) IN
     /\ backlog' = [c \in Cpu |-> IF c \in alive THEN Without(backlog[c], d) ELSE backlog[c]]
     /\ strays' = strays \cup (IF \E c \in Cpu : busy[c] = d \/ (c \notin alive /\ d \in ToSet(backlog[c]))
                               THEN {d} ELSE {})
  /\ Goto(t, "wait")
  /\ UNCHANGED <<ver, dev, bondVars, rtnl, mutex, unreg, creator, asked, todo, snap, polling, busy, alive, crashed>>

Mutant_Rebroadcast(t) ==  \* only waits
  /\ pc[t] = "wait" /\ dev[Head(snap[t])].ref # 0 /\ rtnl = None
  /\ UNCHANGED netVars

(* netdev_wait_allrefs, once per second *)
Rebroadcast(t) ==
  /\ pc[t] = "wait" /\ dev[Head(snap[t])].ref # 0 /\ rtnl = None
  /\ NotifyUnregister(Head(snap[t]))
  /\ UNCHANGED <<ver, byslave, rtnl, mutex, pc, unreg, creator, asked, snap, cpuVars, strays>>

(* No reference is left: the destructor of the bond is free_netdev.        *)
WaitEnds(t) ==
  /\ pc[t] = "wait" /\ dev[Head(snap[t])].ref = 0
  /\ dev' = IF Head(snap[t]) = Bond THEN [dev EXCEPT ![Bond].reg = "released"] ELSE dev
  /\ snap' = [snap EXCEPT ![t] = Tail(@)] /\ Goto(t, "todo")
  /\ UNCHANGED <<ver, bondVars, rtnl, mutex, unreg, creator, asked, todo, cpuVars, strays, crashed>>

(* netdev_run_todo returns, and a driver frees what it has unregistered    *)
(* (free_netdev).                                                          *)
TodoDone(t) ==
  /\ pc[t] = "todo" /\ snap[t] = <<>>
  /\ mutex' = IF mutex = t THEN None ELSE mutex
  /\ dev' = [d \in Device |-> IF d \in asked[t] THEN [dev[d] EXCEPT !.reg = "released"] ELSE dev[d]]
  /\ crashed' = IF \E d \in asked[t] : dev[d].reg # "unregistered" THEN "free" ELSE crashed
  /\ asked' = [asked EXCEPT ![t] = {}]
  /\ Goto(t, IF creator = t THEN "sysfs" ELSE "idle")
  /\ UNCHANGED <<ver, bondVars, rtnl, unreg, creator, todo, snap, cpuVars, strays>>

-------------------------------------------------------------------------------
(***************************************************************************)
(* The packets.  In 2.6.24 a packet in the backlog holds its device.       *)
(***************************************************************************)
OfPacket(D) == IF ver = "2.6.24" THEN D ELSE dev

(* netif_rx, called by the driver of d *)
NetifRx(c, d) ==
  /\ c \in alive /\ dev[d].up /\ Len(backlog[c]) <= MaxBacklog
  /\ backlog' = [backlog EXCEPT ![c] = Append(@, d)]
  /\ polling' = [polling EXCEPT ![c] = @ \/ backlog[c] = <<>>]
  /\ dev' = OfPacket(DevHold(dev, d))
  /\ UNCHANGED <<ver, bondVars, threadVars, busy, alive, strays, crashed>>

(* process_backlog takes a packet off the queue, or is done.               *)
ProcessBacklog(c) ==
  /\ c \in alive /\ polling[c] /\ busy[c] = None
  /\ IF backlog[c] = <<>>
       THEN polling' = [polling EXCEPT ![c] = FALSE] /\ UNCHANGED <<backlog, busy>>
       ELSE /\ busy' = [busy EXCEPT ![c] = Head(backlog[c])]
            /\ backlog' = [backlog EXCEPT ![c] = Tail(@)]
            /\ UNCHANGED polling
  /\ UNCHANGED <<ver, dev, bondVars, threadVars, alive, strays, crashed>>

(* netif_receive_skb; a protocol may remember the device of the packet,    *)
(* which is the bond's if d is a slave.                                    *)
NetifReceive(c) ==
  LET d      == busy[c]
      target == IF d \in slaves THEN Bond ELSE d
      D      == OfPacket(DevPut(dev, d))
  IN  /\ d # None
      /\ busy' = [busy EXCEPT ![c] = None]
      /\ \/ dev' = D
         \/ /\ dev[target].held = 0 /\ dev[target].reg # "released"
            /\ dev' = [DevHold(D, target) EXCEPT ![target].held = 1]
      /\ UNCHANGED <<ver, bondVars, threadVars, backlog, polling, alive, strays, crashed>>

(* A processor goes offline; it is not back before the end (bound).        *)
CpuDies(c) ==
  /\ c \in alive /\ alive # {c} /\ busy[c] = None
  /\ alive' = alive \ {c}
  /\ UNCHANGED <<ver, dev, bondVars, threadVars, backlog, polling, busy, strays, crashed>>

Mutant_DevCpuCallback(c, to) ==  \* only moves the packets
  LET d    == Head(backlog[c])
      fits == Len(backlog[to]) <= MaxBacklog
  IN  /\ c \notin alive /\ to \in alive /\ backlog[c] # <<>>
      /\ backlog' = [backlog EXCEPT ![c] = Tail(@), ![to] = IF fits THEN Append(@, d) ELSE @]
      /\ dev' = IF fits THEN OfPacket(DevHold(dev, d)) ELSE dev
      /\ strays' = IF ver = "2.6.24" THEN strays \cup {d} ELSE strays
      /\ UNCHANGED <<ver, bondVars, threadVars, polling, busy, alive, crashed>>

(* dev_cpu_callback gives its packets to netif_rx, which may drop them:    *)
(* 2.6.24 holds the device once more and never puts the first reference.   *)
DevCpuCallback(c, to) ==
  LET d    == Head(backlog[c])
      fits == Len(backlog[to]) <= MaxBacklog
  IN  /\ c \notin alive /\ to \in alive /\ backlog[c] # <<>>
      /\ backlog' = [backlog EXCEPT ![c] = Tail(@), ![to] = IF fits THEN Append(@, d) ELSE @]
      /\ polling' = [polling EXCEPT ![to] = @ \/ (fits /\ backlog[to] = <<>>)]
      /\ dev' = IF fits THEN OfPacket(DevHold(dev, d)) ELSE dev
      /\ strays' = IF ver = "2.6.24" THEN strays \cup {d} ELSE strays
      /\ UNCHANGED <<ver, bondVars, threadVars, busy, alive, crashed>>

-------------------------------------------------------------------------------
Operation(t) ==
  \/ CreateBond(t) \/ DestroyBond(t) \/ SysfsFails27(t) \/ SysfsFails24(t)
  \/ \E d \in Nic : UnregisterNic(t, d) \/ EnslaveNic(t, d) \/ OpenFails27(t, d) \/ OpenFails24(t, d)
                    \/ ReleaseNic(t, d) \/ OpenOrClose(t, d)

(* What a thread that has begun goes on with, by itself or for a lock.     *)
Continue(t) ==
  \/ Notify(t) \/ PutLast(t) \/ UnlockRtnl27(t) \/ UnlockRtnl24(t) \/ SysfsDone(t)
  \/ TodoNext(t) \/ FlushBacklog(t) \/ WaitEnds(t) \/ TodoDone(t)

Softirq(c) == ProcessBacklog(c) \/ NetifReceive(c) \/ \E to \in Cpu : DevCpuCallback(c, to)

(* Nothing is looked at after a BUG_ON.                                    *)
NetNext ==
  /\ crashed = "no"
  /\ \/ \E t \in Thread : Operation(t) \/ Continue(t) \/ RunTodo24(t) \/ Rebroadcast(t)
     \/ \E c \in Cpu : Softirq(c)
     \/ \E c \in Irq : CpuDies(c) \/ \E d \in Talker : NetifRx(c, d)

(* The kernel goes on with what it has begun; a semaphore that is free     *)
(* again and again is had in the end, the waiters being served in turn.    *)
NetFairness ==
  /\ \A t \in Thread : WF_netVars(Continue(t)) /\ SF_netVars(RunTodo24(t)) /\ SF_netVars(Rebroadcast(t))
  /\ \A c \in Cpu : WF_netVars(Softirq(c))

NetSpec == NetInit /\ [][NetNext]_netVars /\ NetFairness

-------------------------------------------------------------------------------
(***************************************************************************)
(* Properties.                                                             *)
(***************************************************************************)
(* Who holds a device: the places of its packets are counted.              *)
Receiving(b, d) == {c \in Cpu : b[c] = d}
Queued(q, d) == {p \in Cpu \X (1..MaxBacklog + 1) : p[2] <= Len(q[p[1]]) /\ q[p[1]][p[2]] = d}

Own(d) == dev[d].reg = "registered" \/ \E t \in Thread : unreg[t] = d

Holders(d) ==
  dev[d].held + (IF Own(d) THEN 1 ELSE 0) + (IF d = Bond THEN Cardinality(slaves) ELSE 0)
    + (IF ver = "2.6.24" THEN Cardinality(Receiving(busy, d)) + Cardinality(Queued(backlog, d)) ELSE 0)

(* The reference count of a device is what its registration, its slaves,   *)
(* the protocols and, in 2.6.24, the packets hold of it, however           *)
(* unregistrations, slaves and packets interleave (dev_hold, dev_put,      *)
(* netdev_set_master, netif_rx, rollback_registered); excepted are those   *)
(* whose packets are lost sight of when a processor dies or is receiving,  *)
(* and the bond of 2.6.24 after an enslave whose slave would not open.     *)
RefsExact == \A d \in Device \ strays : dev[d].ref = Holders(d)

(* A device that is freed is nobody's slave, nobody's master, on no list   *)
(* and in no queue, and nobody holds it, also if another thread has worked *)
(* off the list of devices (netdev_run_todo, free_netdev).  It says        *)
(* nothing of the pointer bond_create keeps without rtnl.                  *)
NoDangling ==
  \A d \in Device \ strays : dev[d].reg = "released" =>
    /\ dev[d].ref = 0
    /\ d \notin slaves /\ (d = Bond => slaves = {} /\ ~bondList)
    /\ \A c \in Cpu : busy[c] # d /\ d \notin ToSet(backlog[c])

(* Whoever takes rtnl finds the bond and all its slaves registered: an     *)
(* unregistration is followed by the bonding driver before rtnl is         *)
(* released (bond_netdev_event).                                           *)
SlavesListed == rtnl = None /\ slaves # {} => \A d \in slaves \cup {Bond} : Listed(d)

(* The BUG_ONs of rollback_registered, netdev_run_todo and free_netdev are *)
(* hit in two cases only, both where the sysfs entry of a new bond fails   *)
(* and bond_create takes the bond back: in 2.6.24 always, as it frees a    *)
(* device that is registered, and in 2.6.27 if another thread has          *)
(* destroyed the bond since bond_create released rtnl.                     *)
NoBugOn ==
  \/ crashed = "no"
  \/ \E t \in Thread :
       /\ pc[t] = "dead" /\ creator = t
       /\ \/ ver = "2.6.24" /\ crashed = "free"
          \/ ver = "2.6.27" /\ crashed = "rollback" /\ ~Listed(Bond)

(* As long as there are packets in the backlog of a processor, it is       *)
(* polled: no packet is left behind by a poll that ends as it arrives, or  *)
(* by a flush (netif_rx, process_backlog, flush_backlog).                  *)
BacklogPolled == \A c \in alive : backlog[c] # <<>> => polling[c]

(* An unregistration ends, whoever holds the device, unless packets or a   *)
(* reference were lost sight of: again and again, and as a device lives    *)
(* once for good, no device is between its unregistration and its end      *)
(* (netdev_wait_allrefs).                                                  *)
UnregisterEnds ==
  []<>(\/ \A d \in Device : dev[d].reg \notin {"unregistering", "unregistered"}
       \/ strays # {} \/ crashed # "no")

-------------------------------------------------------------------------------
(***************************************************************************)
(* What the properties rest on.                                            *)
(***************************************************************************)
Working == {"todo", "flush", "wait"}  \* in netdev_run_todo, with a list of its own

NetDevice == [reg : {"uninitialized", "registered", "unregistering", "unregistered", "released"},
              up : BOOLEAN, ref : Int, held : {0, 1}]
Devices == [Device -> NetDevice]
Queues == {q \in [Cpu -> Seq(Nic)] : \A c \in Cpu : Len(q[c]) <= MaxBacklog + 1}

(* The type invariant.                                                     *)
NetTypeOK ==
  /\ ver \in {"2.6.24", "2.6.27"} /\ crashed \in {"no", "rollback", "free"} /\ dev \in Devices
  /\ slaves \in SUBSET Nic /\ IsFiniteSet(slaves) /\ byslave \in BOOLEAN /\ bondList \in BOOLEAN
  /\ {rtnl, mutex, creator} \subseteq Thread \cup {None}
  /\ pc \in [Thread -> {"idle", "sysfs", "notify", "put", "unlock", "mutex", "dead"} \cup Working]
  /\ unreg \in [Thread -> Device \cup {None}] /\ asked \in [Thread -> SUBSET Nic]
  /\ todo \in Seq(Device) /\ snap \in [Thread -> Seq(Device)]
  /\ backlog \in Queues /\ polling \in [Cpu -> BOOLEAN] /\ busy \in [Cpu -> Nic \cup {None}]
  /\ alive \in SUBSET Cpu /\ strays \in SUBSET Device

(* Who holds a lock is where the lock is held.                             *)
LocksInv ==
  \A t \in Thread :
    /\ rtnl = t <=> pc[t] \in {"notify", "put", "unlock", "dead"}
    /\ mutex = t <=> ver = "2.6.24" /\ pc[t] \in Working
    /\ ver = "2.6.24" => pc[t] # "flush"
    /\ ver = "2.6.27" => pc[t] # "mutex"
    /\ pc[t] = "sysfs" => creator = t
    /\ creator = t => pc[t] \in {"sysfs", "mutex", "dead"} \cup Working
    /\ unreg[t] # None <=> pc[t] \in {"notify", "put"}
    /\ unreg[t] # None => dev[unreg[t]].reg = "unregistering"
    /\ pc[t] = "dead" => crashed # "no"

(* A device that is unregistered is in one place: with the thread that     *)
(* unregisters it, on net_todo_list, or on the list of one thread.         *)
Distinct(s) == \A i, j \in DOMAIN s : s[i] = s[j] => i = j

ListsInv ==
  /\ Distinct(todo) /\ \A d \in ToSet(todo) : dev[d].reg = "unregistering"
  /\ \A t \in Thread :
       /\ Distinct(snap[t])
       /\ snap[t] # <<>> => pc[t] \in Working
       /\ pc[t] \in {"flush", "wait"} => snap[t] # <<>>
       /\ \A d \in ToSet(snap[t]) :
            dev[d].reg = IF pc[t] \in {"flush", "wait"} /\ d = Head(snap[t]) THEN "unregistered" ELSE "unregistering"
       /\ ToSet(snap[t]) \cap ToSet(todo) = {}
       /\ \A u \in Thread : /\ u # t => ToSet(snap[t]) \cap ToSet(snap[u]) = {}
                            /\ unreg[u] \notin ToSet(todo) \cup ToSet(snap[t])

(* What a driver has to free is on its way, and on no list of another      *)
(* thread that could keep it longer than the driver waits.                 *)
AskedInv ==
  \A t \in Thread : \A d \in asked[t] :
    /\ dev[d].reg \in {"unregistering", "unregistered"}
    /\ pc[t] \in {"notify", "put", "unlock", "mutex"} \cup Working
    /\ pc[t] \in {"notify", "put"} => unreg[t] = d
    /\ pc[t] \in {"unlock", "mutex"} =>
         d \in ToSet(todo) \/ dev[d].reg = "unregistered" \/ \E u \in Thread : mutex = u /\ d \in ToSet(snap[u])
    /\ pc[t] \in Working => d \in ToSet(snap[t]) \/ dev[d].reg = "unregistered"
    /\ \A u \in Thread \ {t} : d \notin asked[u] /\ unreg[u] # d /\ (ver = "2.6.27" => d \notin ToSet(snap[u]))
    /\ ver = "2.6.27" /\ d \in ToSet(todo) => rtnl = t

(* Whoever unregisters the bond or a slave has yet to tell the bond.       *)
Told(d) == Listed(d) \/ \E t \in Thread : pc[t] = "notify" /\ unreg[t] = d

SlavesInv ==
  /\ \A d \in slaves : Told(d)
  /\ slaves # {} => Told(Bond)
  /\ bondList => Listed(Bond)
  /\ creator # None => dev[Bond].reg # "uninitialized"
  /\ \A d \in Device : dev[d].up => Listed(d)
  /\ dev[Bond].reg = "uninitialized" => dev[Bond].held = 0 /\ slaves = {}
  /\ \A d \in Nic : dev[d].reg # "uninitialized"

(* A device that is past its list is held by nobody, and in 2.6.27 one     *)
(* that is flushed has no packets.                                         *)
LeftInv ==
  \A d \in Device \ strays :
    dev[d].reg \in {"unregistered", "released"} /\ (\A t \in Thread : d \notin ToSet(snap[t])) => dev[d].ref = 0

FlushedInv ==
  \A d \in Device \ strays :
    ver = "2.6.27" /\ dev[d].reg \in {"unregistered", "released"}
      /\ (\A t \in Thread : ~(pc[t] = "flush" /\ d = Head(snap[t])))
    => Receiving(busy, d) = {} /\ Queued(backlog, d) = {}

NetInv ==
  /\ NetTypeOK /\ LocksInv /\ ListsInv /\ AskedInv /\ SlavesInv
  /\ RefsExact /\ LeftInv /\ FlushedInv /\ NoBugOn
==============================================================================
