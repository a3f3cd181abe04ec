---------------------------- MODULE DeviceSettings ---------------------------
(***************************************************************************)
(* What a bonding device sets on the devices it enslaves, and takes back:  *)
(* the receive mode, the MAC address, the MTU and the VLANs (bond_main.c   *)
(* and dev.c of both kernels).  The receive mode is any one of the         *)
(* promiscuity, the allmulti count and a multicast address, which are      *)
(* handled alike: each is a count of users on every device, and the bond   *)
(* is one of the users of its slaves'.                                     *)
(*                                                                         *)
(* All of this runs under rtnl, so that an operation is one step.  Which   *)
(* slave is the best one is the business of module Bonding and left open.  *)
(* Parameters that never change are variables, to check them in one run;   *)
(* a behaviour looks at one of the settings.                               *)
(***************************************************************************)
EXTENDS SlaveList

CONSTANTS
  OtherMac,   \* an address that is no device's own; the own address of a device is written as the device
  UserMax,    \* bound: users of the receive mode of the bond
  Mtus,       \* the values of the MTU
  Challenged  \* the devices with NETIF_F_VLAN_CHALLENGED; the others filter VLANs in hardware

ASSUME SettingsAssumption ==
  /\ OtherMac \notin Dev \cup {NoSlave}
  /\ UserMax \in Nat /\ Mtus \subseteq Nat /\ Mtus # {}
  /\ Challenged \subseteq Dev

VARIABLES
  setting,  \* the setting that is looked at, "rx", "mac", "mtu" or "vlan"
  port,     \* the kernel
  bmode,    \* bond->params.mode
  fom,      \* bond->params.fail_over_mac
  list,     \* the list of slaves
  act,      \* bond->curr_active_slave
  isUp,     \* IFF_UP of the bond
  users,    \* dev->promiscuity, dev->allmulti or dmi_users of the bond
  shown,    \* the copy the bond has pushed: bond->flags, bond->mc_list
  others,   \* users of the same on each device, the bond not counted
  count,    \* dev->promiscuity, dev->allmulti or dmi_users of each device
  mac,      \* dev->dev_addr of each device
  perm,     \* slave->perm_hwaddr
  bondMac,  \* dev_addr of the bond, NoSlave when it is zero
  mtu,      \* dev->mtu of each device
  joined,   \* the MTU each slave had when it was enslaved
  bondMtu,  \* dev->mtu of the bond
  hasVid,   \* is the VLAN on bond->vlan_list?  Bound: one VLAN
  filter,   \* does the filter of each device let it pass?
  blocked,  \* NETIF_F_VLAN_CHALLENGED of the bond: no VLAN may be added
  lost      \* has the code lost track of what it has set?

fixedVars == <<setting, port, bmode, fom>>
rxVars    == <<users, shown, others, count>>
macVars   == <<mac, perm, bondMac>>
mtuVars   == <<mtu, joined, bondMtu>>
vlanVars  == <<hasVid, filter, blocked>>
setVars   == <<fixedVars, list, act, isUp, rxVars, macVars, mtuVars, vlanVars, lost>>

SettingsTypeOK ==
  /\ bmode \in {"activebackup", "hoolock", "trunk"} /\ fom \in {"none", "active", "follow"}
  /\ act \in ToSet(list) \cup {NoSlave} /\ Once(list)
  /\ users \in 0..UserMax /\ others \in [Dev -> 0..1] /\ count \in [Dev -> Int]
  /\ {isUp, shown, lost, hasVid, blocked} \subseteq BOOLEAN /\ filter \in [Dev -> BOOLEAN]
  /\ {mac[d] : d \in Dev} \subseteq Dev \cup {OtherMac} /\ mtu \in [Dev -> Mtus]

SettingsInit ==
  /\ setting \in {"rx", "mac", "mtu", "vlan"} /\ port \in {"2.6.24", "2.6.27"}
  /\ bmode \in {"activebackup", "hoolock", "trunk"}
  /\ fom \in {"none", "active", "follow"}
  /\ fom # "none" => setting = "mac"
  /\ setting = "mac" => bmode = "activebackup"  \* the other modes are like it with "none"
  /\ setting = "mtu" => bmode = "trunk"         \* the mode has no effect
  /\ fom = "follow" => port = "2.6.27"
  /\ list = <<>> /\ act = NoSlave /\ isUp = TRUE
  /\ users = 0 /\ shown = FALSE /\ others = [d \in Dev |-> 0] /\ count = [d \in Dev |-> 0]
  /\ mac = [d \in Dev |-> d] /\ perm = mac /\ bondMac = NoSlave
  /\ bondMtu \in Mtus /\ mtu = [d \in Dev |-> bondMtu] /\ joined = mtu
  /\ hasVid = FALSE /\ filter = [d \in Dev |-> FALSE] /\ blocked = TRUE
  /\ lost = FALSE

-------------------------------------------------------------------------------
(***************************************************************************)
(* The receive mode.                                                       *)
(***************************************************************************)
(* The macro USES_PRIMARY: 2.6.24 lacks the hoolock mode in it.            *)
UsesPrimary24 == bmode = "activebackup"
UsesPrimary27 == bmode \in {"activebackup", "hoolock"}
UsesPrimary   == IF port = "2.6.24" THEN UsesPrimary24 ELSE UsesPrimary27

(* dev_set_promiscuity, dev_set_allmulti, dev_mc_add and dev_mc_delete on  *)
(* the devices of S.  Bound: no count touches the roof.                    *)
Add(cnt, S, inc) == [d \in Dev |-> IF d \in S THEN cnt[d] + inc ELSE cnt[d]]

(* The slaves bond_set_promiscuity, bond_set_allmulti, bond_mc_add and     *)
(* bond_mc_delete push a change to.                                        *)
Pushed24 == IF UsesPrimary24 THEN {act} \ {NoSlave} ELSE ToSet(list)
Pushed27 == IF UsesPrimary27 THEN {act} \ {NoSlave} ELSE ToSet(list)
Pushed   == IF port = "2.6.24" THEN Pushed24 ELSE Pushed27

(* bond_set_multicast_list pushes what has changed since the last time;    *)
(* __dev_set_rx_mode does not call it for a bond that is down.             *)
SetMulticastList(cnt, on) ==
  CASE on /\ ~shown -> Add(cnt, Pushed, 1)
    [] ~on /\ shown -> Add(cnt, Pushed, -1)
    [] OTHER        -> cnt

(* bond_mc_swap *)
McSwap24(cnt, new, old) ==
  IF UsesPrimary24 /\ users > 0 THEN Add(Add(cnt, {old}, -1), {new}, 1) ELSE cnt

McSwap27(cnt, new, old) ==
  IF UsesPrimary27 /\ users > 0 THEN Add(Add(cnt, {old}, -1), {new}, 1) ELSE cnt

McSwap(cnt, new, old) == IF port = "2.6.24" THEN McSwap24(cnt, new, old) ELSE McSwap27(cnt, new, old)

(* The part of bond_enslave, and of bond_release and bond_release_all.     *)
EnslaveShare(cnt, d) == IF ~UsesPrimary /\ users > 0 THEN Add(cnt, {d}, 1) ELSE cnt

Mutant_ReleaseShare(cnt, S) == IF users > 0 THEN Add(cnt, S, -1) ELSE cnt

ReleaseShare(cnt, S) == IF ~UsesPrimary /\ users > 0 THEN Add(cnt, S, -1) ELSE cnt

-------------------------------------------------------------------------------
(***************************************************************************)
(* The address.                                                            *)
(***************************************************************************)
Mutant_FailOverMac27(addr, new, old) ==  \* nothing to do without an old active slave
  IF new = NoSlave \/ old = NoSlave \/ bmode # "activebackup" THEN addr
  ELSE CASE fom = "none"   -> addr
         [] fom = "active" -> [addr EXCEPT !.bond = addr.dev[new]]
         [] fom = "follow" -> [addr EXCEPT !.dev[new] = addr.dev[old], !.dev[old] = addr.dev[new]]

(* bond_do_fail_over_mac, which the active-backup mode calls; in 2.6.24    *)
(* it is an assignment in bond_change_active_slave.                        *)
FailOverMac24(addr, new, old) ==
  IF new \notin {NoSlave, old} /\ bmode = "activebackup" /\ fom # "none"
    THEN [addr EXCEPT !.bond = addr.dev[new]] ELSE addr

FailOverMac27(addr, new, old) ==
  IF new \in {NoSlave, old} \/ bmode # "activebackup" THEN addr
  ELSE CASE fom = "none"   -> addr
         [] fom = "active" -> [addr EXCEPT !.bond = addr.dev[new]]
         [] fom = "follow" /\ old = NoSlave -> [addr EXCEPT !.dev[new] = addr.bond]
         [] fom = "follow" /\ old # NoSlave ->
              [addr EXCEPT !.dev[new] = addr.dev[old], !.dev[old] = addr.dev[new]]

FailOverMac(addr, new, old) ==
  IF port = "2.6.24" THEN FailOverMac24(addr, new, old) ELSE FailOverMac27(addr, new, old)

Addresses == [dev |-> mac, bond |-> bondMac]

SetAddresses(addr) ==
  IF setting = "mac" THEN mac' = addr.dev /\ bondMac' = addr.bond ELSE UNCHANGED <<mac, bondMac>>

(* bond_change_active_slave, on what is already changed to cnt and addr.   *)
ChangeAct(cnt, addr, new, old) ==
  /\ act' = new
  /\ count' = IF new = old THEN cnt ELSE McSwap(cnt, new, old)
  /\ SetAddresses(FailOverMac(addr, new, old))

-------------------------------------------------------------------------------
(***************************************************************************)
(* bond_for_each_slave_from_to over the slaves to unwind, up to the one    *)
(* that has refused: "pos != stop->next" ends the loop.  After the last    *)
(* slave comes the first, where the loop begins: it then visits nobody.    *)
(***************************************************************************)
Before(s) == {list[i] : i \in 1..(CHOOSE i \in 1..Len(list) : list[i] = s) - 1}

Mutant_Unwound(s) == IF s = Last(list) THEN {} ELSE (Before(s) \ {list[1]}) \cup {s}

Unwound(s) == IF s = Last(list) THEN {} ELSE Before(s) \cup {s}

(* bond_set_mac_address and bond_change_mtu: every slave in turn is set to *)
(* new, until one refuses; then the unwound ones are set to old.           *)
SetAll(f, new, old, refuser) ==
  [d \in Dev |->
     CASE refuser = NoSlave -> IF d \in ToSet(list) THEN new ELSE f[d]
       [] refuser # NoSlave -> IF d \in Unwound(refuser) THEN old
                               ELSE IF d \in Before(refuser) THEN new ELSE f[d]]

(* The last of several slaves refuses: the others keep the new value.      *)
Stranded(refuser) == refuser # NoSlave /\ refuser = Last(list) /\ Len(list) > 1

-------------------------------------------------------------------------------
(***************************************************************************)
(* The VLANs.  The VLAN code, which is not part of the repository, adds no *)
(* VLAN to a device that is challenged.                                    *)
(***************************************************************************)
HasChallenged(l) == ToSet(l) \cap Challenged # {}   \* bond_has_challenged_slaves

(* bond_del_vlans_from_slave for the devices of S *)
UnfilterVlans(S) == filter' = [d \in Dev |-> filter[d] /\ ~(d \in S /\ hasVid)]

Mutant_UnblockVlans == blocked' = IF list' = <<>> THEN blocked \/ ~hasVid ELSE blocked

(* bond_release and bond_release_all, with the slaves gone from the list.  *)
UnblockVlans == blocked' = IF list' = <<>> THEN blocked \/ ~hasVid ELSE blocked /\ HasChallenged(list')

(* bond_add_vlans_on_slave *)
FilterVlans(d) == filter' = [filter EXCEPT ![d] = @ \/ hasVid]

AddVlan == hasVid' = TRUE
DelVlan == hasVid' = FALSE /\ blocked' = (blocked \/ list = <<>>)

(* bond_vlan_rx_add_vid *)
AddVid ==
  /\ setting = "vlan" /\ ~hasVid /\ ~blocked
  /\ AddVlan
  /\ filter' = [d \in Dev |-> filter[d] \/ d \in ToSet(list)]
  /\ UNCHANGED <<fixedVars, list, act, isUp, rxVars, macVars, mtuVars, blocked, lost>>

(* bond_vlan_rx_kill_vid *)
KillVid ==
  /\ setting = "vlan" /\ hasVid
  /\ DelVlan
  /\ filter' = [d \in Dev |-> filter[d] /\ d \notin ToSet(list)]
  /\ UNCHANGED <<fixedVars, list, act, isUp, rxVars, macVars, mtuVars, lost>>

-------------------------------------------------------------------------------
(***************************************************************************)
(* Slaves come and go.                                                     *)
(***************************************************************************)
(* Whom bond_enslave may leave as the active slave.                        *)
Selected(d) == IF bmode = "activebackup" THEN ToSet(list) \cup {d, NoSlave} ELSE {IF act = NoSlave THEN d ELSE act}

(* bond_enslave up to the symlinks, own being the address it leaves the    *)
(* device with.  The application has given the bond an address.            *)
Joins(d, own) ==
  /\ d \notin ToSet(list)
  /\ setting = "mac" /\ fom # "active" => bondMac # NoSlave
  /\ setting = "vlan" => ~(d \in Challenged /\ hasVid)
  /\ list' = Attach(list, d)
  /\ perm' = [perm EXCEPT ![d] = mac[d]]
  /\ joined' = [joined EXCEPT ![d] = mtu[d]]
  /\ FilterVlans(d)
  /\ \E new \in Selected(d) :
       ChangeAct(EnslaveShare(count, d),
                 IF fom = "none" THEN [Addresses EXCEPT !.dev[d] = own] ELSE Addresses, new, act)
  /\ UNCHANGED <<fixedVars, isUp, users, shown, others, mtu, bondMtu, hasVid>>

Enslave(d) ==
  /\ Joins(d, bondMac)
  /\ blocked' = IF d \in Challenged THEN TRUE ELSE blocked /\ list # <<>>
  /\ UNCHANGED lost

(* The symlinks fail: the slave is freed where it is on the list, and its  *)
(* address and the features of the bond are taken back, but not what was   *)
(* pushed.  An enslave that fails before it pushes anything takes back all *)
(* and is no step; bound: no count touches the roof, so no push fails.     *)
EnslaveFails(d) == Joins(d, mac[d]) /\ lost' = TRUE /\ UNCHANGED blocked

Mutant_Restored(addr, d) == IF fom # "none" THEN addr ELSE [addr EXCEPT !.dev[d] = perm[d]]

Restored(addr, d) == IF fom = "active" THEN addr ELSE [addr EXCEPT !.dev[d] = perm[d]]

(* bond_release.  In trunk modes curr_active_slave is not what the shares  *)
(* go by, but it moves all the same.                                       *)
Release(d) ==
  /\ d \in ToSet(list)
  /\ list' = Detach(list, d)
  /\ \E new \in IF act = d THEN (ToSet(list) \ {d}) \cup {NoSlave} ELSE {act} :
       LET old  == IF act = d THEN NoSlave ELSE act
           cnt  == IF act = d THEN McSwap(count, NoSlave, d) ELSE count
           addr == FailOverMac(Addresses, new, old)
           gone == IF list' = <<>> THEN [addr EXCEPT !.bond = NoSlave] ELSE addr
       IN  /\ act' = new
           /\ count' = ReleaseShare(IF new = old THEN cnt ELSE McSwap(cnt, new, old), {d})
           /\ SetAddresses(Restored(gone, d))
  /\ UnfilterVlans({d}) /\ UnblockVlans
  /\ UNCHANGED <<fixedVars, isUp, users, shown, others, perm, mtuVars, hasVid, lost>>

(* bond_release_all gives back the addresses only where fail_over_mac is   *)
(* "none": with "follow" the devices keep what they have swapped.          *)
ReleaseAll ==
  /\ list # <<>>
  /\ list' = <<>> /\ act' = NoSlave
  /\ count' = ReleaseShare(McSwap(count, NoSlave, act), ToSet(list))
  /\ SetAddresses([dev  |-> IF fom = "none" THEN [d \in Dev |-> IF d \in ToSet(list) THEN perm[d] ELSE mac[d]]
                           ELSE mac,
                   bond |-> NoSlave])
  /\ lost' = (lost \/ \E s \in ToSet(list) : fom # "none" /\ mac[s] # perm[s])
  /\ UnfilterVlans(ToSet(list)) /\ UnblockVlans
  /\ UNCHANGED <<fixedVars, isUp, users, shown, others, perm, mtuVars, hasVid>>

(* A link monitor or an ioctl changes the active slave.                    *)
ActiveChanges(new) ==
  /\ new \in ToSet(list) \cup {NoSlave} /\ new # act
  /\ ChangeAct(count, Addresses, new, act)
  /\ UNCHANGED <<fixedVars, list, isUp, users, shown, others, perm, mtuVars, vlanVars, lost>>

-------------------------------------------------------------------------------
(***************************************************************************)
(* The administrator and the users of the devices.                         *)
(***************************************************************************)
(* dev_open and dev_close of the bond, both through dev_change_flags.      *)
OpenClose ==
  /\ setting = "rx"
  /\ isUp' = ~isUp
  /\ IF isUp THEN UNCHANGED <<shown, count>>
             ELSE shown' = (users > 0) /\ count' = SetMulticastList(count, users > 0)
  /\ UNCHANGED <<fixedVars, list, act, users, others, macVars, mtuVars, vlanVars, lost>>

(* dev_set_promiscuity, dev_set_allmulti or dev_mc_add on the bond.  A     *)
(* change made while the bond is down is pushed when it is opened, also to *)
(* the slaves bond_enslave or bond_mc_swap have given it to meanwhile.     *)
BondUser(n) ==
  /\ setting = "rx"
  /\ n \in {users - 1, users + 1} \cap (0..UserMax)
  /\ users' = n
  /\ IF isUp THEN shown' = (n > 0) /\ count' = SetMulticastList(count, n > 0)
             ELSE UNCHANGED <<shown, count>>
  /\ lost' = (lost \/ (~isUp /\ shown # (n > 0)))
  /\ UNCHANGED <<fixedVars, list, act, isUp, others, macVars, mtuVars, vlanVars>>

(* Somebody else uses the device itself.                                   *)
DeviceUser(d) ==
  /\ setting = "rx"
  /\ others' = [others EXCEPT ![d] = 1 - @]
  /\ count' = Add(count, {d}, others'[d] - others[d])
  /\ UNCHANGED <<fixedVars, list, act, isUp, users, shown, macVars, mtuVars, vlanVars, lost>>

(* bond_sethwaddr, as ifenslave uses it: before it enslaves the first.     *)
SetHwAddr(d) ==
  /\ setting = "mac" /\ list = <<>> /\ bondMac = NoSlave /\ fom # "active"
  /\ bondMac' = mac[d]
  /\ UNCHANGED <<fixedVars, list, act, isUp, rxVars, mac, perm, mtuVars, vlanVars, lost>>

(* bond_set_mac_address; a device may refuse.                              *)
SetMacAddress(refuser) ==
  /\ setting = "mac" /\ fom # "active" /\ bondMac # NoSlave
  /\ refuser \in ToSet(list) \cup {NoSlave}
  /\ mac' = SetAll(mac, OtherMac, bondMac, refuser)
  /\ bondMac' = IF refuser = NoSlave THEN OtherMac ELSE bondMac
  /\ lost' = (lost \/ Stranded(refuser))
  /\ UNCHANGED <<fixedVars, list, act, isUp, rxVars, perm, mtuVars, vlanVars>>

(* bond_change_mtu.  dev_set_mtu asks the driver only for a new value.     *)
ChangeMtu(m, refuser) ==
  /\ setting = "mtu"
  /\ refuser \in {s \in ToSet(list) : mtu[s] # m} \cup {NoSlave}
  /\ mtu' = SetAll(mtu, m, bondMtu, refuser)
  /\ bondMtu' = IF refuser = NoSlave THEN m ELSE bondMtu
  /\ lost' = (lost \/ Stranded(refuser))
  /\ UNCHANGED <<fixedVars, list, act, isUp, rxVars, macVars, joined, vlanVars>>

-------------------------------------------------------------------------------
(***************************************************************************)
(* The operations of 2.6.24.  Those that are not above do the same in both *)
(* kernels, what they call aside.                                          *)
(***************************************************************************)
Enslave24(d)       == port = "2.6.24" /\ (Enslave(d) \/ EnslaveFails(d))
Release24(d)       == port = "2.6.24" /\ Release(d)
ReleaseAll24       == port = "2.6.24" /\ ReleaseAll
ActiveChanges24(s) == port = "2.6.24" /\ ActiveChanges(s)
OpenClose24        == port = "2.6.24" /\ OpenClose
BondUser24(n)      == port = "2.6.24" /\ BondUser(n)
DeviceUser24(d)    == port = "2.6.24" /\ DeviceUser(d)
SetHwAddr24(d)     == port = "2.6.24" /\ SetHwAddr(d)
SetMacAddress24(r) == port = "2.6.24" /\ SetMacAddress(r)
ChangeMtu24(m, r)  == port = "2.6.24" /\ ChangeMtu(m, r)
AddVid24           == port = "2.6.24" /\ AddVid
KillVid24          == port = "2.6.24" /\ KillVid

(* Nothing is looked at once the code has lost track.                      *)
SettingsNext ==
  /\ ~lost
  /\ \/ \E d \in Dev : Enslave24(d) \/ Release24(d) \/ DeviceUser24(d) \/ SetHwAddr24(d)
     \/ \E s \in Dev \cup {NoSlave} : ActiveChanges24(s) \/ SetMacAddress24(s)
     \/ ReleaseAll24 \/ OpenClose24 \/ AddVid24 \/ KillVid24
     \/ \E n \in 0..UserMax : BondUser24(n)
     \/ \E m \in Mtus, r \in Dev \cup {NoSlave} : ChangeMtu24(m, r)
     \/ /\ port = "2.6.27"
        /\ \/ \E d \in Dev : Enslave(d) \/ EnslaveFails(d) \/ Release(d) \/ DeviceUser(d) \/ SetHwAddr(d)
           \/ \E s \in Dev \cup {NoSlave} : ActiveChanges(s) \/ SetMacAddress(s)
           \/ ReleaseAll \/ OpenClose \/ AddVid \/ KillVid
           \/ \E n \in 0..UserMax : BondUser(n)
           \/ \E m \in Mtus, r \in Dev \cup {NoSlave} : ChangeMtu(m, r)

SettingsSpec == SettingsInit /\ [][SettingsNext]_setVars

-------------------------------------------------------------------------------
(***************************************************************************)
(* Properties.  None says anything once the code has lost track, which it  *)
(* does where bond_enslave fails at the symlinks, and in the cases named.  *)
(***************************************************************************)
(* A device counts its other users, and the bond once if the bond has a    *)
(* user and the device is one it pushes to: whatever the order in which    *)
(* slaves come and go, the active slave changes and the bond is opened, a  *)
(* device is never left promiscuous and none is forgotten                  *)
(* (bond_set_promiscuity, bond_mc_swap, bond_enslave, bond_release).       *)
(* Excepted is a change that is made while the bond is down.               *)
SharesExact ==
  setting = "rx" /\ ~lost =>
    \A d \in Dev : count[d] = others[d] + (IF users > 0 /\ d \in Pushed THEN 1 ELSE 0)

(* The bond and its slaves have one address, in the way fail_over_mac      *)
(* says, also after a change of address that a slave has refused, unless   *)
(* the one that refused was the last (bond_set_mac_address).               *)
MacsAgree ==
  setting = "mac" /\ ~lost =>
    CASE fom = "none"   -> \A s \in ToSet(list) : mac[s] = bondMac
      [] fom = "active" -> act # NoSlave => bondMac = mac[act]
      [] fom = "follow" -> act # NoSlave => mac[act] = bondMac

(* A device that is no slave has the address it came with, unless it was   *)
(* swapped and bond_release_all has let it go (bond_release).              *)
OwnMacBack == ~lost => \A d \in Dev \ ToSet(list) : mac[d] = d

(* A change of the MTU that a slave refuses is undone: no slave has        *)
(* another MTU than the bond's or the one it was enslaved with, unless the *)
(* one that refused was the last (bond_change_mtu).                        *)
MtuUndone == setting = "mtu" /\ ~lost => \A s \in ToSet(list) : mtu[s] \in {bondMtu, joined[s]}

(* VLANs are neither let in beside a slave that cannot bear them nor kept  *)
(* out without reason, and the filter of a device knows the VLANs of the   *)
(* bond as long as it is a slave, and none before and after (bond_enslave, *)
(* bond_release, bond_vlan_rx_add_vid, bond_vlan_rx_kill_vid).             *)
VlansFollow ==
  setting = "vlan" /\ ~lost =>
    /\ blocked <=> HasChallenged(list) \/ (list = <<>> /\ ~hasVid)
    /\ hasVid => ~HasChallenged(list)
    /\ \A d \in Dev : filter[d] <=> hasVid /\ d \in ToSet(list)
==============================================================================
