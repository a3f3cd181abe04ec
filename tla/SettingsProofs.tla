---------------------------- MODULE SettingsProofs -----------------------------
(***************************************************************************)
(* Whatever the order of enslaving, releasing, failovers and changes of    *)
(* the bond, for any set of devices and either kernel, what the bond has   *)
(* set on its devices is what it believes to have set.                     *)
(***************************************************************************)
EXTENDS DeviceSettings, SlaveListProofs

(* The list of slaves and the active one.                                  *)
ListInv == /\ list \in Seq(Dev) /\ Once(list)
           /\ act \in ToSet(list) \cup {NoSlave}

(* What never changes.                                                     *)
ParamInv == /\ setting = "mac" => bmode = "activebackup"
            /\ fom \in {"none", "active", "follow"}
            /\ fom = "follow" => port = "2.6.27"

(* The bond has pushed what it should have, and the devices count it.      *)
SharesInv == /\ users \in Nat /\ others \in [Dev -> Int] /\ count \in [Dev -> Int]
             /\ shown \in BOOLEAN
             /\ setting = "rx" /\ ~lost => (shown <=> users > 0)
             /\ SharesExact

(* A device that has become a slave had its own address.                   *)
Mac == Dev \cup {OtherMac, NoSlave}

MacsInv == /\ mac \in [Dev -> Mac] /\ perm \in [Dev -> Mac] /\ bondMac \in Mac
           /\ ~lost => \A s \in ToSet(list) : perm[s] = s
           /\ setting # "mac" \/ fom = "active" => mac = [d \in Dev |-> d]
           /\ MacsAgree /\ OwnMacBack

MtuInv == /\ mtu \in [Dev -> Nat] /\ joined \in [Dev -> Nat] /\ bondMtu \in Nat
          /\ MtuUndone

VlanInv == /\ filter \in [Dev -> BOOLEAN] /\ hasVid \in BOOLEAN /\ blocked \in BOOLEAN
           /\ VlansFollow

-------------------------------------------------------------------------------
(* The actions, without the kernel that makes them.                        *)
Step == \/ \E d \in Dev : Enslave(d) \/ EnslaveFails(d) \/ Release(d) \/ DeviceUser(d) \/ SetHwAddr(d)
        \/ \E s \in Dev \cup {NoSlave} : ActiveChanges(s) \/ SetMacAddress(s)
        \/ ReleaseAll \/ OpenClose \/ AddVid \/ KillVid
        \/ \E n \in 0..UserMax : BondUser(n)
        \/ \E m \in Mtus, r \in Dev \cup {NoSlave} : ChangeMtu(m, r)

(* Both kernels make no other steps.                                       *)
LEMMA NextIsStep == ASSUME SettingsNext PROVE ~lost /\ Step
  BY DEF SettingsNext, Step, Enslave24, Release24, ReleaseAll24, ActiveChanges24, OpenClose24, BondUser24,
         DeviceUser24, SetHwAddr24, SetMacAddress24, ChangeMtu24, AddVid24, KillVid24

(* The empty list has no members.                                          *)
LEMMA EmptyList == ToSet(<<>>) = {} /\ <<>> \in Seq(Dev) /\ Once(<<>>)
  BY DEF ToSet, Once

(* The members of the list are devices.                                    *)
LEMMA ListFacts ==
  ASSUME ListInv
  PROVE  ToSet(list) \subseteq Dev /\ act \in Dev \cup {NoSlave} /\ NoSlave \notin Dev
  BY SeqFacts, NoSlaveAssumption DEF ListInv

(* An enslave makes the new slave, an old one or none the active one.      *)
LEMMA SelectedFrom ==
  ASSUME ListInv, NEW d \in Dev
  PROVE  Selected(d) \subseteq ToSet(list) \cup {d, NoSlave}
  BY DEF Selected, ListInv

(* The list and the active slave after each action.                        *)
LEMMA ListStep == ASSUME ListInv, Step PROVE ListInv'
<1> USE DEF ListInv
<1>1. ASSUME NEW d \in Dev, Enslave(d) \/ EnslaveFails(d) PROVE ListInv'
  <2>1. PICK new \in Selected(d) : act' = new
    BY <1>1 DEF Enslave, EnslaveFails, Joins, ChangeAct
  <2>2. d \notin ToSet(list) /\ list' = Attach(list, d)
    BY <1>1 DEF Enslave, EnslaveFails, Joins
  <2>3. QED BY <2>1, <2>2, AttachMembers, SelectedFrom
<1>2. ASSUME NEW d \in Dev, Release(d) PROVE ListInv'
  BY <1>2, DetachMembers DEF Release
<1>3. CASE ReleaseAll
  BY <1>3, EmptyList DEF ReleaseAll
<1>4. ASSUME NEW s \in Dev \cup {NoSlave}, ActiveChanges(s) PROVE ListInv'
  BY <1>4 DEF ActiveChanges, ChangeAct
<1>5. QED
  BY <1>1, <1>2, <1>3, <1>4
     DEF Step, OpenClose, AddVid, KillVid, BondUser, ChangeMtu, SetMacAddress, DeviceUser, SetHwAddr

-------------------------------------------------------------------------------
(* What bond_mc_swap does to the counts.                                   *)
LEMMA McSwapShares ==
  ASSUME SharesInv, ListInv, NEW cnt \in [Dev -> Int], NEW new \in Dev \cup {NoSlave}, NEW old \in Dev \cup {NoSlave},
         new # old
  PROVE  /\ McSwap(cnt, new, old) \in [Dev -> Int]
         /\ \A d \in Dev : McSwap(cnt, new, old)[d] =
              IF UsesPrimary /\ users > 0
                THEN IF d = new THEN cnt[d] + 1 ELSE IF d = old THEN cnt[d] - 1 ELSE cnt[d]
                ELSE cnt[d]
  BY DEF McSwap, McSwap24, McSwap27, Add, SharesInv, UsesPrimary, UsesPrimary24, UsesPrimary27

(* Where the bond pushes to, after the macro alone.                        *)
LEMMA PushedTo == Pushed = IF UsesPrimary THEN {act} \ {NoSlave} ELSE ToSet(list)
  BY DEF Pushed, Pushed24, Pushed27, UsesPrimary

(* The same after a step.                                                  *)
LEMMA PushedToNext == Pushed' = IF UsesPrimary' THEN {act'} \ {NoSlave} ELSE ToSet(list')
  BY DEF Pushed, Pushed24, Pushed27, UsesPrimary

(* Every action leaves the shares exact.                                   *)
LEMMA SharesStep == ASSUME ListInv, SharesInv, Step, ~lost PROVE SharesInv'
<1>0. ListInv' BY ListStep
<1> HIDE DEF ListInv
<1>f. ToSet(list) \subseteq Dev /\ act \in Dev \cup {NoSlave} /\ NoSlave \notin Dev BY ListFacts
<1>t. users \in Nat /\ others \in [Dev -> Int] /\ count \in [Dev -> Int] /\ shown \in BOOLEAN BY DEF SharesInv
<1>1. ASSUME NEW d \in Dev, Enslave(d) \/ EnslaveFails(d) PROVE SharesInv'
  <2>0. Joins(d, bondMac) \/ Joins(d, mac[d])
    BY <1>1 DEF Enslave, EnslaveFails
  <2>1. PICK new \in ToSet(list) \cup {d, NoSlave} :
          act' = new /\ count' = IF new = act THEN EnslaveShare(count, d) ELSE McSwap(EnslaveShare(count, d), new, act)
    BY <2>0, SelectedFrom DEF Joins, ChangeAct
  <2>2. /\ EnslaveShare(count, d) \in [Dev -> Int]
        /\ \A e \in Dev : EnslaveShare(count, d)[e] =
             IF e = d /\ ~UsesPrimary /\ users > 0 THEN count[e] + 1 ELSE count[e]
    BY DEF EnslaveShare, Add, SharesInv
  <2>3. /\ ToSet(list') = ToSet(list) \cup {d} /\ d \notin ToSet(list)
        /\ setting' = setting /\ users' = users /\ others' = others /\ shown' = shown
        /\ UsesPrimary' = UsesPrimary
    BY <2>0, AttachMembers DEF ListInv, Joins, fixedVars, UsesPrimary, UsesPrimary24, UsesPrimary27
  <2>4. count' \in [Dev -> Int] /\ \A e \in Dev : count'[e] =
          IF users > 0 /\ (IF UsesPrimary THEN new # act /\ e = new ELSE e = d) THEN count[e] + 1
          ELSE IF users > 0 /\ UsesPrimary /\ new # act /\ e = act THEN count[e] - 1
          ELSE count[e]
    BY <2>1, <2>2, <1>f, McSwapShares
  <2>5. ASSUME setting = "rx", ~lost, NEW e \in Dev
        PROVE  count'[e] = others[e] + (IF users > 0 /\ e \in Pushed' THEN 1 ELSE 0)
    <3>1. count[e] = others[e] + (IF users > 0 /\ e \in Pushed THEN 1 ELSE 0)
      BY <2>5 DEF SharesInv, SharesExact
    <3>2. CASE UsesPrimary
      BY <3>1, <3>2, <2>1, <2>3, <2>4, <1>f, <1>t, PushedTo, PushedToNext
    <3>3. CASE ~UsesPrimary
      BY <3>1, <3>3, <2>1, <2>3, <2>4, <1>f, <1>t, PushedTo, PushedToNext
    <3>4. QED BY <3>2, <3>3
  <2>6. QED BY <2>3, <2>4, <2>5 DEF SharesInv, SharesExact
<1>2. ASSUME NEW d \in Dev, Release(d) PROVE SharesInv'
  <2>1. PICK new \in IF act = d THEN (ToSet(list) \ {d}) \cup {NoSlave} ELSE {act} :
          /\ act' = new
          /\ LET old == IF act = d THEN NoSlave ELSE act
                 cnt == IF act = d THEN McSwap(count, NoSlave, d) ELSE count
             IN  count' = ReleaseShare(IF new = old THEN cnt ELSE McSwap(cnt, new, old), {d})
    BY <1>2 DEF Release
  <2>2. /\ ToSet(list') = ToSet(list) \ {d} /\ d \in ToSet(list) /\ NoSlave \notin Dev
        /\ setting' = setting /\ users' = users /\ others' = others /\ shown' = shown /\ lost' = lost
        /\ UsesPrimary' = UsesPrimary
    BY <1>2, <1>f, DetachMembers
       DEF ListInv, Release, fixedVars, UsesPrimary, UsesPrimary24, UsesPrimary27
  <2> DEFINE cnt == IF act = d THEN McSwap(count, NoSlave, d) ELSE count
             nxt == IF new = (IF act = d THEN NoSlave ELSE act) THEN cnt
                    ELSE McSwap(cnt, new, IF act = d THEN NoSlave ELSE act)
  <2>3. /\ cnt \in [Dev -> Int]
        /\ \A e \in Dev : cnt[e] = IF act = d /\ e = d /\ UsesPrimary /\ users > 0 THEN count[e] - 1 ELSE count[e]
    BY <2>2, <1>t, McSwapShares
  <2>4. count' = ReleaseShare(nxt, {d}) /\ new \in Dev \cup {NoSlave}
    BY <2>1, <1>f
  <2> HIDE DEF cnt
  <2>5. /\ nxt \in [Dev -> Int]
        /\ \A e \in Dev : nxt[e] = IF act = d /\ e = new /\ UsesPrimary /\ users > 0 THEN cnt[e] + 1 ELSE cnt[e]
    BY <2>1, <2>2, <2>3, <1>f, McSwapShares
  <2> HIDE DEF nxt
  <2>6. /\ count' \in [Dev -> Int]
        /\ \A e \in Dev : count'[e] = IF e = d /\ ~UsesPrimary /\ users > 0 THEN nxt[e] - 1 ELSE nxt[e]
    BY <2>4, <2>5 DEF ReleaseShare, Add, SharesInv
  <2>7. ASSUME setting = "rx", ~lost, NEW e \in Dev
        PROVE  count'[e] = others[e] + (IF users > 0 /\ e \in Pushed' THEN 1 ELSE 0)
    <3>1. count[e] = others[e] + (IF users > 0 /\ e \in Pushed THEN 1 ELSE 0)
      BY <2>7 DEF SharesInv, SharesExact
    <3>2. CASE UsesPrimary
      <4>1. (e \in Pushed <=> e = act) /\ (e \in Pushed' <=> e = new)
        BY <3>2, <2>1, <2>2, <1>f, PushedTo, PushedToNext
      <4>2. CASE act = d
        <5>1. new # d BY <4>2, <2>1, <2>2
        <5>2. /\ cnt[e] = IF e = d /\ users > 0 THEN count[e] - 1 ELSE count[e]
              /\ nxt[e] = IF e = new /\ users > 0 THEN cnt[e] + 1 ELSE cnt[e]
              /\ count'[e] = nxt[e]
          BY <3>2, <4>2, <2>3, <2>5, <2>6
        <5>3. QED BY <3>1, <4>1, <4>2, <5>1, <5>2, <1>t
      <4>3. CASE act # d
        BY <3>1, <3>2, <4>1, <4>3, <2>1, <2>2, <2>3, <2>5, <2>6, <1>t
      <4>4. QED BY <4>2, <4>3
    <3>3. CASE ~UsesPrimary
      <4>1. (e \in Pushed <=> e \in ToSet(list)) /\ (e \in Pushed' <=> e \in ToSet(list) \ {d})
        BY <3>3, <2>2, PushedTo, PushedToNext
      <4>2. count'[e] = IF e = d /\ users > 0 THEN count[e] - 1 ELSE count[e]
        BY <3>3, <2>3, <2>5, <2>6
      <4>3. QED BY <3>1, <4>1, <4>2, <2>2, <1>t
    <3>4. QED BY <3>2, <3>3
  <2>8. QED BY <2>2, <2>6, <2>7 DEF SharesInv, SharesExact
<1>3. CASE ReleaseAll
  <2>1. /\ list' = <<>> /\ act' = NoSlave /\ count' = ReleaseShare(McSwap(count, NoSlave, act), ToSet(list))
        /\ setting' = setting /\ users' = users /\ others' = others /\ shown' = shown /\ UsesPrimary' = UsesPrimary
    BY <1>3 DEF ReleaseAll, fixedVars, UsesPrimary, UsesPrimary24, UsesPrimary27
  <2>2. /\ McSwap(count, NoSlave, act) \in [Dev -> Int]
        /\ \A e \in Dev : McSwap(count, NoSlave, act)[e] =
             IF e = act /\ UsesPrimary /\ users > 0 THEN count[e] - 1 ELSE count[e]
    <3>1. CASE act = NoSlave
      BY <3>1, NoSlaveAssumption DEF McSwap, McSwap24, McSwap27, Add, SharesInv
    <3>2. CASE act # NoSlave
      BY <3>2, <1>f, <1>t, McSwapShares
    <3>3. QED BY <3>1, <3>2
  <2>3. /\ count' \in [Dev -> Int]
        /\ \A e \in Dev : count'[e] = IF users > 0 /\ (IF UsesPrimary THEN e = act ELSE e \in ToSet(list))
                                      THEN count[e] - 1 ELSE count[e]
    BY <2>1, <2>2 DEF ReleaseShare, Add, SharesInv
  <2>4. Pushed' = {}
    BY <2>1, PushedToNext, EmptyList
  <2>5. ASSUME setting = "rx", NEW e \in Dev PROVE count'[e] = others[e]
    <3>1. count[e] = others[e] + (IF users > 0 /\ e \in Pushed THEN 1 ELSE 0)
      BY <2>5 DEF SharesInv, SharesExact
    <3>2. QED BY <3>1, <2>3, PushedTo, NoSlaveAssumption DEF SharesInv
  <2>6. lost' => lost \/ \E s \in ToSet(list) : fom # "none" /\ mac[s] # perm[s]
    BY <1>3 DEF ReleaseAll
  <2>7. QED BY <2>1, <2>3, <2>4, <2>5 DEF SharesInv, SharesExact
<1>4. ASSUME NEW s \in Dev \cup {NoSlave}, ActiveChanges(s) PROVE SharesInv'
  <2>1. /\ act' = s /\ count' = McSwap(count, s, act) /\ s # act
        /\ setting' = setting /\ users' = users /\ others' = others /\ shown' = shown /\ lost' = lost
        /\ list' = list /\ UsesPrimary' = UsesPrimary
    BY <1>4 DEF ActiveChanges, ChangeAct, fixedVars, UsesPrimary, UsesPrimary24, UsesPrimary27
  <2>2. /\ count' \in [Dev -> Int]
        /\ \A e \in Dev : count'[e] =
             IF UsesPrimary /\ users > 0
               THEN IF e = s THEN count[e] + 1 ELSE IF e = act THEN count[e] - 1 ELSE count[e]
               ELSE count[e]
    BY <2>1, <1>f, <1>t, McSwapShares
  <2>3. ASSUME setting = "rx", ~lost, NEW e \in Dev
        PROVE  count'[e] = others[e] + (IF users > 0 /\ e \in Pushed' THEN 1 ELSE 0)
    <3>1. count[e] = others[e] + (IF users > 0 /\ e \in Pushed THEN 1 ELSE 0)
      BY <2>3 DEF SharesInv, SharesExact
    <3>2. QED BY <3>1, <2>1, <2>2, PushedTo, PushedToNext, NoSlaveAssumption DEF SharesInv
  <2>4. QED BY <2>1, <2>2, <2>3 DEF SharesInv, SharesExact
<1>5. CASE OpenClose
  <2>1. /\ count' = count \/ (count' = SetMulticastList(count, users > 0) /\ shown' = (users > 0))
        /\ shown' = shown \/ shown' = (users > 0)
        /\ list' = list /\ act' = act /\ users' = users /\ others' = others /\ lost' = lost /\ setting' = setting
        /\ setting = "rx" /\ Pushed' = Pushed
    BY <1>5 DEF OpenClose, fixedVars, Pushed, Pushed24, Pushed27, UsesPrimary24, UsesPrimary27
  <2>2. count' = count
    BY <2>1 DEF SetMulticastList, SharesInv
  <2>3. SharesExact'
    BY <2>1, <2>2 DEF SharesInv, SharesExact
  <2>4. QED BY <2>1, <2>2, <2>3, <1>t DEF SharesInv
<1>6. ASSUME NEW n \in 0..UserMax, BondUser(n) PROVE SharesInv'
  <2>0. ~lost OBVIOUS
  <2>1. /\ list' = list /\ act' = act /\ others' = others /\ setting' = setting /\ setting = "rx" /\ users' = n
        /\ n \in Nat /\ Pushed' = Pushed
        /\ IF isUp THEN shown' = (n > 0) /\ count' = SetMulticastList(count, n > 0)
                   ELSE shown' = shown /\ count' = count
        /\ lost' = (lost \/ (~isUp /\ shown # (n > 0)))
    BY <1>6, SettingsAssumption DEF BondUser, fixedVars, Pushed, Pushed24, Pushed27, UsesPrimary24, UsesPrimary27
  <2>2. shown = (users > 0) /\ \A e \in Dev : count[e] = others[e] + (IF users > 0 /\ e \in Pushed THEN 1 ELSE 0)
    BY <2>0, <2>1 DEF SharesInv, SharesExact
  <2>3. CASE isUp
    <3> DEFINE pushed == SetMulticastList(count, n > 0)
    <3>1. /\ pushed \in [Dev -> Int]
          /\ \A e \in Dev : pushed[e] =
               IF e \in Pushed THEN IF n > 0 /\ ~(users > 0) THEN count[e] + 1
                                    ELSE IF users > 0 /\ ~(n > 0) THEN count[e] - 1 ELSE count[e]
               ELSE count[e]
      <4>1. pushed = IF n > 0 /\ ~(users > 0) THEN Add(count, Pushed, 1)
                                            ELSE IF ~(n > 0) /\ users > 0 THEN Add(count, Pushed, -1)
                                            ELSE count
        BY <2>2 DEF SetMulticastList, pushed
      <4> HIDE DEF pushed
      <4>2. ASSUME NEW inc \in Int
            PROVE  /\ Add(count, Pushed, inc) \in [Dev -> Int]
                   /\ \A e \in Dev : Add(count, Pushed, inc)[e] = IF e \in Pushed THEN count[e] + inc ELSE count[e]
        BY <1>t DEF Add
      <4>3. CASE n > 0 /\ ~(users > 0)
        BY <4>1, <4>2, <4>3, <1>t, <2>1
      <4>4. CASE ~(n > 0) /\ users > 0
        <5>1. pushed = [d \in Dev |-> IF d \in Pushed THEN count[d] + (-1) ELSE count[d]]
          BY <4>1, <4>4 DEF Add
        <5>2. \A d \in Dev : count[d] \in Int /\ count[d] + (-1) = count[d] - 1
          BY <1>t
        <5>3. pushed = [d \in Dev |-> IF d \in Pushed THEN count[d] - 1 ELSE count[d]]
          BY <5>1, <5>2
        <5>4. QED BY <4>4, <5>3, <1>t, <2>1
      <4>5. CASE n > 0 /\ users > 0
        BY <4>1, <4>5, <1>t
      <4>6. CASE ~(n > 0) /\ ~(users > 0)
        <5>1. pushed = count BY <4>1, <4>6, <1>t, <2>1
        <5>2. QED BY <4>6, <5>1, <1>t, <2>1
      <4>7. QED BY <4>3, <4>4, <4>5, <4>6
    <3>2. \A e \in Dev : count'[e] = others'[e] + (IF users' > 0 /\ e \in Pushed' THEN 1 ELSE 0)
      BY <2>1, <2>2, <2>3, <3>1, <1>t
    <3>3. SharesExact'
      BY <2>1, <3>2 DEF SharesExact
    <3>4. shown' \in BOOLEAN /\ (shown' <=> users' > 0)
      <4>1. shown' = (n > 0) BY <2>1, <2>3
      <4>2. users' = n BY <2>1
      <4>3. (n > 0) \in BOOLEAN BY <2>1
      <4>4. QED BY <4>1, <4>2, <4>3, Zenon
    <3>5. users' \in Nat /\ others' \in [Dev -> Int] /\ count' \in [Dev -> Int]
      BY <2>1, <2>3, <3>1, <1>t
    <3>6. QED BY <3>3, <3>4, <3>5 DEF SharesInv
  <2>4. CASE ~isUp
    BY <2>1, <2>2, <2>4 DEF SharesInv, SharesExact
  <2>5. QED BY <2>3, <2>4
<1>7. ASSUME NEW d \in Dev, DeviceUser(d) PROVE SharesInv'
  <2>1. /\ list' = list /\ act' = act /\ users' = users /\ shown' = shown /\ lost' = lost /\ setting' = setting
        /\ Pushed' = Pushed
        /\ others' = [others EXCEPT ![d] = 1 - @] /\ count' = Add(count, {d}, others'[d] - others[d])
    BY <1>7 DEF DeviceUser, fixedVars, Pushed, Pushed24, Pushed27, UsesPrimary24, UsesPrimary27
  <2>2. others' \in [Dev -> Int] /\ count' \in [Dev -> Int]
    BY <2>1 DEF SharesInv, Add
  <2>3. \A e \in Dev : count'[e] - others'[e] = count[e] - others[e]
    BY <2>1, <2>2 DEF SharesInv, Add
  <2>4. SharesExact'
    <3>1. ASSUME setting = "rx", NEW e \in Dev
          PROVE  count'[e] = others'[e] + (IF users > 0 /\ e \in Pushed THEN 1 ELSE 0)
      <4>1. ~lost OBVIOUS
      <4>2. count[e] = others[e] + (IF users > 0 /\ e \in Pushed THEN 1 ELSE 0)
        BY <3>1, <4>1 DEF SharesInv, SharesExact
      <4>3. /\ count[e] \in Int /\ others[e] \in Int /\ count'[e] \in Int /\ others'[e] \in Int
            /\ count'[e] - others'[e] = count[e] - others[e]
        BY <2>2, <2>3, <1>t
      <4>4. QED BY <4>2, <4>3
    <3>2. QED BY <2>1, <3>1 DEF SharesExact
  <2>5. QED BY <2>1, <2>2, <2>4 DEF SharesInv
<1>8. ASSUME UNCHANGED <<fixedVars, list, act, rxVars>>, lost => lost' PROVE SharesInv'
  BY <1>8 DEF SharesInv, SharesExact, fixedVars, rxVars, Pushed, Pushed24, Pushed27, UsesPrimary24, UsesPrimary27
<1>9. ASSUME NEW d \in Dev, SetHwAddr(d) PROVE SharesInv'
  BY <1>8, <1>9 DEF SetHwAddr
<1>10. ASSUME NEW r \in Dev \cup {NoSlave}, SetMacAddress(r) PROVE SharesInv'
  BY <1>8, <1>10 DEF SetMacAddress
<1>11. ASSUME NEW m \in Mtus, NEW r \in Dev \cup {NoSlave}, ChangeMtu(m, r) PROVE SharesInv'
  BY <1>8, <1>11 DEF ChangeMtu
<1>12. CASE AddVid \/ KillVid
  BY <1>8, <1>12 DEF AddVid, KillVid
<1>13. QED
  BY <1>1, <1>2, <1>3, <1>4, <1>5, <1>6, <1>7, <1>9, <1>10, <1>11, <1>12 DEF Step

-------------------------------------------------------------------------------
(* Every action leaves the VLANs and the filters in agreement.             *)
LEMMA VlanStep == ASSUME ListInv, VlanInv, Step, ~lost PROVE VlanInv'
<1>f. ToSet(list) \subseteq Dev /\ NoSlave \notin Dev /\ list \in Seq(Dev) /\ Once(list)
  BY ListFacts DEF ListInv
<1>t. filter \in [Dev -> BOOLEAN] /\ hasVid \in BOOLEAN /\ blocked \in BOOLEAN /\ VlansFollow BY DEF VlanInv
<1>1. ASSUME NEW d \in Dev, Enslave(d) PROVE VlanInv'
  <2>1. /\ setting' = setting /\ hasVid' = hasVid
        /\ d \notin ToSet(list) /\ ToSet(list') = ToSet(list) \cup {d} /\ list' # <<>>
        /\ setting = "vlan" => ~(d \in Challenged /\ hasVid)
        /\ blocked' = IF d \in Challenged THEN TRUE ELSE blocked /\ list # <<>>
        /\ filter' = [filter EXCEPT ![d] = @ \/ hasVid]
    BY <1>1, <1>f, AttachMembers DEF Enslave, Joins, FilterVlans, fixedVars, Attach
  <2>2. filter' \in [Dev -> BOOLEAN] /\ blocked' \in BOOLEAN
    BY <1>t, <2>1
  <2>3. HasChallenged(list') <=> HasChallenged(list) \/ d \in Challenged
    BY <2>1 DEF HasChallenged
  <2>4. VlansFollow'
    BY <1>t, <2>1, <2>2, <2>3, <1>f, EmptyList DEF VlansFollow, HasChallenged
  <2>5. QED BY <1>t, <2>1, <2>2, <2>4 DEF VlanInv
<1>2. ASSUME NEW d \in Dev, Release(d) PROVE VlanInv'
  <2>1. /\ setting' = setting /\ hasVid' = hasVid
        /\ d \in ToSet(list) /\ ToSet(list') = ToSet(list) \ {d}
        /\ blocked' = IF list' = <<>> THEN blocked \/ ~hasVid ELSE blocked /\ HasChallenged(list')
        /\ filter' = [e \in Dev |-> filter[e] /\ ~(e \in {d} /\ hasVid)]
    BY <1>2, <1>f, DetachMembers DEF Release, UnfilterVlans, UnblockVlans, fixedVars
  <2>2. filter' \in [Dev -> BOOLEAN] /\ blocked' \in BOOLEAN
    BY <1>t, <2>1 DEF HasChallenged
  <2>3. HasChallenged(list') => HasChallenged(list)
    BY <2>1 DEF HasChallenged
  <2>4. list # <<>> /\ ~HasChallenged(<<>>)
    BY <2>1, EmptyList DEF HasChallenged
  <2>5. VlansFollow'
    BY <1>t, <1>f, <2>1, <2>2, <2>3, <2>4 DEF VlansFollow
  <2>6. QED BY <1>t, <2>1, <2>2, <2>5 DEF VlanInv
<1>3. CASE ReleaseAll
  <2>1. /\ setting' = setting /\ hasVid' = hasVid /\ list # <<>> /\ list' = <<>>
        /\ blocked' = (blocked \/ ~hasVid)
        /\ filter' = [e \in Dev |-> filter[e] /\ ~(e \in ToSet(list) /\ hasVid)]
    BY <1>3 DEF ReleaseAll, UnfilterVlans, UnblockVlans, fixedVars
  <2>2. filter' \in [Dev -> BOOLEAN] /\ blocked' \in BOOLEAN
    BY <1>t, <2>1
  <2>3. ToSet(list') = {} /\ ~HasChallenged(list')
    BY <2>1, EmptyList DEF HasChallenged
  <2>4. VlansFollow'
    BY <1>t, <1>f, <2>1, <2>2, <2>3 DEF VlansFollow
  <2>5. QED BY <1>t, <2>1, <2>2, <2>4 DEF VlanInv
<1>4. CASE AddVid
  <2>1. /\ setting' = setting /\ list' = list /\ blocked' = blocked /\ ~blocked /\ hasVid' = TRUE /\ ~hasVid
        /\ filter' = [d \in Dev |-> filter[d] \/ d \in ToSet(list)]
    BY <1>4 DEF AddVid, AddVlan, fixedVars
  <2>2. filter' \in [Dev -> BOOLEAN]
    BY <1>t, <2>1
  <2>3. VlansFollow'
    BY <1>t, <1>f, <2>1, <2>2 DEF VlansFollow
  <2>4. QED BY <1>t, <2>1, <2>2, <2>3 DEF VlanInv
<1>5. CASE KillVid
  <2>1. /\ setting' = setting /\ list' = list /\ blocked' = (blocked \/ list = <<>>) /\ hasVid' = FALSE /\ hasVid
        /\ filter' = [d \in Dev |-> filter[d] /\ d \notin ToSet(list)]
    BY <1>5 DEF KillVid, DelVlan, fixedVars
  <2>2. filter' \in [Dev -> BOOLEAN] /\ blocked' \in BOOLEAN
    BY <1>t, <2>1
  <2>3. VlansFollow'
    BY <1>t, <1>f, <2>1, <2>2 DEF VlansFollow
  <2>4. QED BY <1>t, <2>1, <2>2, <2>3 DEF VlanInv
<1>6. ASSUME UNCHANGED <<fixedVars, list, vlanVars>> PROVE VlanInv'
  BY <1>6, <1>t DEF VlanInv, VlansFollow, fixedVars, vlanVars, HasChallenged
<1>7. ASSUME NEW d \in Dev, EnslaveFails(d) PROVE VlanInv'
  <2>1. lost' /\ hasVid' = hasVid /\ blocked' = blocked /\ filter' = [filter EXCEPT ![d] = @ \/ hasVid]
    BY <1>7 DEF EnslaveFails, Joins, FilterVlans
  <2>2. QED BY <1>t, <2>1 DEF VlanInv, VlansFollow
<1>8. QED
  BY <1>1, <1>2, <1>3, <1>4, <1>5, <1>6, <1>7
     DEF Step, ActiveChanges, OpenClose, BondUser, DeviceUser, SetHwAddr, SetMacAddress, ChangeMtu

-------------------------------------------------------------------------------
(* Only slaves are unwound, and only slaves come before a slave.           *)
LEMMA UnwoundListed ==
  ASSUME ListInv, NEW r \in ToSet(list)
  PROVE  Before(r) \subseteq ToSet(list) /\ Unwound(r) \subseteq ToSet(list)
<1> DEFINE i == CHOOSE i \in 1..Len(list) : list[i] = r
<1>1. i \in 1..Len(list) /\ list[i] = r /\ Len(list) \in Nat
  BY SeqFacts DEF ListInv
<1> HIDE DEF i
<1>2. Before(r) = {list[j] : j \in 1..(i - 1)}
  BY DEF Before, i
<1>3. Before(r) \subseteq ToSet(list)
  BY <1>1, <1>2, SeqFacts DEF ListInv
<1>4. QED BY <1>3 DEF Unwound

(* A slave that is the only one comes after nobody.                        *)
LEMMA SingleBefore == ASSUME ListInv, NEW r \in ToSet(list), ~(Len(list) > 1) PROVE Before(r) = {}
<1> DEFINE i == CHOOSE i \in 1..Len(list) : list[i] = r
<1>1. i \in 1..Len(list) /\ Len(list) \in Nat
  BY SeqFacts DEF ListInv
<1> HIDE DEF i
<1>2. i = 1 BY <1>1
<1>3. Before(r) = {list[j] : j \in 1..(i - 1)}
  BY DEF Before, i
<1>4. QED BY <1>2, <1>3

(* Every action leaves the slaves with an MTU they may have.               *)
LEMMA MtuStep == ASSUME ListInv, MtuInv, Step, ~lost PROVE MtuInv'
<1>f. ToSet(list) \subseteq Dev /\ NoSlave \notin Dev /\ list \in Seq(Dev) /\ Once(list)
  BY ListFacts DEF ListInv
<1>t. mtu \in [Dev -> Nat] /\ joined \in [Dev -> Nat] /\ bondMtu \in Nat BY DEF MtuInv
<1>m. setting = "mtu" => \A s \in ToSet(list) : mtu[s] \in {bondMtu, joined[s]}
  BY DEF MtuInv, MtuUndone
<1>1. ASSUME NEW d \in Dev, Enslave(d) \/ EnslaveFails(d) PROVE MtuInv'
  <2>1. /\ setting' = setting /\ mtu' = mtu /\ bondMtu' = bondMtu
        /\ ToSet(list') = ToSet(list) \cup {d} /\ joined' = [joined EXCEPT ![d] = mtu[d]]
    BY <1>1, <1>f, AttachMembers DEF Enslave, EnslaveFails, Joins, fixedVars
  <2>2. QED BY <2>1, <1>f, <1>t, <1>m DEF MtuInv, MtuUndone
<1>2. ASSUME NEW d \in Dev, Release(d) PROVE MtuInv'
  <2>1. setting' = setting /\ mtu' = mtu /\ bondMtu' = bondMtu /\ joined' = joined /\ ToSet(list') \subseteq ToSet(list)
    BY <1>2, <1>f, DetachMembers DEF Release, fixedVars, mtuVars
  <2>2. QED BY <2>1, <1>f, <1>t, <1>m DEF MtuInv, MtuUndone
<1>3. CASE ReleaseAll
  <2>1. mtu' = mtu /\ bondMtu' = bondMtu /\ joined' = joined /\ ToSet(list') = {}
    BY <1>3, EmptyList DEF ReleaseAll, mtuVars
  <2>2. QED BY <2>1, <1>t DEF MtuInv, MtuUndone
<1>4. ASSUME NEW m \in Mtus, NEW r \in Dev \cup {NoSlave}, ChangeMtu(m, r) PROVE MtuInv'
  <2>1. /\ r \in ToSet(list) \cup {NoSlave} /\ m \in Nat
        /\ mtu' = SetAll(mtu, m, bondMtu, r) /\ bondMtu' = IF r = NoSlave THEN m ELSE bondMtu
        /\ joined' = joined /\ list' = list /\ setting' = setting /\ setting = "mtu" /\ lost' = (lost \/ Stranded(r))
    BY <1>4, SettingsAssumption DEF ChangeMtu, fixedVars
  <2>2. CASE r = NoSlave
    <3>1. mtu' = [d \in Dev |-> IF d \in ToSet(list) THEN m ELSE mtu[d]]
      BY <2>1, <2>2 DEF SetAll
    <3>2. QED BY <2>1, <2>2, <3>1, <1>f, <1>t DEF MtuInv, MtuUndone
  <2>3. CASE r # NoSlave
    <3>1. mtu' = [d \in Dev |-> IF d \in Unwound(r) THEN bondMtu ELSE IF d \in Before(r) THEN m ELSE mtu[d]]
      BY <2>1, <2>3 DEF SetAll
    <3>2. mtu' \in [Dev -> Nat]
      BY <2>1, <3>1, <1>t
    <3>3. ASSUME ~lost' PROVE Before(r) \subseteq Unwound(r)
      BY <2>1, <2>3, <3>3, SingleBefore DEF Stranded, Unwound
    <3>4. QED BY <2>1, <2>3, <3>1, <3>2, <3>3, <1>f, <1>t, <1>m DEF MtuInv, MtuUndone
  <2>4. QED BY <2>2, <2>3
<1>5. ASSUME UNCHANGED <<fixedVars, list, mtuVars>> PROVE MtuInv'
  BY <1>5, <1>t, <1>m DEF MtuInv, MtuUndone, fixedVars, mtuVars
<1>6. QED
  BY <1>1, <1>2, <1>3, <1>4, <1>5
     DEF Step, ActiveChanges, OpenClose, BondUser, DeviceUser, SetHwAddr, SetMacAddress, AddVid, KillVid

-------------------------------------------------------------------------------
(* The addresses.  What a change of the active slave makes of them.        *)
LEMMA FailOverMacIs ==
  ASSUME NEW m \in [Dev -> Mac], NEW b \in Mac, ParamInv, bmode = "activebackup",
         NEW new \in Dev \cup {NoSlave}, NEW old \in Dev \cup {NoSlave}
  PROVE  LET r == FailOverMac([dev |-> m, bond |-> b], new, old)
             changed == new \notin {NoSlave, old}
         IN  r = [dev  |-> IF changed /\ fom = "follow"
                             THEN IF old = NoSlave THEN [m EXCEPT ![new] = b]
                                  ELSE [m EXCEPT ![new] = m[old], ![old] = m[new]]
                             ELSE m,
                  bond |-> IF changed /\ fom = "active" THEN m[new] ELSE b]
<1>1. CASE port = "2.6.24"
  BY <1>1 DEF FailOverMac, FailOverMac24, ParamInv
<1>2. CASE port # "2.6.24"
  <2>1. CASE new \in {NoSlave, old}
    BY <1>2, <2>1 DEF FailOverMac, FailOverMac27
  <2>2. CASE new \notin {NoSlave, old} /\ fom = "none"
    BY <1>2, <2>2 DEF FailOverMac, FailOverMac27
  <2>3. CASE new \notin {NoSlave, old} /\ fom = "active"
    BY <1>2, <2>3 DEF FailOverMac, FailOverMac27
  <2>4. CASE new \notin {NoSlave, old} /\ fom = "follow" /\ old = NoSlave
    BY <1>2, <2>4 DEF FailOverMac, FailOverMac27
  <2>5. CASE new \notin {NoSlave, old} /\ fom = "follow" /\ old # NoSlave
    BY <1>2, <2>5 DEF FailOverMac, FailOverMac27
  <2>6. QED BY <2>1, <2>2, <2>3, <2>4, <2>5 DEF ParamInv
<1>3. QED BY <1>1, <1>2

(* The same for the addresses as they are, one field at a time.            *)
LEMMA FailOverFields ==
  ASSUME ListInv, ParamInv, MacsInv, bmode = "activebackup", NEW new \in Dev \cup {NoSlave}, new # act
  PROVE  /\ FailOverMac(Addresses, new, act).dev =
              IF new # NoSlave /\ fom = "follow"
                THEN IF act = NoSlave THEN [mac EXCEPT ![new] = bondMac]
                     ELSE [mac EXCEPT ![new] = mac[act], ![act] = mac[new]]
                ELSE mac
         /\ FailOverMac(Addresses, new, act).bond =
              IF new # NoSlave /\ fom = "active" THEN mac[new] ELSE bondMac
<1> DEFINE dv == IF new # NoSlave /\ fom = "follow"
                   THEN IF act = NoSlave THEN [mac EXCEPT ![new] = bondMac]
                        ELSE [mac EXCEPT ![new] = mac[act], ![act] = mac[new]]
                   ELSE mac
           bd == IF new # NoSlave /\ fom = "active" THEN mac[new] ELSE bondMac
<1>1. mac \in [Dev -> Mac] /\ bondMac \in Mac /\ act \in Dev \cup {NoSlave}
  BY ListFacts DEF MacsInv
<1>2. FailOverMac(Addresses, new, act) = [dev |-> dv, bond |-> bd]
  BY <1>1, FailOverMacIs DEF ParamInv, Addresses
<1> HIDE DEF dv, bd
<1>3. FailOverMac(Addresses, new, act).dev = dv /\ FailOverMac(Addresses, new, act).bond = bd
  BY <1>2
<1>4. QED BY <1>3 DEF dv, bd

(* Every action leaves the addresses as fail_over_mac wants them.          *)
LEMMA MacsStep == ASSUME ListInv, ParamInv, MacsInv, Step, ~lost PROVE MacsInv'
<1>0. ListInv' BY ListStep
<1>f. ToSet(list) \subseteq Dev /\ act \in Dev \cup {NoSlave} /\ NoSlave \notin Dev /\ act \in ToSet(list) \cup {NoSlave}
  BY ListFacts DEF ListInv
<1>l. list \in Seq(Dev) /\ Once(list)
  BY DEF ListInv
<1>t. mac \in [Dev -> Mac] /\ perm \in [Dev -> Mac] /\ bondMac \in Mac /\ Dev \subseteq Mac
  BY DEF MacsInv, Mac
<1>p. \A s \in ToSet(list) : perm[s] = s
  BY DEF MacsInv
<1>o. \A d \in Dev \ ToSet(list) : mac[d] = d
  BY DEF MacsInv, OwnMacBack
<1>i. setting # "mac" \/ fom = "active" => mac = [d \in Dev |-> d]
  BY DEF MacsInv
<1>a. setting = "mac" =>
        /\ fom = "none"   => \A s \in ToSet(list) : mac[s] = bondMac
        /\ fom = "active" => (act # NoSlave => bondMac = mac[act])
        /\ fom = "follow" => (act # NoSlave => mac[act] = bondMac)
  BY DEF MacsInv, MacsAgree
<1>c. ASSUME setting' = setting, fom' = fom, mac' \in [Dev -> Mac], perm' \in [Dev -> Mac], bondMac' \in Mac,
             ~lost' => \A s \in ToSet(list') : perm'[s] = s,
             setting # "mac" \/ fom = "active" => mac' = [d \in Dev |-> d],
             ~lost' => \A d \in Dev \ ToSet(list') : mac'[d] = d,
             setting = "mac" /\ ~lost' =>
               /\ fom = "none"   => \A s \in ToSet(list') : mac'[s] = bondMac'
               /\ fom = "active" => (act' # NoSlave => bondMac' = mac'[act'])
               /\ fom = "follow" => (act' # NoSlave => mac'[act'] = bondMac')
      PROVE  MacsInv'
  BY <1>c DEF MacsInv, MacsAgree, OwnMacBack, ParamInv
<1>1. ASSUME NEW d \in Dev, Enslave(d) PROVE MacsInv'
  <2> DEFINE m == IF fom = "none" THEN [mac EXCEPT ![d] = bondMac] ELSE mac
  <2>1. PICK new \in ToSet(list) \cup {d, NoSlave} :
          act' = new /\ SetAddresses(FailOverMac(IF fom = "none" THEN [Addresses EXCEPT !.dev[d] = bondMac]
                                                                 ELSE Addresses, new, act))
    BY <1>1, SelectedFrom DEF Enslave, Joins, ChangeAct
  <2>2. /\ setting' = setting /\ fom' = fom /\ perm' = [perm EXCEPT ![d] = mac[d]] /\ lost' = lost
        /\ d \notin ToSet(list) /\ ToSet(list') = ToSet(list) \cup {d}
    BY <1>1, <1>l, AttachMembers DEF Enslave, Joins, fixedVars
  <2>3. m \in [Dev -> Mac] /\ new \in Dev \cup {NoSlave}
    BY <1>t, <1>f, <2>1
  <2>4. (IF fom = "none" THEN [Addresses EXCEPT !.dev[d] = bondMac] ELSE Addresses) = [dev |-> m, bond |-> bondMac]
    BY <1>t DEF Addresses
  <2>5. CASE setting = "mac"
    <3>1. /\ mac' = FailOverMac([dev |-> m, bond |-> bondMac], new, act).dev
          /\ bondMac' = FailOverMac([dev |-> m, bond |-> bondMac], new, act).bond
      BY <2>1, <2>4, <2>5 DEF SetAddresses
    <3> HIDE DEF m
    <3>2. /\ mac' = IF new \notin {NoSlave, act} /\ fom = "follow"
                      THEN IF act = NoSlave THEN [m EXCEPT ![new] = bondMac]
                           ELSE [m EXCEPT ![new] = m[act], ![act] = m[new]]
                      ELSE m
          /\ bondMac' = IF new \notin {NoSlave, act} /\ fom = "active" THEN m[new] ELSE bondMac
      <4>1. CASE new = act
        <5>1. FailOverMac([dev |-> m, bond |-> bondMac], new, act) = [dev |-> m, bond |-> bondMac]
          BY <4>1 DEF FailOverMac, FailOverMac24, FailOverMac27
        <5>2. QED BY <3>1, <4>1, <5>1
      <4>2. CASE new # act /\ fom = "none"
        <5>1. FailOverMac([dev |-> m, bond |-> bondMac], new, act) = [dev |-> m, bond |-> bondMac]
          BY <4>2 DEF FailOverMac, FailOverMac24, FailOverMac27
        <5>2. QED BY <3>1, <4>2, <5>1
      <4>3. CASE new # act /\ fom # "none"
        <5> DEFINE r == FailOverMac(Addresses, new, act)
        <5>1. m = mac /\ [dev |-> m, bond |-> bondMac] = Addresses
          BY <4>3 DEF m, Addresses
        <5>2. bmode = "activebackup" /\ new \in Dev \cup {NoSlave}
          BY <2>3, <2>5 DEF ParamInv
        <5>3. /\ r.dev = IF new # NoSlave /\ fom = "follow"
                           THEN IF act = NoSlave THEN [mac EXCEPT ![new] = bondMac]
                                ELSE [mac EXCEPT ![new] = mac[act], ![act] = mac[new]]
                           ELSE mac
              /\ r.bond = IF new # NoSlave /\ fom = "active" THEN mac[new] ELSE bondMac
          BY <4>3, <5>2, FailOverFields
        <5>4. mac' = r.dev /\ bondMac' = r.bond
          BY <3>1, <5>1
        <5> HIDE DEF r
        <5>5. QED BY <4>3, <5>1, <5>3, <5>4
      <4>4. QED BY <4>1, <4>2, <4>3
    <3>3. mac' \in [Dev -> Mac] /\ bondMac' \in Mac /\ perm' \in [Dev -> Mac]
      BY <3>2, <2>2, <2>3, <1>t, <1>f
    <3>4. /\ \A s \in ToSet(list') : perm'[s] = s
          /\ \A e \in Dev \ ToSet(list') : mac'[e] = e
      BY <3>2, <2>1, <2>2, <2>3, <1>t, <1>f, <1>p, <1>o DEF m
    <3>5. CASE fom = "none"
      BY <3>2, <3>3, <3>4, <3>5, <2>2, <2>5, <1>a, <1>i, <1>c, <1>t, <1>f DEF m
    <3>6. CASE fom = "active"
      BY <3>2, <3>3, <3>4, <3>6, <2>1, <2>2, <2>5, <1>a, <1>i, <1>c, <1>t, <1>f DEF m
    <3>7. CASE fom = "follow"
      BY <3>2, <3>3, <3>4, <3>7, <2>1, <2>2, <2>5, <1>a, <1>i, <1>c, <1>t, <1>f DEF m
    <3>8. QED BY <3>5, <3>6, <3>7 DEF ParamInv
  <2>6. CASE setting # "mac"
    <3>1. mac' = mac /\ bondMac' = bondMac
      BY <2>1, <2>6 DEF SetAddresses
    <3>2. perm' \in [Dev -> Mac] /\ \A s \in ToSet(list') : perm'[s] = s
      BY <2>2, <1>p, <1>o, <1>t, <1>f
    <3>3. QED BY <3>1, <3>2, <2>2, <2>6, <1>i, <1>o, <1>t, <1>c
  <2>7. QED BY <2>5, <2>6
<1>2. ASSUME NEW d \in Dev, Release(d) PROVE MacsInv'
  <2> DEFINE old == IF act = d THEN NoSlave ELSE act
             r   == FailOverMac([dev |-> mac, bond |-> bondMac], act', old)
             g   == IF list' = <<>> THEN [r EXCEPT !.bond = NoSlave] ELSE r
  <2>1. /\ act' \in IF act = d THEN (ToSet(list) \ {d}) \cup {NoSlave} ELSE {act}
        /\ SetAddresses(Restored(g, d))
    BY <1>2 DEF Release, Addresses
  <2>2. /\ setting' = setting /\ fom' = fom /\ perm' = perm /\ lost' = lost
        /\ d \in ToSet(list) /\ ToSet(list') = ToSet(list) \ {d}
    BY <1>2, <1>l, DetachMembers DEF Release, fixedVars
  <2>3. act' \in Dev \cup {NoSlave} /\ old \in Dev \cup {NoSlave} /\ act' # d /\ old # d /\ act' \in ToSet(list') \cup {NoSlave}
        /\ (act = d \/ act' = old)
    BY <2>1, <2>2, <1>f
  <2>4. CASE setting = "mac"
    <3> HIDE DEF old
    <3>1. r = [dev  |-> IF act' \notin {NoSlave, old} /\ fom = "follow"
                          THEN IF old = NoSlave THEN [mac EXCEPT ![act'] = bondMac]
                               ELSE [mac EXCEPT ![act'] = mac[old], ![old] = mac[act']]
                          ELSE mac,
               bond |-> IF act' \notin {NoSlave, old} /\ fom = "active" THEN mac[act'] ELSE bondMac]
      BY <2>3, <2>4, <1>t, FailOverMacIs DEF ParamInv
    <3>2. old = NoSlave \/ act' = old
      BY <2>3 DEF old
    <3> DEFINE m == IF act' \notin {NoSlave, old} /\ fom = "follow" THEN [mac EXCEPT ![act'] = bondMac] ELSE mac
               b == IF list' = <<>> THEN NoSlave
                    ELSE IF act' \notin {NoSlave, old} /\ fom = "active" THEN mac[act'] ELSE bondMac
    <3>3. g = [dev |-> m, bond |-> b]
      BY <3>1, <3>2
    <3>4. m \in [Dev -> Mac] /\ b \in Mac
      BY <2>3, <1>t DEF Mac
    <3> HIDE DEF g, r
    <3>5. /\ mac' = IF fom = "active" THEN m ELSE [m EXCEPT ![d] = perm[d]]
          /\ bondMac' = b
      <4>1. Restored([dev |-> m, bond |-> b], d) =
              [dev |-> IF fom = "active" THEN m ELSE [m EXCEPT ![d] = perm[d]], bond |-> b]
        <5> HIDE DEF m, b
        <5>1. QED BY <3>4 DEF Restored
      <4>2. QED BY <4>1, <3>3, <2>1, <2>4 DEF SetAddresses
    <3>6. mac' \in [Dev -> Mac] /\ bondMac' \in Mac
      <4> HIDE DEF m, b
      <4>1. QED BY <3>4, <3>5, <1>t
    <3>e. list' = <<>> => ToSet(list') = {}
      BY EmptyList
    <3>7. act' # NoSlave => list' # <<>>
      BY <2>3, <3>e
    <3>8. \A e \in Dev \ ToSet(list') : mac'[e] = e
      BY <3>5, <2>2, <2>3, <2>4, <1>a, <1>i, <1>o, <1>p, <1>t, <1>f
    <3>9. CASE fom = "none"
      BY <3>5, <3>6, <3>8, <3>9, <3>e, <2>2, <2>3, <2>4, <1>a, <1>i, <1>c, <1>p, <1>t, <1>f
    <3>10. CASE fom = "active"
      <4>1. mac' = mac
        BY <3>5, <3>10 DEF m
      <4>2. mac = [e \in Dev |-> e]
        BY <3>10, <1>i
      <4>3. act' # NoSlave => bondMac' = mac[act']
        <5>1. CASE old = NoSlave
          BY <5>1, <3>5, <3>7, <3>10 DEF b
        <5>2. CASE old # NoSlave
          <6>1. act' = act
            BY <5>2, <3>2 DEF old
          <6>2. QED BY <5>2, <6>1, <3>2, <3>5, <3>7, <3>10, <2>4, <1>a DEF b
        <5>3. QED BY <5>1, <5>2
      <4>4. QED BY <4>1, <4>2, <4>3, <3>6, <3>8, <3>10, <2>2, <2>4, <1>c, <1>p, <1>t
    <3>11. CASE fom = "follow"
      <4>1. mac' = [m EXCEPT ![d] = perm[d]] /\ act' # d
        BY <3>5, <3>11, <2>3
      <4>2. act' # NoSlave => mac'[act'] = bondMac'
        <5>1. CASE old = NoSlave
          <6>1. act' # NoSlave => m = [mac EXCEPT ![act'] = bondMac] /\ bondMac' = bondMac
            BY <5>1, <3>5, <3>7, <3>11 DEF m, b
          <6>2. QED BY <6>1, <4>1, <2>3, <1>t
        <5>2. CASE old # NoSlave
          <6>1. act' = act /\ m = mac /\ (act' # NoSlave => bondMac' = bondMac)
            BY <5>2, <3>2, <3>5, <3>7, <3>11 DEF m, b, old
          <6>2. QED BY <6>1, <4>1, <3>11, <2>3, <2>4, <1>a, <1>t
        <5>3. QED BY <5>1, <5>2
      <4>3. QED BY <4>2, <3>6, <3>8, <3>11, <2>2, <2>4, <1>c, <1>p, <1>t
    <3>12. QED BY <3>9, <3>10, <3>11 DEF ParamInv
  <2>5. CASE setting # "mac"
    <3>1. mac' = mac /\ bondMac' = bondMac
      BY <2>1, <2>5 DEF SetAddresses
    <3>2. QED BY <3>1, <2>2, <2>5, <1>i, <1>p, <1>t, <1>c
  <2>6. QED BY <2>4, <2>5
<1>3. CASE ReleaseAll
  <2>1. /\ setting' = setting /\ fom' = fom /\ perm' = perm /\ act' = NoSlave /\ ToSet(list') = {}
        /\ ~lost' => \A s \in ToSet(list) : fom = "none" \/ mac[s] = perm[s]
        /\ SetAddresses([dev |-> IF fom = "none" THEN [d \in Dev |-> IF d \in ToSet(list) THEN perm[d] ELSE mac[d]]
                                 ELSE mac, bond |-> NoSlave])
    BY <1>3, EmptyList DEF ReleaseAll, fixedVars
  <2>2. CASE setting = "mac"
    <3>1. /\ mac' = IF fom = "none" THEN [d \in Dev |-> IF d \in ToSet(list) THEN perm[d] ELSE mac[d]] ELSE mac
          /\ bondMac' = NoSlave
      BY <2>1, <2>2 DEF SetAddresses
    <3>2. mac' \in [Dev -> Mac] /\ bondMac' \in Mac
      BY <3>1, <1>t DEF Mac
    <3>3. ~lost' => \A d \in Dev : mac'[d] = d
      BY <3>1, <2>1, <1>p, <1>o, <1>t
    <3>4. QED BY <2>1, <2>2, <3>1, <3>2, <3>3, <1>i, <1>c, <1>t
  <2>3. CASE setting # "mac"
    <3>1. mac' = mac /\ bondMac' = bondMac
      BY <2>1, <2>3 DEF SetAddresses
    <3>2. QED BY <3>1, <2>1, <2>3, <1>i, <1>t, <1>c
  <2>4. QED BY <2>2, <2>3
<1>4. ASSUME NEW s \in Dev \cup {NoSlave}, ActiveChanges(s) PROVE MacsInv'
  <2>1. /\ setting' = setting /\ fom' = fom /\ perm' = perm /\ lost' = lost /\ list' = list
        /\ act' = s /\ s \in ToSet(list) \cup {NoSlave} /\ s # act
        /\ SetAddresses(FailOverMac(Addresses, s, act))
    BY <1>4 DEF ActiveChanges, ChangeAct, fixedVars
  <2>2. CASE setting = "mac"
    <3>1. /\ mac' = IF s # NoSlave /\ fom = "follow"
                      THEN IF act = NoSlave THEN [mac EXCEPT ![s] = bondMac]
                           ELSE [mac EXCEPT ![s] = mac[act], ![act] = mac[s]]
                      ELSE mac
          /\ bondMac' = IF s # NoSlave /\ fom = "active" THEN mac[s] ELSE bondMac
      <4>1. bmode = "activebackup" /\ act \in Dev \cup {NoSlave}
        BY <2>2, <1>f DEF ParamInv
      <4> DEFINE r == FailOverMac(Addresses, s, act)
      <4>2. /\ r.dev = IF s # NoSlave /\ fom = "follow"
                         THEN IF act = NoSlave THEN [mac EXCEPT ![s] = bondMac]
                              ELSE [mac EXCEPT ![s] = mac[act], ![act] = mac[s]]
                         ELSE mac
            /\ r.bond = IF s # NoSlave /\ fom = "active" THEN mac[s] ELSE bondMac
        BY <2>1, <4>1, FailOverFields
      <4>3. mac' = r.dev /\ bondMac' = r.bond
        BY <2>1, <2>2 DEF SetAddresses
      <4> HIDE DEF r
      <4>4. QED BY <4>2, <4>3
    <3>2. mac' \in [Dev -> Mac] /\ bondMac' \in Mac
      BY <3>1, <1>t, <1>f
    <3>3. \A e \in Dev \ ToSet(list') : mac'[e] = e
      BY <3>1, <2>1, <1>o, <1>t, <1>f
    <3>4. CASE fom = "none"
      BY <3>1, <3>2, <3>3, <3>4, <2>1, <2>2, <1>a, <1>i, <1>c, <1>p, <1>t, <1>f
    <3>5. CASE fom = "active"
      BY <3>1, <3>2, <3>3, <3>5, <2>1, <2>2, <1>a, <1>i, <1>c, <1>p, <1>t, <1>f
    <3>6. CASE fom = "follow"
      BY <3>1, <3>2, <3>3, <3>6, <2>1, <2>2, <1>a, <1>i, <1>c, <1>p, <1>t, <1>f
    <3>7. QED BY <3>4, <3>5, <3>6 DEF ParamInv
  <2>3. CASE setting # "mac"
    <3>1. mac' = mac /\ bondMac' = bondMac
      BY <2>1, <2>3 DEF SetAddresses
    <3>2. QED BY <3>1, <2>1, <2>3, <1>i, <1>o, <1>p, <1>t, <1>c
  <2>4. QED BY <2>2, <2>3
<1>5. ASSUME NEW d \in Dev, SetHwAddr(d) PROVE MacsInv'
  <2>1. /\ setting' = setting /\ fom' = fom /\ perm' = perm /\ lost' = lost /\ list' = list /\ act' = act
        /\ mac' = mac /\ bondMac' = mac[d] /\ ToSet(list) = {} /\ setting = "mac"
    BY <1>5, EmptyList DEF SetHwAddr, fixedVars
  <2>2. QED BY <2>1, <1>i, <1>c, <1>o, <1>p, <1>t, <1>f
<1>6. ASSUME NEW r \in Dev \cup {NoSlave}, SetMacAddress(r) PROVE MacsInv'
  <2>1. /\ setting' = setting /\ fom' = fom /\ perm' = perm /\ list' = list /\ act' = act
        /\ setting = "mac" /\ fom # "active" /\ r \in ToSet(list) \cup {NoSlave}
        /\ mac' = SetAll(mac, OtherMac, bondMac, r) /\ bondMac' = IF r = NoSlave THEN OtherMac ELSE bondMac
        /\ lost' = (lost \/ Stranded(r))
    BY <1>6 DEF SetMacAddress, fixedVars
  <2>2. CASE r = NoSlave
    <3>1. mac' = [d \in Dev |-> IF d \in ToSet(list) THEN OtherMac ELSE mac[d]]
      BY <2>1, <2>2 DEF SetAll
    <3>2. mac' \in [Dev -> Mac] /\ bondMac' \in Mac
      BY <2>1, <2>2, <3>1, <1>t DEF Mac
    <3>3. QED BY <2>1, <2>2, <3>1, <3>2, <1>i, <1>c, <1>o, <1>p, <1>t, <1>f
  <2>3. CASE r # NoSlave
    <3>1. mac' = [d \in Dev |-> IF d \in Unwound(r) THEN bondMac ELSE IF d \in Before(r) THEN OtherMac ELSE mac[d]]
      BY <2>1, <2>3 DEF SetAll
    <3>2. mac' \in [Dev -> Mac] /\ bondMac' \in Mac
      BY <2>1, <2>3, <3>1, <1>t DEF Mac
    <3>3. ASSUME ~lost' PROVE Before(r) \subseteq Unwound(r)
      BY <2>1, <2>3, <3>3, SingleBefore DEF Stranded, Unwound
    <3>4. Unwound(r) \subseteq ToSet(list) /\ Before(r) \subseteq ToSet(list)
      BY <2>1, <2>3, UnwoundListed
    <3>5. QED BY <2>1, <2>3, <3>1, <3>2, <3>3, <3>4, <1>a, <1>i, <1>c, <1>o, <1>p, <1>t, <1>f
  <2>4. QED BY <2>2, <2>3
<1>7. ASSUME UNCHANGED <<fixedVars, list, act, macVars>>, lost => lost' PROVE MacsInv'
  BY <1>7, <1>c, <1>a, <1>i, <1>o, <1>p, <1>t DEF fixedVars, macVars
<1>8. ASSUME NEW d \in Dev, EnslaveFails(d) PROVE MacsInv'
  <2>1. PICK new \in ToSet(list) \cup {d, NoSlave} :
          SetAddresses(FailOverMac(IF fom = "none" THEN [Addresses EXCEPT !.dev[d] = mac[d]] ELSE Addresses, new, act))
    BY <1>8, SelectedFrom DEF EnslaveFails, Joins, ChangeAct
  <2>2. setting' = setting /\ fom' = fom /\ perm' = [perm EXCEPT ![d] = mac[d]] /\ lost'
    BY <1>8 DEF EnslaveFails, Joins, fixedVars
  <2>3. (IF fom = "none" THEN [Addresses EXCEPT !.dev[d] = mac[d]] ELSE Addresses) = [dev |-> mac, bond |-> bondMac]
    BY <1>t DEF Addresses
  <2>4. perm' \in [Dev -> Mac] /\ new \in Dev \cup {NoSlave}
    BY <2>1, <2>2, <1>t, <1>f
  <2>5. CASE setting = "mac"
    <3> DEFINE m == IF new \notin {NoSlave, act} /\ fom = "follow"
                      THEN IF act = NoSlave THEN [mac EXCEPT ![new] = bondMac]
                           ELSE [mac EXCEPT ![new] = mac[act], ![act] = mac[new]]
                      ELSE mac
               b == IF new \notin {NoSlave, act} /\ fom = "active" THEN mac[new] ELSE bondMac
    <3>0. /\ mac \in [Dev -> Mac] /\ bondMac \in Mac /\ new \in Dev \cup {NoSlave} /\ act \in Dev \cup {NoSlave}
          /\ ParamInv /\ bmode = "activebackup"
      BY <2>4, <2>5, <1>t, <1>f DEF ParamInv
    <3>1. FailOverMac([dev |-> mac, bond |-> bondMac], new, act) = [dev |-> m, bond |-> b]
      BY <3>0, FailOverMacIs
    <3>2. m \in [Dev -> Mac] /\ b \in Mac /\ (fom = "active" => m = mac)
      BY <2>4, <1>t, <1>f
    <3> HIDE DEF m, b
    <3>3. mac' = m /\ bondMac' = b
      BY <2>1, <2>3, <2>5, <3>1 DEF SetAddresses
    <3>4. QED BY <2>2, <2>4, <2>5, <3>2, <3>3, <1>i, <1>c
  <2>6. CASE setting # "mac"
    <3>1. mac' = mac /\ bondMac' = bondMac
      BY <2>1, <2>6 DEF SetAddresses
    <3>2. QED BY <3>1, <2>2, <2>4, <2>6, <1>i, <1>t, <1>c
  <2>7. QED BY <2>5, <2>6
<1>9. QED
  BY <1>1, <1>2, <1>3, <1>4, <1>5, <1>6, <1>7, <1>8
     DEF Step, OpenClose, BondUser, DeviceUser, ChangeMtu, AddVid, KillVid

-------------------------------------------------------------------------------
(* The inductive invariant.                                                *)
SettingsInv == ListInv /\ ParamInv /\ SharesInv /\ MacsInv /\ MtuInv /\ VlanInv

(* It holds at the start.                                                  *)
LEMMA SettingsInitially == ASSUME SettingsInit PROVE SettingsInv
<1> USE DEF SettingsInit
<1>1. ListInv BY EmptyList DEF ListInv
<1>2. ParamInv BY DEF ParamInv
<1>3. SharesInv
  <2>1. users = 0 /\ shown = FALSE /\ \A d \in Dev : others[d] = 0 /\ count[d] = 0
    OBVIOUS
  <2>2. others \in [Dev -> Int] /\ count \in [Dev -> Int]
    OBVIOUS
  <2>3. SharesExact
    BY <2>1 DEF SharesExact
  <2>4. shown \in BOOLEAN /\ (shown <=> users > 0)
    <3>1. ~(users > 0) /\ shown = FALSE BY <2>1
    <3>2. QED BY <3>1, Zenon
  <2>5. users \in Nat BY <2>1
  <2>6. QED BY <2>2, <2>3, <2>4, <2>5 DEF SharesInv
<1>4. MacsInv BY EmptyList DEF MacsInv, Mac, MacsAgree, OwnMacBack
<1>5. MtuInv BY EmptyList, SettingsAssumption DEF MtuInv, MtuUndone
<1>6. VlanInv BY EmptyList DEF VlanInv, VlansFollow, HasChallenged
<1>7. QED BY <1>1, <1>2, <1>3, <1>4, <1>5, <1>6 DEF SettingsInv

(* Every step keeps it.                                                    *)
LEMMA SettingsStep == ASSUME SettingsInv, [SettingsNext]_setVars PROVE SettingsInv'
<1>1. CASE SettingsNext
  <2>1. Step /\ ~lost BY <1>1, NextIsStep DEF SettingsInv
  <2>2. ParamInv'
    BY <2>1 DEF SettingsInv, ParamInv, Step, Enslave, EnslaveFails, Joins, Release, DeviceUser, SetHwAddr, ActiveChanges, SetMacAddress,
                ReleaseAll, OpenClose, AddVid, KillVid, BondUser, ChangeMtu, fixedVars
  <2>3. QED BY <2>1, <2>2, ListStep, SharesStep, MacsStep, MtuStep, VlanStep DEF SettingsInv
<1>2. CASE UNCHANGED setVars
  <2> USE <1>2 DEF setVars, fixedVars, rxVars, macVars, mtuVars, vlanVars
  <2>1. ListInv' /\ ParamInv' BY DEF SettingsInv, ListInv, ParamInv
  <2>2. SharesInv'
    BY DEF SettingsInv, SharesInv, SharesExact, Pushed, Pushed24, Pushed27, UsesPrimary24, UsesPrimary27
  <2>3. MacsInv' BY DEF SettingsInv, MacsInv, MacsAgree, OwnMacBack
  <2>4. MtuInv' BY DEF SettingsInv, MtuInv, MtuUndone
  <2>5. VlanInv' BY DEF SettingsInv, VlanInv, VlansFollow, HasChallenged
  <2>6. QED BY <2>1, <2>2, <2>3, <2>4, <2>5 DEF SettingsInv
<1>3. QED BY <1>1, <1>2

(* What the bond has set on devices is, in every reachable state, what its *)
(* own records say (bond_main.c of both kernels).                          *)
THEOREM SettingsInvariant == SettingsSpec => []SettingsInv
<1>1. SettingsInit => SettingsInv BY SettingsInitially
<1>2. SettingsInv /\ [SettingsNext]_setVars => SettingsInv' BY SettingsStep
<1>3. QED BY <1>1, <1>2, PTL DEF SettingsSpec

(* The devices count what the bond has set on them (dev_set_promiscuity,   *)
(* dev_set_allmulti, dev_mc_add).                                          *)
THEOREM SharesAreExact == SettingsSpec => []SharesExact
<1>1. SettingsInv => SharesExact BY DEF SettingsInv, SharesInv
<1>2. QED BY <1>1, SettingsInvariant, PTL

(* The bond and its slaves have the addresses fail_over_mac asks for       *)
(* (bond_do_fail_over_mac, bond_set_mac_address).                          *)
THEOREM AddressesAgree == SettingsSpec => []MacsAgree
<1>1. SettingsInv => MacsAgree BY DEF SettingsInv, MacsInv
<1>2. QED BY <1>1, SettingsInvariant, PTL

(* A device that is released has its own address again (bond_release,      *)
(* bond_release_all).                                                      *)
THEOREM AddressesReturned == SettingsSpec => []OwnMacBack
<1>1. SettingsInv => OwnMacBack BY DEF SettingsInv, MacsInv
<1>2. QED BY <1>1, SettingsInvariant, PTL

(* A refused change of the MTU is undone (bond_change_mtu).                *)
THEOREM MtuIsUndone == SettingsSpec => []MtuUndone
<1>1. SettingsInv => MtuUndone BY DEF SettingsInv, MtuInv
<1>2. QED BY <1>1, SettingsInvariant, PTL

(* VLANs and challenged slaves exclude each other, and the filters of the  *)
(* slaves follow (bond_enslave, bond_release, bond_vlan_rx_add_vid).       *)
THEOREM VlansAreFollowed == SettingsSpec => []VlansFollow
<1>1. SettingsInv => VlansFollow BY DEF SettingsInv, VlanInv
<1>2. QED BY <1>1, SettingsInvariant, PTL
================================================================================
