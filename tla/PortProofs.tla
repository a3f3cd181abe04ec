------------------------------ MODULE PortProofs -----------------------------
(***************************************************************************)
(* Theorems about the bonding drivers of both kernels with either of their *)
(* link monitors: what the runs of MCPorts and MCArp check, for every set  *)
(* of devices.                                                             *)
(***************************************************************************)
EXTENDS Bonding24, BondingProofs

-------------------------------------------------------------------------------
(***************************************************************************)
(* The pointers of the driver of 2.6.24.                                   *)
(***************************************************************************)

(* A step that leaves the list and the handlers alone keeps the invariant. *)
LEMMA SameListStep24 ==
  ASSUME PointersInv24, FieldTypes', UNCHANGED <<slaves, primary, master, op>>,
         active' \in Listed \cup {NoSlave},
         op.kind = "freeall" => active' = active,
         mon' = "committing" <=> mon = "committing", mon' = "committing" => pos' > 0
  PROVE  PointersInv24'
<1>1. PointersCore' /\ Listed' = Listed
  BY SameListCore DEF PointersInv24
<1>2. HandlersInv24'
  BY <1>1 DEF PointersInv24, HandlersInv24
<1>3. QED BY <1>1, <1>2 DEF PointersInv24

(* Selecting the active slave finds it on the list and keeps the types.    *)
LEMMA SelectActive24Types ==
  ASSUME FieldTypes, RolesListed,
         NEW lnk \in [Dev -> Link], NEW dly \in [Dev -> Nat], NEW st \in [Dev -> State],
         SelectActive24(lnk, dly, st)
  PROVE  /\ active' \in Listed \cup {NoSlave}
         /\ active' \in Dev \cup {NoSlave}
         /\ link' \in [Dev -> Link] /\ delay' \in [Dev -> Nat] /\ state' \in [Dev -> State]
         /\ bondCarrier' \in BOOLEAN /\ gap' \in Rest
<1> DEFINE best == BestSlave(slaves, primary, lnk, dly)
<1>0. /\ slaves \in Seq(Dev)
      /\ active \in ToSet(slaves) \cup {NoSlave} /\ primary \in ToSet(slaves) \cup {NoSlave}
  BY DEF FieldTypes, RolesListed, Listed
<1>1. best \in Listed \cup {NoSlave}
  BY <1>0, BestSlaveListed DEF Listed
<1>2. Listed \subseteq Dev
  BY <1>0, SeqFacts DEF Listed
<1>3. ChangeActive(best, lnk, dly, st, "none") /\ "none" \in Rest
  BY DEF SelectActive24, ChangeActive24, BestSlave24, Rest
<1>4. bondCarrier' \in BOOLEAN
  BY DEF SelectActive24, CarrierOf24, CarrierOf, FieldTypes
<1> HIDE DEF best
<1>5. QED BY <1>1, <1>2, <1>3, <1>4, ChangeActiveTypes

(* The sections of bond_enslave.                                           *)
LEMMA EnslaveOpen24Step ==
  ASSUME PointersInv24, NEW d \in Dev, EnslaveOpen24(d)
  PROVE  PointersInv24'
<1>0. /\ FieldTypes /\ RolesListed /\ HandlersInv24 /\ op = Idle /\ op.kind = "none" /\ d \notin Listed
      /\ ~SymlinkMayFail => ListedAttached
  BY OpFacts DEF PointersInv24, PointersCore, EnslaveOpen24, WriterFree, RtnlFree, Listed
<1>1. /\ master' = [master EXCEPT ![d] = TRUE] /\ running' \in [Dev -> BOOLEAN]
      /\ \/ op' = Doing("enslave", d) \/ op' = op
      /\ UNCHANGED <<carrier, slaveVars, bondVars, adminVars, monVars, oops>>
  BY <1>0 DEF EnslaveOpen24, FieldTypes
<1>2. FieldTypes'
  BY <1>0, <1>1 DEF FieldTypes, Doing, Adding, slaveVars, bondVars, adminVars, monVars
<1>3. Listed' = Listed /\ RolesListed' /\ ListedOnce' /\ (~SymlinkMayFail => ListedAttached)'
  BY <1>0, <1>1 DEF PointersInv24, PointersCore, Listed, RolesListed, ListedOnce, ListedAttached, FieldTypes, bondVars
<1>4. HandlersInv24'
  BY <1>0, <1>1, <1>3
     DEF HandlersInv24, FieldTypes, Doing, Idle, Committing, Removing, bondVars, monVars
<1>5. QED BY <1>2, <1>3, <1>4 DEF PointersInv24, PointersCore

(* The slave gets on the list and may get the role.                        *)
LEMMA EnslaveSetup24Step ==
  ASSUME PointersInv24, EnslaveSetup24
  PROVE  PointersInv24'
<1> DEFINE d    == op.dev
           list == Attach(slaves, d)
           lnk  == [link EXCEPT ![d] = InitialLink(d)]
           dly  == [delay EXCEPT ![d] = IF carrier[d] THEN UpDelay ELSE 0]
           prm  == Primary24(d)
           st   == [state EXCEPT ![d] = NewSlaveState]
           best == BestSlave(list, prm, lnk, dly)
           first == IF active = NoSlave THEN d ELSE active
<1>0. /\ FieldTypes /\ RolesListed /\ ListedOnce /\ HandlersInv24
      /\ d \in Dev /\ d \notin Listed /\ master[d] /\ op.kind = "enslave"
  BY OpFacts DEF PointersInv24, PointersCore, EnslaveSetup24, HandlersInv24, Adding
<1>1. /\ slaves \in Seq(Dev) /\ list \in Seq(Dev) /\ ToSet(list) = Listed \cup {d} /\ Once(list)
  BY <1>0, AttachMembers DEF FieldTypes, ListedOnce, Listed
<1>2. /\ active \in ToSet(list) \cup {NoSlave} /\ prm \in ToSet(list) \cup {NoSlave} /\ ToSet(list) \subseteq Dev
  BY <1>0, <1>1, SeqFacts DEF RolesListed, Listed, Primary24
<1>3. lnk \in [Dev -> Link] /\ dly \in [Dev -> Nat] /\ st \in [Dev -> State]
  <2>1. InitialLink(d) \in Link /\ NewSlaveState \in State
    BY DEF InitialLink, NewSlaveState, Link, State
  <2>2. QED BY <1>0, <2>1, ParamAssumption DEF FieldTypes
<1>4. best \in ToSet(list) \cup {NoSlave} /\ first \in ToSet(list) \cup {NoSlave}
  BY <1>1, <1>2, BestSlaveListed
<1>5. /\ primary' = prm /\ slaves' = list
      /\ \/ ChangeActive(best, lnk, dly, st, "none")
         \/ ChangeActive(first, lnk, dly, st, "none")
         \/ active' = first /\ link' = lnk /\ delay' = dly /\ state' = st /\ gap' = "none"
      /\ bondCarrier' \in BOOLEAN
      /\ op' = Doing("symlinks", d)
      /\ UNCHANGED <<devVars, newLink, adminVars, monVars, oops>>
  BY <1>0 DEF EnslaveSetup24, CarrierOf24, CarrierOf, ChangeActive24, BestSlave24, Attach24, FieldTypes
<1> HIDE DEF d, list, lnk, dly, prm, st, best, first
<1>6. /\ active' \in ToSet(list) \cup {NoSlave} /\ gap' \in Rest
      /\ link' \in [Dev -> Link] /\ delay' \in [Dev -> Nat] /\ state' \in [Dev -> State]
  BY <1>0, <1>2, <1>3, <1>4, <1>5, ChangeActiveTypes DEF Rest
<1>7. FieldTypes'
  BY <1>0, <1>1, <1>2, <1>5, <1>6 DEF FieldTypes, Doing, Adding, devVars, adminVars, monVars
<1>8. Listed' = Listed \cup {d}
  BY <1>1, <1>5 DEF Listed
<1>9. RolesListed' /\ ListedOnce' /\ (~SymlinkMayFail => ListedAttached)'
  BY <1>0, <1>1, <1>2, <1>5, <1>6, <1>8
     DEF PointersInv24, PointersCore, RolesListed, ListedOnce, ListedAttached, devVars
<1>10. HandlersInv24'
  BY <1>0, <1>5, <1>8, OpFacts
     DEF HandlersInv24, Doing, Adding, Removing, Committing, devVars, monVars
<1>11. QED BY <1>7, <1>9, <1>10 DEF PointersInv24, PointersCore

(* The end of bond_enslave, or its failure.                                *)
LEMMA EnslaveEnd24Step ==
  ASSUME PointersInv24, EnslaveDone \/ EnslaveFails
  PROVE  PointersInv24'
<1>0. HandlersInv24 /\ op.kind = "symlinks" /\ op' = Idle
  BY DEF PointersInv24, EnslaveDone, EnslaveFails
<1>1. PointersCore' /\ Listed' = Listed
  BY EnslaveEndCore DEF PointersInv24
<1>2. mon' = mon /\ pos' = pos /\ mon # "committing"
  BY <1>0 DEF HandlersInv24, Committing, EnslaveDone, EnslaveFails, monVars
<1>3. HandlersInv24'
  BY <1>0, <1>2 DEF HandlersInv24, Idle, Removing
<1>4. QED BY <1>1, <1>3 DEF PointersInv24

(* The sections of bond_release, of a slave and of a device that is none.  *)
LEMMA ReleaseDetach24Step ==
  ASSUME PointersInv24, NEW d \in Dev, ReleaseDetach24(d)
  PROVE  PointersInv24'
<1>0. HandlersInv24 /\ op = Idle /\ op.kind = "none" /\ d \in Listed /\ ReleaseDetach(d)
  BY OpFacts DEF PointersInv24, PointersCore, ReleaseDetach24, ReleaseDetach, WriterFree, RtnlFree, Listed
<1>1. PointersCore' /\ Listed' = Listed \ {d}
  BY <1>0, ReleaseDetachCore DEF PointersInv24
<1>2. /\ op' \in [kind : {"reselect", "release"}, dev : {d}]
      /\ UNCHANGED <<devVars, newLink, adminVars, monVars, oops>>
  BY <1>0 DEF ReleaseDetach, Doing
<1>3. HandlersInv24'
  BY <1>0, <1>1, <1>2 DEF HandlersInv24, Removing, Committing, Idle, devVars, monVars
<1>4. QED BY <1>1, <1>3 DEF PointersInv24

(* The first slave is detached in the place of a device that is none.      *)
LEMMA ReleaseStray24Step ==
  ASSUME PointersInv24, NEW d \in Dev, ReleaseStray24(d)
  PROVE  PointersInv24'
<1> DEFINE s    == SlaveByDev(slaves, d)
           next == IF active = s THEN NoSlave ELSE active
<1>0. /\ FieldTypes /\ RolesListed /\ ListedOnce /\ HandlersInv24 /\ op = Idle /\ op.kind = "none"
      /\ d \notin Listed /\ s # NoSlave
      /\ ~SymlinkMayFail => ListedAttached
  BY OpFacts DEF PointersInv24, PointersCore, ReleaseStray24, SlaveByDev24, WriterFree, RtnlFree, Listed
<1>1. slaves \in Seq(Dev) /\ s \in Listed /\ Listed \subseteq Dev
  <2>1. slaves \in Seq(Dev)
    BY <1>0 DEF FieldTypes
  <2>2. slaves # <<>>
    BY <1>0 DEF SlaveByDev, Listed
  <2>3. QED BY <2>1, <2>2, SlaveByDevMember, SeqFacts DEF Listed
<1>2. /\ slaves' = Detach(slaves, s) /\ primary' = IF primary = s THEN NoSlave ELSE primary
      /\ ChangeActive(next, link, delay, state, "none")
      /\ bondCarrier' \in BOOLEAN
      /\ op' \in [kind : {"reselect", "release"}, dev : {d}]
      /\ UNCHANGED <<devVars, newLink, adminVars, monVars, oops>>
  BY <1>0 DEF ReleaseStray24, SlaveByDev24, Detach24, ChangeActive24, Doing, FieldTypes
<1> HIDE DEF s
<1>3. slaves' \in Seq(Dev) /\ Listed' = Listed \ {s} /\ Once(slaves')
  BY <1>0, <1>1, <1>2, DetachMembers DEF ListedOnce, Listed
<1>4. next \in (Listed \ {s}) \cup {NoSlave} /\ primary' \in (Listed \ {s}) \cup {NoSlave}
  BY <1>0, <1>2 DEF RolesListed
<1> HIDE DEF next
<1>5. /\ active' = next /\ gap' \in Rest
      /\ link' \in [Dev -> Link] /\ delay' \in [Dev -> Nat] /\ state' \in [Dev -> State]
  <2>1. link \in [Dev -> Link] /\ delay \in [Dev -> Nat] /\ state \in [Dev -> State]
    BY <1>0 DEF FieldTypes
  <2>2. QED BY <1>0, <1>1, <1>2, <1>4, <2>1, ChangeActiveTypes DEF Rest
<1>6. FieldTypes'
  BY <1>0, <1>1, <1>2, <1>3, <1>4, <1>5 DEF FieldTypes, devVars, adminVars, monVars, Removing
<1>7. RolesListed' /\ ListedOnce' /\ (~SymlinkMayFail => ListedAttached)'
  BY <1>0, <1>2, <1>3, <1>4, <1>5 DEF PointersInv24, PointersCore, RolesListed, ListedOnce, ListedAttached, devVars
<1>8. HandlersInv24'
  <2>1. op'.kind \in {"reselect", "release"} /\ op'.dev = d /\ d \notin Listed' /\ mon' = mon
    BY <1>0, <1>2, <1>3 DEF monVars
  <2>2. mon # "committing"
    BY <1>0 DEF HandlersInv24, Committing, Idle
  <2>3. QED BY <2>1, <2>2 DEF HandlersInv24, Removing
<1>9. QED BY <1>6, <1>7, <1>8 DEF PointersInv24, PointersCore

(* The successor is found on the list.                                     *)
LEMMA ReleaseReselect24Step ==
  ASSUME PointersInv24, ReleaseReselect24
  PROVE  PointersInv24'
<1>0. /\ FieldTypes /\ RolesListed /\ HandlersInv24
      /\ op.kind = "reselect" /\ op.dev \in Dev /\ op' = Doing("release", op.dev)
      /\ UNCHANGED <<devVars, newLink, slaves, primary, adminVars, monVars, oops>>
  BY OpFacts DEF PointersInv24, PointersCore, ReleaseReselect24, Removing
<1>1. /\ active' \in Listed \cup {NoSlave} /\ active' \in Dev \cup {NoSlave}
      /\ link' \in [Dev -> Link] /\ delay' \in [Dev -> Nat] /\ state' \in [Dev -> State]
      /\ bondCarrier' \in BOOLEAN /\ gap' \in Rest
  <2>0. link \in [Dev -> Link] /\ delay \in [Dev -> Nat] /\ state \in [Dev -> State]
    BY <1>0 DEF FieldTypes
  <2>1. CASE HasSlaves
    <3>1. SelectActive24(link, delay, state)
      BY <2>1 DEF ReleaseReselect24
    <3>2. QED BY <1>0, <2>0, <3>1, SelectActive24Types
  <2>2. CASE ~HasSlaves
    BY <1>0, <2>2 DEF ReleaseReselect24, FieldTypes, RolesListed
  <2>3. QED BY <2>1, <2>2
<1>2. FieldTypes'
  BY <1>0, <1>1 DEF FieldTypes, devVars, adminVars, monVars, Removing, Doing
<1>3. PointersCore' /\ Listed' = Listed
  BY <1>0, <1>1, <1>2, SameListCore DEF PointersInv24, devVars
<1>4. HandlersInv24'
  BY <1>0, <1>3 DEF HandlersInv24, Removing, Committing, Doing, devVars, monVars
<1>5. QED BY <1>3, <1>4 DEF PointersInv24

(* No handler is at work afterwards.                                       *)
LEMMA ReleaseFinish24Step ==
  ASSUME PointersInv24, ReleaseFinish
  PROVE  PointersInv24'
<1>0. HandlersInv24 /\ op.kind = "release" /\ op.dev \notin Listed /\ op' = Idle
  BY DEF PointersInv24, ReleaseFinish, HandlersInv24, Removing
<1>1. PointersCore' /\ Listed' = Listed
  BY <1>0, ReleaseFinishCore DEF PointersInv24
<1>2. HandlersInv24'
  BY <1>0 DEF HandlersInv24, ReleaseFinish, Idle, Committing, Removing, monVars
<1>3. QED BY <1>1, <1>2 DEF PointersInv24

(* The sections of bond_free_all.                                          *)
LEMMA FreeAll24Step ==
  ASSUME PointersInv24, FreeAllBegin \/ FreeAllNext
  PROVE  PointersInv24'
<1>0. HandlersInv24
  BY DEF PointersInv24
<1>1. CASE FreeAllBegin
  <2>1. op = Idle /\ op.kind = "none"
    BY <1>1, OpFacts DEF PointersInv24, PointersCore, FreeAllBegin, WriterFree, RtnlFree
  <2>2. /\ PointersCore'
        /\ \/ op' = Destroyed /\ Listed' = Listed
           \/ /\ op' = Doing("freeall", slaves[1]) /\ Listed' = Listed \ {slaves[1]}
              /\ active' = NoSlave /\ primary' = NoSlave
    BY <1>1, FreeAllBeginCore DEF PointersInv24
  <2>3. UNCHANGED <<devVars, mon, pos>>
    BY <1>1 DEF FreeAllBegin
  <2>4. HandlersInv24'
    BY <1>0, <2>1, <2>2, <2>3 DEF HandlersInv24, Removing, Committing, Idle, Destroyed, Doing, devVars
  <2>5. QED BY <2>2, <2>4 DEF PointersInv24
<1>2. CASE FreeAllNext
  <2>1. op.kind = "freeall" /\ op.dev \notin Listed /\ active = NoSlave /\ primary = NoSlave
    BY <1>0, <1>2 DEF FreeAllNext, HandlersInv24, Removing
  <2>2. /\ PointersCore'
        /\ \/ op' = Destroyed /\ Listed' = Listed
           \/ op' = Doing("freeall", slaves[1]) /\ Listed' = Listed \ {slaves[1]}
    BY <1>2, <2>1, FreeAllNextCore DEF PointersInv24
  <2>3. UNCHANGED <<active, primary, mon, pos>> /\ mon # "committing"
    BY <1>0, <1>2, <2>1 DEF HandlersInv24, Committing, FreeAllNext, monVars
  <2>4. HandlersInv24'
    BY <1>0, <2>1, <2>2, <2>3 DEF HandlersInv24, Removing, Destroyed, Doing
  <2>5. QED BY <2>2, <2>4 DEF PointersInv24
<1>3. QED BY <1>1, <1>2

(* The ioctls that switch the active slave choose it on the list.          *)
LEMMA Switch24Step ==
  ASSUME PointersInv24, op = Idle, NEW new \in Listed \cup {NoSlave},
         NEW rest \in Rest, ChangeActive(new, link, delay, state, rest), bufferMode' \in BOOLEAN,
         UNCHANGED <<devVars, newLink, slaves, primary, bondCarrier, bondUp, killTimers,
                     leaked, monVars, op, oops>>
  PROVE  PointersInv24'
<1>1. op.kind = "none"
  BY OpFacts DEF PointersInv24, PointersCore
<1>2. PointersCore' /\ Listed' = Listed /\ active' = new
  BY SwitchCore DEF PointersInv24
<1>3. HandlersInv24'
  BY <1>1, <1>2 DEF PointersInv24, HandlersInv24, Removing, devVars, monVars
<1>4. QED BY <1>2, <1>3 DEF PointersInv24

(* The ioctls, each with the slave its search finds.                       *)
LEMMA Ioctl24Step ==
  ASSUME PointersInv24,
         IoctlMake24 \/ IoctlHoolockTest24 \/ \E d \in Dev : IoctlChangeActive24(d)
  PROVE  PointersInv24'
<1> DEFINE other == Passive(slaves, active)
           new   == IF other = NoSlave THEN active ELSE other
<1>0. /\ FieldTypes /\ RolesListed /\ op = Idle /\ slaves \in Seq(Dev) /\ bufferMode \in BOOLEAN
  BY DEF PointersInv24, PointersCore, FieldTypes, IoctlChangeActive24, IoctlChangeActive, IoctlHoolockTest24,
         IoctlMake24, WriterFree, RtnlFree
<1>1. ASSUME NEW d \in Dev, IoctlChangeActive24(d) PROVE PointersInv24'
  <2>1. d \in Listed
    BY <1>1 DEF IoctlChangeActive24, Listed
  <2>2. QED BY <1>0, <1>1, <2>1, Switch24Step DEF IoctlChangeActive24, IoctlChangeActive, adminVars, Rest
<1>2. new \in Listed \cup {NoSlave}
  <2>1. other \in Listed \cup {NoSlave}
    BY <1>0, PassiveMember DEF Listed
  <2>2. QED BY <1>0, <2>1 DEF RolesListed
<1>3. IoctlMake24 \/ IoctlHoolockTest24 => ChangeActive(new, link, delay, state, "none")
  BY DEF IoctlMake24, IoctlHoolockTest24, SwitchOver24, ChangeActive24
<1> HIDE DEF new
<1>4. CASE IoctlMake24 \/ IoctlHoolockTest24
  <2>1. /\ bufferMode' \in BOOLEAN
        /\ UNCHANGED <<devVars, newLink, slaves, primary, bondCarrier, bondUp, killTimers, leaked, monVars, op, oops>>
    BY <1>0, <1>4 DEF IoctlMake24, IoctlHoolockTest24, adminVars
  <2>2. QED BY <1>0, <1>2, <1>3, <1>4, <2>1, Switch24Step DEF Rest
<1>5. QED BY <1>1, <1>4

(* Steps that touch neither the list nor the roles nor the handlers, and a *)
(* handler that spins.                                                     *)
LEMMA Other24Step ==
  ASSUME PointersInv24,
         \/ Open \/ Close \/ IoctlBreak \/ IoctlGetActive \/ XmitHoolock \/ MiiQuit \/ UNCHANGED vars
         \/ \E d \in Dev : CarrierChange(d) \/ SlaveUpDown(d)
  PROVE  PointersInv24'
<1>1. /\ PointersCore' /\ Listed' = Listed
      /\ UNCHANGED <<slaves, primary, master, op, active, mon, pos>>
  BY OtherCore DEF PointersInv24
<1>2. QED BY <1>1 DEF PointersInv24, HandlersInv24

(* A handler that spins keeps rtnl for ever.                               *)
LEMMA Spin24Step ==
  ASSUME PointersInv24, mon # "committing", op' = Spinning,
         UNCHANGED <<devVars, slaveVars, bondVars, adminVars, monVars, oops>>
  PROVE  PointersInv24'
<1>1. PointersCore' /\ Listed' = Listed
  BY SpinCore DEF PointersInv24
<1>2. HandlersInv24'
  BY <1>1 DEF PointersInv24, HandlersInv24, Spinning, Removing, monVars
<1>3. QED BY <1>1, <1>2 DEF PointersInv24

(* The monitor.                                                            *)
LEMMA InspectedTypes ==
  ASSUME FieldTypes, NEW s \in Dev
  PROVE  /\ Inspected(s).link \in Link /\ Inspected(s).delay \in Nat
         /\ Inspected(s).new \in {"UP", "DOWN", "NOCHANGE"}
  BY ParamAssumption DEF Inspected, InspectedUp, InspectedDown, Keep, CountDown, FieldTypes, Link

(* The first call of the monitor changes links and delays only.            *)
LEMMA MiiInspect24Step ==
  ASSUME PointersInv24, MiiInspect24
  PROVE  PointersInv24'
<1>0. FieldTypes /\ RolesListed
  BY DEF PointersInv24, PointersCore
<1>1. /\ link' \in [Dev -> Link] /\ delay' \in [Dev -> Nat]
  BY <1>0, InspectedTypes DEF FieldTypes, MiiInspect24
<1>2. /\ mon' \in {"waiting", mon} /\ work' \in BOOLEAN /\ bondCarrier' \in BOOLEAN /\ mon = "idle"
      /\ UNCHANGED <<devVars, newLink, state, slaves, active, primary, gap, adminVars, pos, op, oops>>
  BY <1>0 DEF MiiInspect24, FieldTypes, CarrierOf24, CarrierOf
<1>3. FieldTypes'
  BY <1>0, <1>1, <1>2 DEF FieldTypes, devVars, adminVars
<1>4. QED BY <1>0, <1>2, <1>3, SameListStep24 DEF RolesListed, devVars

(* The monitor has got rtnl.                                               *)
LEMMA MiiCommitBegin24Step ==
  ASSUME PointersInv24, MiiCommitBegin
  PROVE  PointersInv24'
<1>0. HandlersInv24 /\ op = Idle /\ op.kind = "none"
  BY OpFacts DEF PointersInv24, PointersCore, MiiCommitBegin
<1>1. PointersCore' /\ Listed' = Listed
  BY MiiCommitBeginCore DEF PointersInv24
<1>2. HandlersInv24'
  BY <1>0, <1>1 DEF HandlersInv24, MiiCommitBegin, Committing, Removing, devVars, bondVars
<1>3. QED BY <1>1, <1>2 DEF PointersInv24

(* The second call chooses the active slave on the list, if it does.       *)
LEMMA MiiCommit24Step ==
  ASSUME PointersInv24, MiiCommit24
  PROVE  PointersInv24'
<1> DEFINE lnk == [d \in Dev |-> IF d \in Listed THEN Link24(d) ELSE link[d]]
           dly == [d \in Dev |-> IF d \in Listed THEN Inspected(d).delay ELSE delay[d]]
           st  == [d \in Dev |-> IF d \in Listed THEN State24(d) ELSE state[d]]
<1>0. FieldTypes /\ RolesListed /\ HandlersInv24 /\ mon = "committing" /\ op = Committing
  BY DEF PointersInv24, PointersCore, HandlersInv24, MiiCommit24
<1>1. lnk \in [Dev -> Link] /\ dly \in [Dev -> Nat] /\ st \in [Dev -> State]
  BY <1>0, InspectedTypes DEF FieldTypes, Link24, State24, Link, State
<1>2. /\ \/ SelectActive24(lnk, dly, st)
         \/ /\ link' = lnk /\ delay' = dly /\ state' = st /\ bondCarrier' \in BOOLEAN
            /\ UNCHANGED <<active, gap>>
      /\ work' = TRUE /\ mon' = "idle" /\ pos' = 0 /\ op' = Idle
      /\ UNCHANGED <<devVars, newLink, slaves, primary, adminVars, oops>>
  BY <1>0 DEF MiiCommit24, Listed, FieldTypes, CarrierOf24, CarrierOf
<1> HIDE DEF lnk, dly, st
<1>3. /\ active' \in Listed \cup {NoSlave} /\ active' \in Dev \cup {NoSlave}
      /\ link' \in [Dev -> Link] /\ delay' \in [Dev -> Nat] /\ state' \in [Dev -> State]
      /\ bondCarrier' \in BOOLEAN /\ gap' \in Rest
  <2>1. CASE SelectActive24(lnk, dly, st)
    BY <1>0, <1>1, <2>1, SelectActive24Types
  <2>2. CASE UNCHANGED <<active, gap>> /\ link' = lnk /\ delay' = dly /\ state' = st /\ bondCarrier' \in BOOLEAN
    BY <1>0, <1>1, <2>2 DEF FieldTypes, RolesListed
  <2>3. QED BY <1>2, <2>1, <2>2
<1>4. FieldTypes'
  BY <1>0, <1>2, <1>3 DEF FieldTypes, devVars, adminVars
<1>5. PointersCore' /\ Listed' = Listed
  BY <1>2, <1>3, <1>4, SameListCore DEF PointersInv24, devVars
<1>6. HandlersInv24'
  BY <1>2 DEF HandlersInv24, Removing, Idle
<1>7. QED BY <1>5, <1>6 DEF PointersInv24

(* Every step of the port of 2.6.24 with its MII monitor.                  *)
LEMMA MiiNext24Step ==
  ASSUME PointersInv24, MiiNext24
  PROVE  PointersInv24'
<1>1. CASE HandlerStep24
  BY <1>1, EnslaveSetup24Step, EnslaveEnd24Step, ReleaseReselect24Step, ReleaseFinish24Step, FreeAll24Step
     DEF HandlerStep24, EnslaveDone24, EnslaveFails24, ReleaseFinish24, FreeAllNext24
<1>2. CASE MonitorStep24 \/ MiiCommitBegin24
  BY <1>2, MiiInspect24Step, MiiCommit24Step, MiiCommitBegin24Step, Other24Step
     DEF MonitorStep24, MiiQuit24, MiiCommitBegin24
<1>3. CASE \E d \in Dev : AdminStep24(d) \/ CarrierChange(d)
  BY <1>3, EnslaveOpen24Step, ReleaseDetach24Step, ReleaseStray24Step, Ioctl24Step, Other24Step DEF AdminStep24
<1>4. CASE Spin
  <2>1. mon # "committing" /\ op' = Spinning
    BY <1>4 DEF PointersInv24, HandlersInv24, Spin, RtnlFree, Idle, Committing
  <2>2. UNCHANGED <<devVars, slaveVars, bondVars, adminVars, monVars, oops>>
    BY <1>4 DEF Spin
  <2>3. QED BY <2>1, <2>2, Spin24Step
<1>5. CASE (AdminBond24 /\ ~Spin) \/ XmitHoolock24 \/ UNCHANGED vars
  BY <1>5, FreeAll24Step, Ioctl24Step, Other24Step
     DEF AdminBond24, FreeAllBegin24, Open24, Close24, IoctlBreak24, IoctlGetActive24, Spin24, XmitHoolock24
<1>6. QED BY <1>1, <1>2, <1>3, <1>4, <1>5 DEF MiiNext24, AdminBond24, Spin24, Stopped

-------------------------------------------------------------------------------
(***************************************************************************)
(* The pointers under the ARP monitors.                                    *)
(***************************************************************************)

(* What an ARP monitor does between selections, time and the network leave *)
(* the list, its pointers and the handlers alone.                          *)
LEMMA ArpIdleFacts ==
  ASSUME FieldTypes, RolesListed,
         \/ ArpQuit \/ LbBegin \/ LbJudge24 \/ ArpInspect \/ ArpProbe \/ ArpSearch \/ Tick
         \/ \E d \in Dev : ProbeAnswered(d) \/ ProbeHeard(d)
  PROVE  /\ FieldTypes'
         /\ UNCHANGED <<slaves, primary, master, op, pos, active>>
         /\ active' \in Listed \cup {NoSlave}
         /\ mon' = "committing" <=> mon = "committing"
<1>1. UNCHANGED <<devVars, bondVars, adminVars, pos, op, oops>>
  BY DEF ArpQuit, LbBegin, LbJudge24, ArpInspect, ArpProbe, ArpSearch, Tick, ProbeAnswered, ProbeHeard, vars, monVars
<1>2. mon' = "committing" <=> mon = "committing"
  BY DEF ArpQuit, LbBegin, LbJudge24, ArpInspect, ArpProbe, ArpSearch, Tick, ProbeAnswered, ProbeHeard, vars, monVars,
         Runnable, Rearm
<1>3. work' \in BOOLEAN
  BY DEF ArpQuit, LbBegin, LbJudge24, ArpInspect, ArpProbe, ArpSearch, Tick, ProbeAnswered, ProbeHeard, vars, monVars,
         Rearm, FieldTypes
<1>4. newLink' \in [Dev -> {"UP", "DOWN", "NOCHANGE"}] /\ delay' \in [Dev -> Nat]
  <2>1. CASE ArpInspect
    <3>1. \A d \in Dev : ArpInspected(d) \in {"UP", "DOWN", "NOCHANGE"}
      BY DEF ArpInspected
    <3>2. QED BY <2>1, <3>1 DEF ArpInspect, FieldTypes
  <2>2. CASE ~ArpInspect
    BY <2>2 DEF ArpQuit, LbBegin, LbJudge24, ArpProbe, ArpSearch, Tick, ProbeAnswered, ProbeHeard, vars, slaveVars,
                FieldTypes
  <2>3. QED BY <2>1, <2>2
<1>5. link' \in [Dev -> Link] /\ state' \in [Dev -> State]
  <2>1. CASE ArpSearch
    BY <2>1 DEF ArpSearch, FieldTypes, Link, State
  <2>2. CASE LbJudge24
    BY <2>2 DEF LbJudge24, FieldTypes, Link, State
  <2>3. CASE ~ArpSearch /\ ~LbJudge24
    BY <2>3 DEF ArpQuit, LbBegin, ArpInspect, ArpProbe, Tick, ProbeAnswered, ProbeHeard, vars, slaveVars, FieldTypes
  <2>4. QED BY <2>1, <2>2, <2>3
<1>6. FieldTypes'
  BY <1>1, <1>3, <1>4, <1>5 DEF FieldTypes, devVars, bondVars, adminVars
<1>7. QED BY <1>1, <1>2, <1>6 DEF RolesListed, devVars, bondVars

(* bond_loadbalance_arp_mon selects on the list, and does not run while    *)
(* bond_release_all empties it.                                            *)
LEMMA LbPassStep ==
  ASSUME PointersInv, LbPass, op.kind # "freeall"
  PROVE  PointersInv'
<1> DEFINE S   == ToSet(slaves)
           lnk == [d \in Dev |-> IF d \in S /\ Recovered(d) THEN "UP"
                                 ELSE IF d \in S /\ Silent(d) THEN "DOWN" ELSE link[d]]
           st  == [d \in Dev |-> IF d \in S /\ Recovered(d) THEN "ACTIVE"
                                 ELSE IF d \in S /\ Silent(d) THEN "BACKUP" ELSE state[d]]
<1>0. FieldTypes /\ RolesListed /\ delay \in [Dev -> Nat]
  BY DEF PointersInv, PointersCore, FieldTypes
<1>1. lnk \in [Dev -> Link] /\ st \in [Dev -> State]
  BY <1>0 DEF FieldTypes, Link, State
<1>2. /\ \/ SelectActive(lnk, delay, st)
         \/ link' = lnk /\ state' = st /\ UNCHANGED <<delay, active, bondCarrier, gap>>
      /\ work' = TRUE /\ mon' = "idle" /\ mon = "searching"
      /\ UNCHANGED <<devVars, newLink, slaves, primary, adminVars, pos, op, oops>>
  BY DEF LbPass, Rearm
<1> HIDE DEF lnk, st
<1>3. /\ active' \in Listed \cup {NoSlave} /\ active' \in Dev \cup {NoSlave}
      /\ link' \in [Dev -> Link] /\ delay' \in [Dev -> Nat] /\ state' \in [Dev -> State]
      /\ bondCarrier' \in BOOLEAN /\ gap' \in Rest
  <2>1. CASE SelectActive(lnk, delay, st)
    BY <1>0, <1>1, <2>1, SelectActiveTypes
  <2>2. CASE link' = lnk /\ state' = st /\ UNCHANGED <<delay, active, bondCarrier, gap>>
    BY <1>0, <1>1, <2>2 DEF FieldTypes, RolesListed
  <2>3. QED BY <1>2, <2>1, <2>2
<1>4. FieldTypes'
  BY <1>0, <1>2, <1>3 DEF FieldTypes, devVars, adminVars
<1>5. QED BY <1>2, <1>3, <1>4, SameListStep DEF devVars

(* bond_ab_arp_commit selects, or takes the slave of the list it is at or  *)
(* the primary.                                                            *)
LEMMA ArpCommitStep ==
  ASSUME PointersInv, ArpCommitSlave \/ ArpCommitPrimary
  PROVE  PointersInv'
<1>0. /\ FieldTypes /\ RolesListed /\ HandlersInv /\ slaves \in Seq(Dev) /\ Listed \subseteq Dev
      /\ link \in [Dev -> Link] /\ delay \in [Dev -> Nat] /\ state \in [Dev -> State]
      /\ mon = "committing" /\ op.kind = "commit" /\ pos \in Nat /\ pos' = pos + 1
  <2>1. FieldTypes /\ RolesListed /\ HandlersInv
    BY DEF PointersInv, PointersCore
  <2>2. mon = "committing" /\ op = Committing /\ pos' = pos + 1
    BY <2>1 DEF HandlersInv, ArpCommitSlave, ArpCommitPrimary
  <2>3. Listed \subseteq Dev
    BY <2>1, SeqFacts DEF FieldTypes, Listed
  <2>4. QED BY <2>1, <2>2, <2>3 DEF FieldTypes, Committing
<1>1. UNCHANGED <<devVars, newLink, slaves, primary, adminVars, work, mon, op, oops>>
  BY DEF ArpCommitSlave, ArpCommitPrimary
<1>2. /\ active' \in Listed \cup {NoSlave} /\ active' \in Dev \cup {NoSlave}
      /\ link' \in [Dev -> Link] /\ delay' \in [Dev -> Nat] /\ state' \in [Dev -> State]
      /\ bondCarrier' \in BOOLEAN /\ gap' \in Rest
  <2>1. CASE UNCHANGED <<link, delay, state, active, bondCarrier, gap>>
    BY <1>0, <2>1 DEF FieldTypes, RolesListed
  <2>2. ASSUME NEW s \in Listed, CommitUp(s)
        PROVE  \/ UNCHANGED <<link, delay, state, active, bondCarrier, gap>>
               \/ /\ active' \in Listed \cup {NoSlave} /\ active' \in Dev \cup {NoSlave}
                  /\ link' \in [Dev -> Link] /\ delay' \in [Dev -> Nat] /\ state' \in [Dev -> State]
                  /\ bondCarrier' \in BOOLEAN /\ gap' \in Rest
    <3> DEFINE lnk == [link EXCEPT ![s] = "UP"]
    <3>1. lnk \in [Dev -> Link]
      BY <1>0 DEF Link
    <3>2. \/ ChangeActive(s, lnk, delay, state, "end") /\ UNCHANGED bondCarrier
          \/ link' = lnk /\ state' = [state EXCEPT ![s] = "BACKUP"] /\ UNCHANGED <<delay, active, bondCarrier, gap>>
          \/ UNCHANGED <<link, delay, state, active, bondCarrier, gap>>
      BY <2>2 DEF CommitUp
    <3> HIDE DEF lnk
    <3>3. CASE ChangeActive(s, lnk, delay, state, "end") /\ UNCHANGED bondCarrier
      <4>1. s \in Dev /\ "end" \in Rest
        BY <1>0 DEF Rest
      <4>2. QED BY <1>0, <3>1, <3>3, <4>1, ChangeActiveTypes DEF FieldTypes
    <3>4. CASE link' = lnk /\ state' = [state EXCEPT ![s] = "BACKUP"] /\ UNCHANGED <<delay, active, bondCarrier, gap>>
      BY <1>0, <3>1, <3>4 DEF FieldTypes, RolesListed, State
    <3>5. QED BY <3>2, <3>3, <3>4
  <2>3. ASSUME NEW s \in Listed, CommitDown(s)
        PROVE  /\ active' \in Listed \cup {NoSlave} /\ active' \in Dev \cup {NoSlave}
               /\ link' \in [Dev -> Link] /\ delay' \in [Dev -> Nat] /\ state' \in [Dev -> State]
               /\ bondCarrier' \in BOOLEAN /\ gap' \in Rest
    <3> DEFINE lnk == [link EXCEPT ![s] = "DOWN"]
               st  == [state EXCEPT ![s] = IF s = active THEN "BACKUP" ELSE @]
    <3>1. lnk \in [Dev -> Link] /\ st \in [Dev -> State]
      BY <1>0 DEF Link, State
    <3>2. \/ SelectActive(lnk, delay, st)
          \/ link' = lnk /\ state' = st /\ UNCHANGED <<delay, active, bondCarrier, gap>>
      BY <2>3 DEF CommitDown
    <3> HIDE DEF lnk, st
    <3>3. CASE SelectActive(lnk, delay, st)
      BY <1>0, <3>1, <3>3, SelectActiveTypes
    <3>4. CASE link' = lnk /\ state' = st /\ UNCHANGED <<delay, active, bondCarrier, gap>>
      BY <1>0, <3>1, <3>4 DEF FieldTypes, RolesListed
    <3>5. QED BY <3>2, <3>3, <3>4
  <2>4. CASE ArpCommitSlave
    <3>1. slaves[pos] \in Listed
      BY <1>0, <2>4, SeqFacts DEF ArpCommitSlave, HandlersInv, Listed
    <3>2. \/ UNCHANGED <<link, delay, state, active, bondCarrier, gap>>
          \/ CommitUp(slaves[pos]) \/ CommitDown(slaves[pos])
      BY <2>4 DEF ArpCommitSlave
    <3>3. QED BY <2>1, <2>2, <2>3, <3>1, <3>2
  <2>5. CASE ArpCommitPrimary
    <3>1. CASE PrimaryWaits
      <4>1. ChangeActive(primary, link, delay, state, "end") /\ bondCarrier' = bondCarrier
        BY <2>5, <3>1 DEF ArpCommitPrimary
      <4>2. primary \in Listed /\ primary \in Dev /\ "end" \in Rest
        BY <1>0, <3>1 DEF PrimaryWaits, RolesListed, Rest
      <4>3. QED BY <1>0, <4>1, <4>2, ChangeActiveTypes DEF FieldTypes
    <3>2. CASE ~PrimaryWaits
      BY <2>1, <2>5, <3>2 DEF ArpCommitPrimary
    <3>3. QED BY <3>1, <3>2
  <2>6. QED BY <2>4, <2>5
<1>3. FieldTypes'
  BY <1>0, <1>1, <1>2 DEF FieldTypes, devVars, adminVars
<1>4. QED BY <1>0, <1>1, <1>2, <1>3, SameListStep DEF devVars

(* The end of the loop leaves the list alone.                              *)
LEMMA ArpCommitEndStep ==
  ASSUME PointersInv, ArpCommitEnd
  PROVE  PointersInv'
<1>0. /\ FieldTypes /\ RolesListed /\ HandlersInv /\ mon = "committing" /\ op = Committing /\ op.kind = "commit"
  BY DEF PointersInv, PointersCore, HandlersInv, Committing, ArpCommitEnd
<1>1. /\ UNCHANGED <<devVars, link, delay, state, slaves, active, primary, gap, adminVars, work, oops>>
      /\ mon' = "relock" /\ op' = Idle /\ pos' = 0
  BY DEF ArpCommitEnd
<1>2. FieldTypes'
  BY <1>0, <1>1 DEF FieldTypes, ArpCommitEnd, CarrierOf, devVars, adminVars
<1>3. PointersCore' /\ Listed' = Listed
  BY <1>0, <1>1, <1>2, SameListCore DEF PointersInv, RolesListed, devVars
<1>4. HandlersInv'
  BY <1>0, <1>1, <1>3 DEF HandlersInv, Adding, Removing, Idle, devVars
<1>5. QED BY <1>3, <1>4 DEF PointersInv

(* A handler that works under the ARP monitor moves current_arp_slave with *)
(* the list.                                                               *)
LEMMA CurAfter ==
  ASSUME slaves \in Seq(Dev), Once(slaves), cur \in Listed \cup {NoSlave}, cur' = SearchAfter,
         \/ slaves' = slaves
         \/ \E d \in Dev \ Listed : slaves' = Attach(slaves, d)
         \/ \E d \in Listed : slaves' = Detach(slaves, d)
         \/ slaves # <<>> /\ slaves' = Tail(slaves)
  PROVE  cur' \in Listed' \cup {NoSlave}
<1>1. CASE slaves' = slaves
  BY <1>1 DEF SearchAfter, Listed
<1>2. CASE \E d \in Dev \ Listed : slaves' = Attach(slaves, d)
  <2>1. PICK d \in Dev \ Listed : slaves' = Attach(slaves, d)
    BY <1>2
  <2>2. Listed' = Listed \cup {d}
    BY <2>1, AttachMembers DEF Listed
  <2>3. QED BY <2>2 DEF SearchAfter
<1>3. CASE \E d \in Listed : slaves' = Detach(slaves, d)
  <2>1. PICK d \in Listed : slaves' = Detach(slaves, d)
    BY <1>3
  <2>2. Len(slaves') = Len(slaves) - 1 /\ Len(slaves) \in Nat
    BY <2>1, DetachMembers DEF Listed
  <2>3. QED BY <2>2 DEF SearchAfter
<1>4. CASE slaves # <<>> /\ slaves' = Tail(slaves)
  <2>1. Len(slaves') = Len(slaves) - 1 /\ Len(slaves) \in Nat
    BY <1>4
  <2>2. QED BY <2>1 DEF SearchAfter
<1>5. QED BY <1>1, <1>2, <1>3, <1>4

(* What the handlers do to the list, in either port.                       *)
LEMMA HandlerList ==
  ASSUME PointersInv, ArpHandler
  PROVE  \/ slaves' = slaves
         \/ \E d \in Dev \ Listed : slaves' = Attach(slaves, d)
         \/ \E d \in Listed : slaves' = Detach(slaves, d)
         \/ slaves # <<>> /\ slaves' = Tail(slaves)
<1>1. CASE Reader
  BY <1>1 DEF Reader, EnslaveSetup, EnslaveDone, ReleaseReselect, ReleaseFinish, AfterNotify, Open, SlaveUpDown,
              IoctlChangeActive, bondVars
<1>2. CASE Close \/ FreeAllBegin \/ FreeAllNext
  BY <1>2 DEF Close, FreeAllBegin, FreeAllNext, HasSlaves, bondVars
<1>3. ASSUME NEW d \in Dev, EnslaveAttach(d) PROVE d \in Dev \ Listed /\ slaves' = Attach(slaves, d)
  BY <1>3 DEF EnslaveAttach, Listed
<1>4. ASSUME NEW d \in Dev, ReleaseDetach(d) PROVE d \in Listed /\ slaves' = Detach(slaves, d)
  <2>1. op.kind = "none" /\ master[d]
    BY <1>4 DEF ReleaseDetach, WriterFree, RtnlFree, Idle
  <2>2. QED BY <1>4, <2>1 DEF PointersInv, HandlersInv, Removing, ReleaseDetach
<1>5. QED BY <1>1, <1>2, <1>3, <1>4 DEF ArpHandler, Writer

(* The same of 2.6.24.                                                     *)
LEMMA HandlerList24 ==
  ASSUME PointersInv24, ArpHandler24
  PROVE  \/ slaves' = slaves
         \/ \E d \in Dev \ Listed : slaves' = Attach(slaves, d)
         \/ \E d \in Listed : slaves' = Detach(slaves, d)
         \/ slaves # <<>> /\ slaves' = Tail(slaves)
<1>0. slaves \in Seq(Dev) /\ HandlersInv24 /\ (op.kind = "enslave" => op.dev \in Dev)
  BY OpFacts DEF PointersInv24, PointersCore, FieldTypes, Adding
<1>1. CASE Reader24
  BY <1>1 DEF Reader24, EnslaveDone24, EnslaveFails24, ReleaseFinish24, Open24, EnslaveOpen24, IoctlChangeActive24,
              EnslaveDone, EnslaveFails, ReleaseFinish, Open, IoctlChangeActive, bondVars
<1>2. CASE Close \/ FreeAllBegin \/ FreeAllNext \/ ReleaseReselect24
  BY <1>2 DEF Close, FreeAllBegin, FreeAllNext, ReleaseReselect24, HasSlaves, bondVars
<1>3. CASE EnslaveSetup24
  BY <1>0, <1>3 DEF EnslaveSetup24, HandlersInv24, Attach24
<1>4. ASSUME NEW d \in Dev, ReleaseDetach24(d) PROVE d \in Listed /\ slaves' = Detach(slaves, d)
  BY <1>4 DEF ReleaseDetach24, ReleaseDetach, Listed
<1>5. ASSUME NEW d \in Dev, ReleaseStray24(d)
      PROVE  SlaveByDev(slaves, d) \in Listed /\ slaves' = Detach(slaves, SlaveByDev(slaves, d))
  <2>1. slaves # <<>>
    BY <1>5 DEF ReleaseStray24, SlaveByDev24, SlaveByDev
  <2>2. QED BY <1>0, <1>5, <2>1, SlaveByDevMember DEF ReleaseStray24, SlaveByDev24, Detach24, Listed
<1>6. QED BY <1>1, <1>2, <1>3, <1>4, <1>5
          DEF ArpHandler24, Writer24, FreeAllBegin24, FreeAllNext24, Close24

(* The search for a candidate stays on the list.                           *)
LEMMA SearchStays ==
  ASSUME slaves \in Seq(Dev), cur \in Listed \cup {NoSlave}, ArpSearch
  PROVE  cur' \in Listed \cup {NoSlave}
<1>1. CASE ~HasSlaves
  BY <1>1 DEF ArpSearch
<1>2. CASE HasSlaves
  <2> DEFINE turn == TurnFrom(slaves, SearchFrom)
             Hit(k)   == IsUp(SearchTurn[k]) /\ \A j \in 1..(k - 1) : ~IsUp(SearchTurn[j])
  <2>1. SearchFrom \in Listed /\ SearchFrom \in Dev
    BY <1>2, SeqFacts DEF SearchFrom, HasSlaves, Listed
  <2>2. turn \in Seq(Dev) /\ ToSet(turn) \subseteq Listed /\ turn # <<>>
    BY <2>1, TurnMembers, TurnHead DEF Listed
  <2>3. SearchTurn = Append(Tail(turn), SearchFrom)
    BY DEF SearchTurn
  <2> HIDE DEF turn
  <2>4. /\ SearchTurn \in Seq(Dev) /\ Len(SearchTurn) \in Nat
        /\ \A k \in 1..Len(SearchTurn) : SearchTurn[k] \in Listed
    <3>1. /\ Tail(turn) \in Seq(Dev) /\ Len(Tail(turn)) = Len(turn) - 1
          /\ \A k \in 1..Len(Tail(turn)) : Tail(turn)[k] = turn[k + 1]
      BY <2>2
    <3>2. \A k \in 1..Len(turn) : turn[k] \in Listed
      BY <2>2, SeqFacts
    <3>3. \A k \in 1..Len(Tail(turn)) : Tail(turn)[k] \in Listed
      BY <2>2, <3>1, <3>2
    <3> DEFINE rest == Tail(turn)
               from == SearchFrom
    <3> HIDE DEF rest, from
    <3>4. /\ rest \in Seq(Dev) /\ from \in Listed /\ from \in Dev /\ \A k \in 1..Len(rest) : rest[k] \in Listed
          /\ SearchTurn = Append(rest, from)
      BY <2>1, <2>3, <3>1, <3>3 DEF rest, from
    <3>5. /\ Append(rest, from) \in Seq(Dev) /\ Len(Append(rest, from)) = Len(rest) + 1
          /\ \A k \in 1..(Len(rest) + 1) : Append(rest, from)[k] = IF k = Len(rest) + 1 THEN from ELSE rest[k]
      BY <3>4
    <3>6. \A k \in 1..(Len(rest) + 1) : Append(rest, from)[k] \in Listed
      BY <3>4, <3>5
    <3>7. QED BY <3>4, <3>5, <3>6
  <2>5. Candidate = IF \E k \in 1..Len(SearchTurn) : Hit(k)
                      THEN SearchTurn[CHOOSE k \in 1..Len(SearchTurn) : Hit(k)] ELSE NoSlave
    BY DEF Candidate, FirstSuch
  <2> HIDE DEF Hit
  <2>6. Candidate \in Listed \cup {NoSlave}
    BY <2>4, <2>5
  <2>7. QED BY <1>2, <2>1, <2>6 DEF ArpSearch
<1>3. QED BY <1>1, <1>2

(* The handlers under the ARP monitor are those of the other one.          *)
LEMMA ArpHandlerStep ==
  ASSUME PointersInv, ArpHandler
  PROVE  PointersInv'
  BY EnslaveAttachStep, EnslaveSetupStep, EnslaveEndStep, ReleaseDetachStep, ReleaseReselectStep, ReleaseFinishStep,
     FreeAllBeginStep, FreeAllNextStep, AfterNotifyStep, IoctlStep, OtherStep
  DEF ArpHandler, Writer, Reader

(* The handlers of 2.6.24 keep the pointers while no monitor holds the     *)
(* lock.                                                                   *)
LEMMA ArpHandler24Step ==
  ASSUME PointersInv24, ArpHandler24
  PROVE  PointersInv24'
<1>1. CASE Writer24
  BY <1>1, FreeAll24Step, Other24Step, EnslaveSetup24Step, ReleaseReselect24Step, ReleaseDetach24Step,
     ReleaseStray24Step
     DEF Writer24, FreeAllBegin24, FreeAllNext24, Close24
<1>2. CASE Reader24
  BY <1>2, EnslaveEnd24Step, ReleaseFinish24Step, Other24Step, EnslaveOpen24Step, Ioctl24Step
     DEF Reader24, EnslaveDone24, EnslaveFails24, ReleaseFinish24, Open24
<1>3. QED BY <1>1, <1>2 DEF ArpHandler24

(* Every step under the ARP monitors of 2.6.27.                            *)
LEMMA ArpPointersStep ==
  ASSUME PointersInv, SearchInv, ArpNext
  PROVE  PointersInv'
<1>0. FieldTypes /\ RolesListed /\ HandlersInv /\ monitor = "arp"
  BY DEF PointersInv, PointersCore, ArpNext
<1>1. CASE \/ ArpQuit \/ LbBegin \/ ArpInspect \/ ArpProbe \/ ArpSearch \/ Tick
           \/ \E d \in Dev : ProbeAnswered(d) \/ ProbeHeard(d)
  <2>1. /\ FieldTypes' /\ UNCHANGED <<slaves, primary, master, op, pos, active>> /\ active' \in Listed \cup {NoSlave}
        /\ mon' = "committing" <=> mon = "committing"
    BY <1>0, <1>1, ArpIdleFacts
  <2>2. QED BY <1>0, <2>1, SameListStep DEF HandlersInv
<1>2. CASE LbPass
  <2>1. op.kind # "freeall"
    BY <1>0, <1>2 DEF SearchInv, LbPass
  <2>2. QED BY <1>2, <2>1, LbPassStep
<1>3. CASE ArpCommitBegin
  BY <1>3, MiiCommitBeginStep DEF ArpCommitBegin
<1>4. CASE ArpCommitSlave \/ ArpCommitPrimary \/ ArpCommitEnd
  BY <1>4, ArpCommitStep, ArpCommitEndStep
<1>5. CASE ArpHandler
  BY <1>5, ArpHandlerStep
<1>6. CASE Stopped
  BY <1>6, OtherStep DEF Stopped
<1>7. QED BY <1>1, <1>2, <1>3, <1>4, <1>5, <1>6 DEF ArpNext, ArpMonitorStep

(* Every step of 2.6.27 keeps the search on the list.                      *)
LEMMA ArpSearchStep ==
  ASSUME PointersInv, SearchInv, ArpNext
  PROVE  SearchInv'
<1>0. /\ slaves \in Seq(Dev) /\ Once(slaves) /\ HandlersInv /\ monitor = "arp" /\ monitor' = monitor
      /\ FieldTypes /\ RolesListed /\ cur \in Listed \cup {NoSlave}
  BY DEF PointersInv, PointersCore, FieldTypes, ListedOnce, ArpNext, ArpHandler, ArpFields, ArpMonitorStep, ArpQuit,
         LbBegin, LbPass, ArpInspect, ArpCommitSlave, ArpCommitPrimary, ArpCommitEnd, ArpProbe, ArpSearch,
         ArpCommitBegin, Tick, ProbeAnswered, ProbeHeard, arpVars, SearchInv
<1>1. CASE ArpHandler
  <2>1. cur' \in Listed' \cup {NoSlave}
    <3>1. cur' = SearchAfter
      BY <1>1 DEF ArpHandler, ArpFields
    <3>2. QED BY <1>0, <1>1, <3>1, HandlerList, CurAfter
  <2>2. CASE Writer /\ mon \notin {"probing", "searching"}
    <3>1. /\ mon' = mon
          /\ op'.kind = "freeall" => killTimers' = TRUE \/ (op.kind = "freeall" /\ killTimers' = killTimers)
      <4>1. CASE FreeAllBegin
        BY <4>1 DEF FreeAllBegin
      <4>2. CASE FreeAllNext
        BY <4>2 DEF FreeAllNext, monVars, adminVars
      <4>3. CASE Close
        BY <4>3 DEF Close, WriterFree, RtnlFree, Idle
      <4>4. ASSUME NEW d \in Dev, EnslaveAttach(d) \/ ReleaseDetach(d)
            PROVE  mon' = mon /\ op'.kind # "freeall"
        <5>1. /\ mon' = mon
              /\ \/ op' = [kind |-> "enslave", dev |-> d] \/ op' = [kind |-> "release", dev |-> d]
                 \/ op' = [kind |-> "reselect", dev |-> d]
          BY <4>4 DEF EnslaveAttach, ReleaseDetach, Doing, monVars
        <5>2. QED BY <5>1
      <4>5. QED BY <2>2, <4>1, <4>2, <4>3, <4>4 DEF Writer
    <3>2. QED BY <1>0, <2>1, <2>2, <3>1 DEF SearchInv
  <2>3. CASE Reader
    <3>1. mon' = mon /\ (op'.kind = "freeall" => op.kind = "freeall" /\ killTimers' = killTimers)
      BY <2>3 DEF Reader, EnslaveSetup, EnslaveDone, ReleaseReselect, ReleaseFinish, AfterNotify, Open, SlaveUpDown,
                  IoctlChangeActive, WriterFree, RtnlFree, Idle, Doing, monVars, adminVars
    <3>2. QED BY <1>0, <2>1, <3>1 DEF SearchInv
  <2>4. QED BY <1>1, <2>2, <2>3 DEF ArpHandler
<1>2. CASE ArpNext /\ ~ArpHandler
  <2>1. slaves' = slaves /\ Listed' = Listed
    BY <1>2 DEF ArpNext, ArpMonitorStep, ArpQuit, LbBegin, LbPass, ArpInspect, ArpCommitSlave, ArpCommitPrimary,
         ArpCommitEnd, ArpProbe, ArpSearch, ArpCommitBegin, MiiCommitBegin, Tick, ProbeAnswered, ProbeHeard, Stopped,
         vars, bondVars, Listed
  <2>2. cur' \in Listed \cup {NoSlave}
    <3>1. ~ArpSearch => cur' \in {cur, NoSlave}
      BY <1>2 DEF ArpNext, ArpMonitorStep, ArpQuit, LbBegin, LbPass, ArpInspect, ArpCommitSlave, ArpCommitPrimary,
         ArpCommitEnd, ArpProbe, ArpCommitBegin, CommitUp, CommitDown, Tick, ProbeAnswered, ProbeHeard, arpVars
    <3>2. QED BY <1>0, <3>1, SearchStays
  <2>3. op'.kind = "freeall" => op.kind = "freeall" /\ killTimers' = killTimers
    BY <1>2 DEF ArpNext, ArpMonitorStep, ArpQuit, LbBegin, LbPass, ArpInspect, ArpCommitSlave, ArpCommitPrimary,
         ArpCommitEnd, ArpProbe, ArpSearch, ArpCommitBegin, MiiCommitBegin, Tick, ProbeAnswered, ProbeHeard, Stopped,
         vars, adminVars, Idle, Committing
  <2>4. mon' = "searching" /\ Mode # "activebackup" => mon = "searching" \/ ~killTimers
    BY <1>2 DEF ArpNext, ArpMonitorStep, ArpQuit, LbBegin, LbPass, ArpInspect, ArpCommitSlave, ArpCommitPrimary,
         ArpCommitEnd, ArpProbe, ArpSearch, ArpCommitBegin, MiiCommitBegin, Tick, ProbeAnswered, ProbeHeard, Stopped,
         vars, monVars, Rearm
  <2>5. QED BY <1>0, <2>1, <2>2, <2>3, <2>4 DEF SearchInv
<1>3. QED BY <1>1, <1>2

(* Every step under the ARP monitor of 2.6.24.                             *)
LEMMA ArpPointers24Step ==
  ASSUME PointersInv24, ArpNext24
  PROVE  PointersInv24'
<1>0. FieldTypes /\ RolesListed /\ HandlersInv24
  BY DEF PointersInv24, PointersCore
<1>1. CASE \/ ArpQuit \/ LbBegin \/ LbJudge24 \/ Tick
           \/ \E d \in Dev : ProbeAnswered(d) \/ ProbeHeard(d)
  <2>1. /\ FieldTypes' /\ UNCHANGED <<slaves, primary, master, op, pos, active>> /\ active' \in Listed \cup {NoSlave}
        /\ mon' = "committing" <=> mon = "committing"
    BY <1>0, <1>1, ArpIdleFacts
  <2>2. QED BY <1>0, <2>1, SameListStep24 DEF HandlersInv24
<1>2. CASE LbSelect24
  <2>1. /\ active' \in Listed \cup {NoSlave} /\ active' \in Dev \cup {NoSlave}
        /\ link' \in [Dev -> Link] /\ delay' \in [Dev -> Nat] /\ state' \in [Dev -> State]
        /\ bondCarrier' \in BOOLEAN /\ gap' \in Rest
    <3>1. link \in [Dev -> Link] /\ delay \in [Dev -> Nat] /\ state \in [Dev -> State]
      BY <1>0 DEF FieldTypes
    <3>2. SelectActive24(link, delay, state)
      BY <1>2 DEF LbSelect24
    <3>3. QED BY <1>0, <3>1, <3>2, SelectActive24Types
  <2>2. /\ UNCHANGED <<devVars, newLink, slaves, primary, adminVars, pos, op, oops>>
        /\ mon = "rtnl" /\ mon' = "idle" /\ work' = TRUE /\ op = Idle
    BY <1>2 DEF LbSelect24, Rearm
  <2>3. FieldTypes'
    BY <1>0, <2>1, <2>2 DEF FieldTypes, devVars, adminVars
  <2>4. op.kind = "none"
    BY <2>2 DEF Idle
  <2>5. QED BY <2>1, <2>2, <2>3, <2>4, SameListStep24 DEF devVars
<1>3. CASE Deadly24
  <2>1. mon # "committing" /\ op' = Spinning
    BY <1>3 DEF Deadly24
  <2>2. UNCHANGED <<devVars, slaveVars, bondVars, adminVars, monVars, oops>>
    BY <1>3 DEF Deadly24
  <2>3. QED BY <2>1, <2>2, Spin24Step
<1>4. CASE ArpHandler24
  BY <1>4, ArpHandler24Step
<1>5. CASE Stopped \/ Locked24
  BY <1>5, Other24Step DEF Stopped, Locked24, avars
<1>6. QED BY <1>1, <1>2, <1>3, <1>4, <1>5 DEF ArpNext24, ArpMonitorStep24, ArpQuit24, LbBegin24

(* Every step of 2.6.24 keeps the search on the list.                      *)
LEMMA ArpSearch24Step ==
  ASSUME PointersInv24, SearchInv, monitor = "arp", ArpNext24
  PROVE  monitor' = monitor /\ SearchInv'
<1>0. /\ slaves \in Seq(Dev) /\ Once(slaves) /\ monitor' = monitor /\ cur \in Listed \cup {NoSlave}
      /\ monitor = "arp"
  BY DEF PointersInv24, PointersCore, FieldTypes, ListedOnce, ArpNext24, ArpHandler24, ArpFields, ArpMonitorStep24,
         ArpQuit24, LbBegin24, ArpQuit, LbBegin, LbJudge24, LbSelect24, Deadly24, Locked24, Tick, ProbeAnswered,
         ProbeHeard, arpVars, avars, SearchInv
<1>1. CASE ArpHandler24
  <2>1. cur' \in Listed' \cup {NoSlave}
    <3>1. cur' = SearchAfter
      BY <1>1 DEF ArpHandler24, ArpFields
    <3>2. QED BY <1>0, <1>1, <3>1, HandlerList24, CurAfter
  <2>2. CASE Writer24 /\ mon \notin {"searching", "rtnl"}
    <3>1. mon' = mon
      BY <2>2 DEF Writer24, FreeAllBegin24, FreeAllNext24, Close24, FreeAllBegin, FreeAllNext, Close, EnslaveSetup24,
                  ReleaseReselect24, ReleaseDetach24, ReleaseDetach, ReleaseStray24, monVars
    <3>2. op'.kind = "freeall" => killTimers' = TRUE \/ (op.kind = "freeall" /\ killTimers' = killTimers)
      <4>1. CASE FreeAllBegin
        BY <4>1 DEF FreeAllBegin
      <4>2. CASE FreeAllNext
        BY <4>2 DEF FreeAllNext, adminVars
      <4>3. CASE Close
        BY <4>3 DEF Close, WriterFree, RtnlFree, Idle
      <4>4. CASE EnslaveSetup24 \/ ReleaseReselect24 \/ \E d \in Dev : ReleaseDetach24(d) \/ ReleaseStray24(d)
        <5>1. \E k \in {"symlinks", "release", "reselect"}, d \in Dev \cup {op.dev} : op' = [kind |-> k, dev |-> d]
          BY <4>4 DEF EnslaveSetup24, ReleaseReselect24, ReleaseDetach24, ReleaseDetach, ReleaseStray24, Doing
        <5>2. QED BY <5>1
      <4>5. QED BY <2>2, <4>1, <4>2, <4>3, <4>4 DEF Writer24, FreeAllBegin24, FreeAllNext24, Close24
    <3>3. QED BY <1>0, <2>1, <2>2, <3>1, <3>2 DEF SearchInv
  <2>3. CASE Reader24
    <3>1. mon' = mon
      BY <2>3 DEF Reader24, EnslaveDone24, EnslaveDone, EnslaveFails24, EnslaveFails, ReleaseFinish24, ReleaseFinish,
                  Open24, Open, EnslaveOpen24, IoctlChangeActive24, IoctlChangeActive, monVars
    <3>2. op'.kind # "freeall"
      <4>1. CASE EnslaveDone \/ EnslaveFails \/ ReleaseFinish \/ Open \/ \E d \in Dev : IoctlChangeActive(d)
        BY <4>1 DEF EnslaveDone, EnslaveFails, ReleaseFinish, Open, IoctlChangeActive, WriterFree, RtnlFree, Idle
      <4>2. ASSUME NEW d \in Dev, EnslaveOpen24(d) PROVE op'.kind # "freeall"
        <5>1. op' = [kind |-> "enslave", dev |-> d] \/ op' = [kind |-> "none", dev |-> NoSlave]
          BY <4>2 DEF EnslaveOpen24, WriterFree, RtnlFree, Idle, Doing
        <5>2. QED BY <5>1
      <4>3. QED BY <2>3, <4>1, <4>2
                DEF Reader24, EnslaveDone24, EnslaveFails24, ReleaseFinish24, Open24, IoctlChangeActive24
    <3>3. QED BY <1>0, <2>1, <3>1, <3>2 DEF SearchInv
  <2>4. QED BY <1>0, <1>1, <2>2, <2>3 DEF ArpHandler24
<1>2. CASE ArpNext24 /\ ~ArpHandler24
  <2>1. slaves' = slaves /\ Listed' = Listed /\ cur' = cur
    BY <1>2 DEF ArpNext24, ArpMonitorStep24, ArpQuit24, LbBegin24, ArpQuit, LbBegin, LbJudge24, LbSelect24, Deadly24,
         Locked24, Tick, ProbeAnswered, ProbeHeard, Stopped, vars, bondVars, arpVars, avars, Listed
  <2>2. op'.kind = "freeall" => op.kind = "freeall" /\ killTimers' = killTimers
    BY <1>2 DEF ArpNext24, ArpMonitorStep24, ArpQuit24, LbBegin24, ArpQuit, LbBegin, LbJudge24, LbSelect24, Deadly24,
         Locked24, Tick, ProbeAnswered, ProbeHeard, Stopped, vars, adminVars, avars, Spinning
  <2>3. mon' = "searching" => mon = "searching" \/ ~killTimers
    BY <1>2 DEF ArpNext24, ArpMonitorStep24, ArpQuit24, LbBegin24, ArpQuit, LbBegin, LbJudge24, LbSelect24, Deadly24,
         Locked24, Tick, ProbeAnswered, ProbeHeard, Stopped, vars, monVars, avars, Rearm
  <2>4. QED BY <1>0, <2>1, <2>2, <2>3 DEF SearchInv
<1>3. QED BY <1>1, <1>2

-------------------------------------------------------------------------------
(***************************************************************************)
(* The theorems about pointers and types.                                  *)
(***************************************************************************)

(* The pointers of a driver and of its monitor.                            *)
PortInv == PortPointersInv /\ SearchInv /\ kernel \in Kernels /\ monitor \in Monitors

(* The initial states satisfy the invariant.                               *)
LEMMA PortInvInit == PortInit => PortInv
<1> SUFFICES ASSUME PortInit PROVE PortInv
  OBVIOUS
<1>1. /\ Init /\ cur = NoSlave /\ monitor \in Monitors /\ kernel \in Kernels
      /\ op = Idle /\ mon = "idle"
  BY KernelsAssumption DEF PortInit, ArpInit, Init
<1>2. PointersInv
  BY <1>1, PointersInit
<1>3. PointersInv24
  BY <1>1, <1>2 DEF PointersInv, PointersInv24, HandlersInv24, Idle, Removing
<1>4. SearchInv
  BY <1>1 DEF SearchInv, Idle
<1>5. QED BY <1>1, <1>2, <1>3, <1>4 DEF PortInv, PortPointersInv

(* Every step of either port keeps it.                                     *)
LEMMA PortInvNext == PortInv /\ [PortNext]_pvars => PortInv'
<1> SUFFICES ASSUME PortInv, [PortNext]_pvars PROVE PortInv'
  OBVIOUS
<1>0. /\ SearchInv /\ kernel \in Kernels /\ monitor \in Monitors /\ kernel \in {"2.6.24", "2.6.27"}
      /\ kernel = "2.6.27" => PointersInv
      /\ kernel = "2.6.24" => PointersInv24
  BY KernelsAssumption DEF PortInv, PortPointersInv
<1>1. kernel' = kernel
  BY DEF PortNext, pvars
<1>2. ASSUME UNCHANGED arpVars, monitor = "mii" \/ UNCHANGED vars PROVE SearchInv' /\ monitor' = monitor
  <2>1. cur' = cur /\ monitor' = monitor
    BY <1>2 DEF arpVars
  <2>2. CASE monitor = "mii"
    BY <1>0, <2>1, <2>2 DEF SearchInv
  <2>3. CASE UNCHANGED vars
    BY <1>0, <2>1, <2>3 DEF SearchInv, Listed, vars, bondVars, adminVars, monVars
  <2>4. QED BY <1>2, <2>2, <2>3, <2>1
<1>3. CASE kernel = "2.6.27" /\ monitor = "mii" /\ Next /\ UNCHANGED arpVars
  <2>1. PointersInv'
    BY <1>0, <1>3, PointersNext
  <2>2. QED BY <1>0, <1>1, <1>2, <1>3, <2>1 DEF PortInv, PortPointersInv
<1>4. CASE kernel = "2.6.27" /\ monitor = "arp" /\ ArpNext
  <2>1. PointersInv' /\ SearchInv'
    BY <1>0, <1>4, ArpPointersStep, ArpSearchStep
  <2>2. monitor' = monitor
    BY <1>4 DEF ArpNext, ArpHandler, ArpFields, ArpMonitorStep, ArpQuit, LbBegin, LbPass, ArpInspect, ArpCommitSlave,
         ArpCommitPrimary, ArpCommitEnd, ArpProbe, ArpSearch, ArpCommitBegin, Tick, ProbeAnswered, ProbeHeard, arpVars
  <2>3. QED BY <1>0, <1>1, <1>4, <2>1, <2>2 DEF PortInv, PortPointersInv
<1>5. CASE kernel = "2.6.24" /\ monitor = "mii" /\ MiiNext24 /\ UNCHANGED arpVars
  <2>1. PointersInv24'
    BY <1>0, <1>5, MiiNext24Step
  <2>2. QED BY <1>0, <1>1, <1>2, <1>5, <2>1 DEF PortInv, PortPointersInv
<1>6. CASE kernel = "2.6.24" /\ monitor = "arp" /\ ArpNext24
  <2>1. PointersInv24' /\ SearchInv' /\ monitor' = monitor
    BY <1>0, <1>6, ArpPointers24Step, ArpSearch24Step
  <2>2. QED BY <1>0, <1>1, <1>6, <2>1 DEF PortInv, PortPointersInv
<1>7. CASE UNCHANGED pvars
  <2>1. UNCHANGED vars /\ UNCHANGED arpVars
    BY <1>7 DEF pvars, avars
  <2>2. kernel = "2.6.27" => PointersInv'
    BY <1>0, <2>1, OtherStep
  <2>3. kernel = "2.6.24" => PointersInv24'
    BY <1>0, <2>1, Other24Step
  <2>4. QED BY <1>0, <1>1, <1>2, <2>1, <2>2, <2>3 DEF PortInv, PortPointersInv
<1>8. QED BY <1>3, <1>4, <1>5, <1>6, <1>7 DEF PortNext

(* It holds in every reachable state.                                      *)
LEMMA PortInvAlways == PortSpec => []PortInv
  BY PortInvInit, PortInvNext, PTL DEF PortSpec

(* What the two ports' invariants share: the types and the pointers.       *)
LEMMA PortCoreAlways == PortSpec => []PointersCore
<1>1. PortInv => PointersCore
  BY DEF PortInv, PortPointersInv, PointersInv, PointersInv24
<1>2. QED BY <1>1, PortInvAlways, PTL

(* In either port and under each of the link monitors, unless the creation *)
(* of the symlinks (or, in 2.6.24, the opening of the device) fails:       *)
(* curr_active_slave and primary_slave are NULL or slaves of the list,     *)
(* which holds each slave once and only slaves that are not freed.         *)
THEOREM PortPointers ==
  ASSUME ~SymlinkMayFail
  PROVE  PortSpec => []PointersValid
<1>1. PointersCore => PointersValid
  BY DEF PointersCore, PointersValid
<1>2. QED BY <1>1, PortCoreAlways, PTL

(* In either port, and whatever fails: curr_active_slave, primary_slave    *)
(* and, under the ARP monitor, current_arp_slave are NULL or on the list,  *)
(* also while an instance of the monitor that has given a lock back goes   *)
(* by what it read, and while bond_release_all empties the list.           *)
THEOREM PortSearchListed == PortSpec => []SearchListed
<1>1. PortInv => SearchListed
  BY DEF PortInv, PortPointersInv, PointersInv, PointersInv24, PointersCore, RolesListed, SearchInv, SearchListed
<1>2. QED BY <1>1, PortInvAlways, PTL

(* The same of the specification of the ARP monitors alone.                *)
THEOREM ArpSearchListed == ArpSpec => []SearchListed
<1> DEFINE Inv == PointersInv /\ SearchInv
<1>1. ArpInit => Inv
  <2> SUFFICES ASSUME ArpInit PROVE Inv
    OBVIOUS
  <2>1. Init /\ cur = NoSlave /\ op = Idle
    BY DEF ArpInit, Init
  <2>2. QED BY <2>1, PointersInit DEF SearchInv, Idle
<1>2. Inv /\ [ArpNext]_avars => Inv'
  <2> SUFFICES ASSUME PointersInv, SearchInv, [ArpNext]_avars PROVE PointersInv' /\ SearchInv'
    OBVIOUS
  <2>1. CASE ArpNext
    BY <2>1, ArpPointersStep, ArpSearchStep
  <2>2. CASE UNCHANGED avars
    <3>1. UNCHANGED vars
      BY <2>2 DEF avars
    <3>2. SearchInv'
      BY <2>2 DEF SearchInv, Listed, avars, arpVars, vars, bondVars, adminVars, monVars
    <3>3. QED BY <3>1, <3>2, OtherStep
  <2>3. QED BY <2>1, <2>2
<1>3. Inv => SearchListed
  BY DEF PointersInv, PointersCore, RolesListed, SearchInv, SearchListed
<1>4. QED BY <1>1, <1>2, <1>3, PTL DEF ArpSpec

(* The running instance of the MII monitor is in one of its three places.  *)
LEMMA PortPlaces ==
  ASSUME Monitors = {"mii"}
  PROVE  PortSpec => [](mon \in {"idle", "waiting", "committing"})
<1> DEFINE Places == mon \in {"idle", "waiting", "committing"}
           Inv    == Places /\ monitor = "mii"
<1>1. PortInit => Inv
  BY DEF PortInit, ArpInit, Init
<1>2. Inv /\ [PortNext]_pvars => Inv'
  <2> SUFFICES ASSUME Places, monitor = "mii", [PortNext]_pvars PROVE Inv'
    OBVIOUS
  <2>1. monitor' = monitor
    BY DEF PortNext, pvars, avars, arpVars
  <2>2. CASE Next
    BY <2>1, <2>2, PlacesStep
  <2>3. CASE MiiNext24
    <3>1. HandlerStep24 \/ XmitHoolock24 \/ UNCHANGED vars => mon' = mon
      BY DEF HandlerStep24, EnslaveSetup24, EnslaveDone24, EnslaveDone, EnslaveFails24, EnslaveFails,
             ReleaseReselect24, ReleaseFinish24, ReleaseFinish, FreeAllNext24, FreeAllNext, XmitHoolock24,
             XmitHoolock, vars, monVars
    <3>2. MonitorStep24 \/ MiiCommitBegin24 => mon' \in {mon, "idle", "waiting", "committing"}
      BY DEF MonitorStep24, MiiInspect24, MiiQuit24, MiiQuit, MiiCommit24, MiiCommitBegin24, MiiCommitBegin
    <3>3. AdminBond24 => mon' = mon
      BY DEF AdminBond24, FreeAllBegin24, FreeAllBegin, Open24, Open, Close24, Close, IoctlHoolockTest24, IoctlMake24,
             IoctlBreak24, IoctlBreak, IoctlGetActive24, IoctlGetActive, Spin24, Spin, monVars
    <3>4. \A d \in Dev : AdminStep24(d) \/ CarrierChange(d) => mon' = mon
      BY DEF AdminStep24, EnslaveOpen24, ReleaseDetach24, ReleaseDetach, ReleaseStray24, SlaveUpDown,
             IoctlChangeActive24, IoctlChangeActive, CarrierChange, monVars
    <3>5. QED BY <2>1, <2>3, <3>1, <3>2, <3>3, <3>4 DEF MiiNext24, Stopped
  <2>4. CASE UNCHANGED pvars
    BY <2>1, <2>4 DEF pvars, avars, vars, monVars
  <2>5. QED BY <2>2, <2>3, <2>4 DEF PortNext
<1>3. QED BY <1>1, <1>2, PTL DEF PortSpec

(* In either port with the MII monitor every variable keeps its type.      *)
THEOREM PortTypes ==
  ASSUME Monitors = {"mii"}
  PROVE  PortSpec => []TypeOK
<1>1. PointersCore /\ mon \in {"idle", "waiting", "committing"} => TypeOK
  BY DEF PointersCore, TypeOK
<1>2. QED BY <1>1, PortCoreAlways, PortPlaces, PTL

(* The commit of 2.6.24 moves the active slave for cause only.             *)
LEMMA Commit24Cause ==
  ASSUME PointersInv24, MiiCommit24, active # NoSlave, active' # active
  PROVE  ~IsUp(active) \/ link[active] # "UP" \/ active' = primary
<1> DEFINE lnk  == [d \in Dev |-> IF d \in Listed THEN Link24(d) ELSE link[d]]
           dly  == [d \in Dev |-> IF d \in Listed THEN Inspected(d).delay ELSE delay[d]]
           best == BestSlave(slaves, primary, lnk, dly)
<1> SUFFICES ASSUME IsUp(active), link[active] = "UP"
             PROVE  active' = primary
  OBVIOUS
<1>1. /\ slaves \in Seq(Dev) /\ active \in Listed /\ primary \in Listed \cup {NoSlave} /\ Listed \subseteq Dev
  <2>1. slaves \in Seq(Dev)
    BY DEF PointersInv24, PointersCore, FieldTypes
  <2>2. Listed \subseteq Dev
    BY <2>1, SeqFacts DEF Listed
  <2>3. QED BY <2>1, <2>2 DEF PointersInv24, PointersCore, RolesListed
<1>2. Inspected(active).new = "NOCHANGE" /\ Inspected(active).link = "UP"
  BY DEF Inspected, InspectedUp, Keep, IsUp
<1>3. (\E s \in Listed : Failover24(s)) /\ active' = best
  BY DEF MiiCommit24, SelectActive24, ChangeActive24, ChangeActive, BestSlave24, Listed
<1>4. primary \in Listed /\ Inspected(primary).new = "UP"
  BY <1>2, <1>3 DEF Failover24, Unattended24
<1>5. lnk[primary] = "UP" /\ lnk[active] = "UP"
  BY <1>1, <1>2, <1>4 DEF Link24
<1> HIDE DEF lnk, dly
<1>6. CASE IsUp(primary)
  <2>1. SearchStart(slaves, primary) = primary /\ primary \in ToSet(slaves)
    BY <1>1, <1>4, <1>6, NoSlaveAssumption DEF SearchStart, Listed
  <2>2. best = primary
    BY <1>1, <1>5, <1>6, <2>1, BestSlaveStart
  <2>3. QED BY <1>3, <2>2
<1>7. CASE ~IsUp(primary)
  <2>1. SearchStart(slaves, primary) = active
    BY <1>7 DEF SearchStart
  <2>2. best = active
    BY <1>1, <1>5, <2>1, BestSlaveStart DEF Listed
  <2>3. QED BY <1>3, <2>2
<1>8. QED BY <1>6, <1>7

(* What a monitor may do when it holds rtnl.                               *)
Cause == op.kind = "commit" /\ active # NoSlave /\ active' # active =>
           newLink[active] = "DOWN" \/ ~IsUp(active) \/ link[active] # "UP" \/ active' = primary

(* No step of the ARP monitor of 2.6.27 moves the role while rtnl is held  *)
(* for a commit of the MII monitor.                                        *)
LEMMA ArpCause ==
  ASSUME PointersInv, ArpNext
  PROVE  Cause
<1> SUFFICES ASSUME op.kind = "commit", active # NoSlave, active' # active
             PROVE  newLink[active] = "DOWN" \/ active' = primary
  BY DEF Cause
<1>1. op = Committing /\ mon = "committing" /\ ~RtnlFree /\ ~WriterFree
  BY DEF PointersInv, HandlersInv, RtnlFree, WriterFree, Idle
<1>2. ~ArpHandler
  BY <1>1 DEF ArpHandler, Writer, Reader, FreeAllBegin, FreeAllNext, Close, EnslaveAttach, ReleaseDetach, EnslaveSetup,
              EnslaveDone, ReleaseReselect, ReleaseFinish, AfterNotify, Open, SlaveUpDown, IoctlChangeActive, bondVars
<1>3. CASE ArpCommitSlave
  <2> DEFINE s == slaves[pos]
  <2>1. CommitUp(s) => FALSE
    BY DEF CommitUp
  <2>2. newLink[s] = "DOWN" /\ CommitDown(s)
    BY <1>3, <2>1 DEF ArpCommitSlave
  <2>3. s = active
    BY <2>2 DEF CommitDown
  <2>4. QED BY <2>2, <2>3
<1>4. CASE ArpCommitPrimary
  BY <1>4 DEF ArpCommitPrimary, ChangeActive
<1>5. QED BY <1>1, <1>2, <1>3, <1>4
          DEF ArpNext, ArpMonitorStep, ArpQuit, LbBegin, LbPass, ArpInspect, ArpCommitEnd, ArpProbe, ArpSearch,
              ArpCommitBegin, MiiCommitBegin, Tick, ProbeAnswered, ProbeHeard, Stopped, Runnable, vars, bondVars

(* In 2.6.24 the commit is the only step that moves the role meanwhile.    *)
LEMMA MiiCause24 ==
  ASSUME PointersInv24, MiiNext24
  PROVE  Cause
<1> SUFFICES ASSUME op.kind = "commit", active # NoSlave, active' # active
             PROVE  MiiCommit24
  BY Commit24Cause DEF Cause
<1>1. op = Committing /\ ~RtnlFree /\ ~WriterFree /\ op # Idle
  BY DEF PointersInv24, HandlersInv24, RtnlFree, WriterFree, Idle
<1>2. ~HandlerStep24 /\ ~MiiCommitBegin24
  BY <1>1 DEF HandlerStep24, EnslaveSetup24, EnslaveDone24, EnslaveDone, EnslaveFails24, EnslaveFails,
              ReleaseReselect24, ReleaseFinish24, ReleaseFinish, FreeAllNext24, FreeAllNext, MiiCommitBegin24,
              MiiCommitBegin
<1>3. ~AdminBond24
  BY <1>1 DEF AdminBond24, FreeAllBegin24, FreeAllBegin, Open24, Open, Close24, Close, IoctlHoolockTest24, IoctlMake24,
              IoctlBreak24, IoctlBreak, IoctlGetActive24, IoctlGetActive, Spin24, Spin
<1>4. ~XmitHoolock24 /\ ~Stopped
  BY DEF XmitHoolock24, XmitHoolock, Stopped, vars, bondVars
<1>5. ASSUME NEW d \in Dev PROVE ~AdminStep24(d) /\ ~CarrierChange(d)
  BY <1>1 DEF AdminStep24, EnslaveOpen24, ReleaseDetach24, ReleaseDetach, ReleaseStray24, SlaveUpDown,
              IoctlChangeActive24, IoctlChangeActive, CarrierChange, bondVars
<1>6. MonitorStep24 => MiiCommit24
  BY DEF MonitorStep24, MiiInspect24, MiiQuit24, MiiQuit, bondVars
<1>7. QED BY <1>2, <1>3, <1>4, <1>5, <1>6 DEF MiiNext24

(* No step of the ARP monitor of 2.6.24 does.                              *)
LEMMA ArpCause24 ==
  ASSUME PointersInv24, ArpNext24
  PROVE  Cause
<1> SUFFICES ASSUME op.kind = "commit" PROVE active' = active
  BY DEF Cause
<1>1. op = Committing /\ ~RtnlFree /\ ~WriterFree /\ op # Idle
  BY DEF PointersInv24, HandlersInv24, RtnlFree, WriterFree, Idle
<1>2. ~ArpHandler24 /\ ~LbSelect24
  BY <1>1 DEF ArpHandler24, Writer24, Reader24, FreeAllBegin24, FreeAllBegin, FreeAllNext24, FreeAllNext, Close24,
              Close, EnslaveSetup24, ReleaseReselect24, ReleaseDetach24, ReleaseDetach, ReleaseStray24, EnslaveDone24,
              EnslaveDone, EnslaveFails24, EnslaveFails, ReleaseFinish24, ReleaseFinish, Open24, Open, EnslaveOpen24,
              IoctlChangeActive24, IoctlChangeActive, LbSelect24
<1>3. QED BY <1>2 DEF ArpNext24, ArpMonitorStep24, ArpQuit24, LbBegin24, ArpQuit, LbBegin, LbJudge24, Deadly24,
         Locked24, Tick, ProbeAnswered, ProbeHeard, Stopped, vars, bondVars, avars

(* In either port, under each of the link monitors, in every mode, for all *)
(* numbers of slaves and all delays: a monitor that holds rtnl takes the   *)
(* active role from a slave only if that slave has lost its link or its    *)
(* carrier, or to give it to the primary slave.                            *)
THEOREM PortFailovers == PortSpec => FailoverOnlyForCause
<1>1. PortInv /\ [PortNext]_pvars => [Cause]_vars
  <2> SUFFICES ASSUME PortInv, [PortNext]_pvars PROVE Cause \/ UNCHANGED vars
    OBVIOUS
  <2>1. CASE kernel = "2.6.27" /\ Next
    BY <2>1, NextCause DEF PortInv, PortPointersInv, Cause
  <2>2. CASE kernel = "2.6.27" /\ ArpNext
    BY <2>2, ArpCause DEF PortInv, PortPointersInv
  <2>3. CASE kernel = "2.6.24" /\ MiiNext24
    BY <2>3, MiiCause24 DEF PortInv, PortPointersInv
  <2>4. CASE kernel = "2.6.24" /\ ArpNext24
    BY <2>4, ArpCause24 DEF PortInv, PortPointersInv
  <2>5. CASE UNCHANGED pvars
    BY <2>5 DEF pvars, avars
  <2>6. QED BY <2>1, <2>2, <2>3, <2>4, <2>5 DEF PortNext
<1>2. QED BY <1>1, PortInvAlways, PTL DEF PortSpec, FailoverOnlyForCause, Cause

-------------------------------------------------------------------------------
(***************************************************************************)
(* The active slave under the ARP monitors.                                *)
(***************************************************************************)

(* An active slave that receives: as ActiveReceives and LbActiveUp say.    *)
Receives(a, lnk, st) ==
  a # NoSlave => IF Mode = "activebackup" THEN st[a] = "ACTIVE" /\ lnk[a] = "UP" ELSE lnk[a] # "DOWN"

(* A change of the active slave makes the new one receive.                 *)
LEMMA ChangeReceives ==
  ASSUME FieldTypes, NEW new \in Dev \cup {NoSlave}, NEW lnk \in [Dev -> Link],
         NEW dly \in [Dev -> Nat], NEW st \in [Dev -> State], NEW rest, ChangeActive(new, lnk, dly, st, rest),
         new # NoSlave => lnk[new] # "DOWN",
         new \notin {NoSlave, active} /\ Mode = "activebackup" => lnk[new] \in {"UP", "BACK"},
         new = active => Receives(new, lnk, st)
  PROVE  Receives(active', link', state')
<1>1. CASE new = NoSlave
  BY <1>1 DEF ChangeActive, Receives
<1>2. CASE new = active /\ new # NoSlave
  BY <1>2 DEF ChangeActive, Receives
<1>3. CASE new # active /\ new # NoSlave
  <2>1. active' = new /\ new \in Dev
    BY <1>3 DEF ChangeActive
  <2>2. link'[new] = IF lnk[new] = "BACK" THEN "UP" ELSE lnk[new]
    BY <1>3 DEF ChangeActive
  <2>3. Mode = "activebackup" => state'[new] = "ACTIVE"
    BY <1>3 DEF ChangeActive
  <2>4. QED BY <1>3, <2>1, <2>2, <2>3 DEF Receives
<1>4. QED BY <1>1, <1>2, <1>3

(* Whom a selection finds receives, if the active slave does not keep a    *)
(* link that is no longer up.                                              *)
LEMMA SelectReceives ==
  ASSUME FieldTypes, NEW list \in Seq(Dev), NEW prm \in ToSet(list) \cup {NoSlave},
         active \in ToSet(list) \cup {NoSlave},
         NEW lnk \in [Dev -> Link], NEW dly \in [Dev -> Nat], NEW st \in [Dev -> State], NEW rest,
         ChangeActive(BestSlave(list, prm, lnk, dly), lnk, dly, st, rest),
         active # NoSlave /\ Mode = "activebackup" => Receives(active, lnk, st) \/ lnk[active] = "DOWN"
  PROVE  Receives(active', link', state')
<1> DEFINE best == BestSlave(list, prm, lnk, dly)
<1>1. best \in ToSet(list) \cup {NoSlave} /\ (best # NoSlave => lnk[best] \in {"UP", "BACK"})
  BY BestSlaveListed, BestSlaveReady
<1>2. best \in Dev \cup {NoSlave}
  BY <1>1, SeqFacts
<1> HIDE DEF best
<1>3. best = active => Receives(best, lnk, st)
  BY <1>1 DEF Receives
<1>4. ChangeActive(best, lnk, dly, st, rest)
  BY DEF best
<1>5. QED BY <1>1, <1>2, <1>3, <1>4, ChangeReceives

(* The handlers keep an active slave that receives.                        *)
LEMMA SetupReceives ==
  ASSUME PointersInv, EnslaveSetup, \A d \in Dev : carrier[d], Receives(active, link, state),
         Mode = "activebackup" => op.dev # active
  PROVE  Receives(active', link', state')
<1> DEFINE d   == op.dev
           lnk == [link EXCEPT ![d] = InitialLink(d)]
           dly == [delay EXCEPT ![d] = IF carrier[d] /\ UpDelay > 0 THEN UpDelay ELSE @]
           prm == IF Mode # "trunk" /\ Primary = d THEN d ELSE primary
           st  == [state EXCEPT ![d] = NewSlaveState]
           first == IF active = NoSlave THEN d ELSE active
<1>0. /\ FieldTypes /\ RolesListed /\ d \in Dev /\ d \in Listed /\ op.kind = "enslave"
      /\ slaves \in Seq(Dev) /\ active \in Dev \cup {NoSlave}
      /\ link \in [Dev -> Link] /\ delay \in [Dev -> Nat] /\ state \in [Dev -> State]
  BY OpFacts DEF PointersInv, PointersCore, EnslaveSetup, HandlersInv, Adding, FieldTypes
<1>1. /\ active \in ToSet(slaves) \cup {NoSlave} /\ prm \in ToSet(slaves) \cup {NoSlave}
  BY <1>0 DEF RolesListed, Listed
<1>2. lnk \in [Dev -> Link] /\ dly \in [Dev -> Nat] /\ st \in [Dev -> State] /\ lnk[d] \in {"UP", "BACK"}
  <2>1. InitialLink(d) \in {"UP", "BACK"} /\ NewSlaveState \in State
    BY <1>0 DEF InitialLink, NewSlaveState, State
  <2>2. QED BY <1>0, <2>1, ParamAssumption DEF Link
<1>3. /\ active # NoSlave => lnk[active] = IF active = d THEN lnk[d] ELSE link[active]
      /\ active # NoSlave /\ active # d => st[active] = state[active]
  BY <1>0, <1>2
<1>4. /\ \/ Mode = "activebackup" /\ ChangeActive(BestSlave(slaves, prm, lnk, dly), lnk, dly, st, "carrier")
         \/ Mode # "activebackup" /\ ChangeActive(first, lnk, dly, st, "carrier")
         \/ Mode # "activebackup" /\ active' = first /\ link' = lnk /\ state' = st
  BY DEF EnslaveSetup
<1>5. first \in Dev \cup {NoSlave} /\ (Mode # "activebackup" => Receives(first, lnk, st))
  BY <1>0, <1>2, <1>3 DEF Receives
<1>6. Mode = "activebackup" => Receives(active, lnk, st)
  BY <1>0, <1>3 DEF Receives
<1> HIDE DEF lnk, dly, prm, st, first
<1>7. CASE Mode = "activebackup" /\ ChangeActive(BestSlave(slaves, prm, lnk, dly), lnk, dly, st, "carrier")
  BY <1>0, <1>1, <1>2, <1>6, <1>7, SelectReceives
<1>8. CASE Mode # "activebackup" /\ ChangeActive(first, lnk, dly, st, "carrier")
  <2>1. first # NoSlave => lnk[first] # "DOWN"
    BY <1>5, <1>8 DEF Receives
  <2>2. QED BY <1>0, <1>2, <1>5, <1>8, <2>1, ChangeReceives
<1>9. CASE Mode # "activebackup" /\ active' = first /\ link' = lnk /\ state' = st
  BY <1>5, <1>9 DEF Receives
<1>10. QED BY <1>4, <1>7, <1>8, <1>9

(* Freeing a slave does not take the role.                                 *)
LEMMA DiscardReceives ==
  ASSUME FieldTypes, NEW d \in Dev, Discard(d), active' = active, Receives(active, link, state)
  PROVE  Receives(active', link', state')
  BY DEF FieldTypes, Discard, Receives

(* A handler that gives the role to a slave whose link is up, or to        *)
(* nobody.                                                                 *)
LEMMA RoleReceives ==
  ASSUME FieldTypes, Receives(active, link, state), NEW new \in Dev \cup {NoSlave}, NEW rest,
         new \in {active, NoSlave} \/ link[new] = "UP", ChangeActive(new, link, delay, state, rest)
  PROVE  Receives(active', link', state')
<1>1. link \in [Dev -> Link] /\ delay \in [Dev -> Nat] /\ state \in [Dev -> State]
  BY DEF FieldTypes
<1>2. (new # NoSlave => link[new] # "DOWN") /\ (new = active => Receives(new, link, state))
  BY DEF Receives
<1>3. QED BY <1>1, <1>2, ChangeReceives

(* All the handlers that run beside the ARP monitors.                      *)
LEMMA HandlerReceives ==
  ASSUME PointersInv, ArpHandler, \A d \in Dev : carrier[d], Receives(active, link, state),
         op.kind = "enslave" /\ Mode = "activebackup" => op.dev # active
  PROVE  Receives(active', link', state')
<1>0. /\ FieldTypes /\ RolesListed /\ HandlersInv /\ slaves \in Seq(Dev) /\ active \in Dev \cup {NoSlave}
      /\ link \in [Dev -> Link] /\ delay \in [Dev -> Nat] /\ state \in [Dev -> State]
      /\ op.kind \in Adding \cup Removing => op.dev \in Dev
  BY OpFacts DEF PointersInv, PointersCore, FieldTypes
<1>1. ASSUME NEW d \in Dev, EnslaveAttach(d) PROVE Receives(active', link', state')
  <2>1. d # active \/ active = NoSlave
    BY <1>0, <1>1 DEF EnslaveAttach, RolesListed, Listed
  <2>2. active' = active /\ link' = [link EXCEPT ![d] = "UP"] /\ state' = [state EXCEPT ![d] = "ACTIVE"]
    BY <1>1 DEF EnslaveAttach
  <2>3. QED BY <1>0, <2>1, <2>2 DEF Receives
<1>2. CASE EnslaveSetup
  <2>1. op.kind = "enslave"
    BY <1>2 DEF EnslaveSetup
  <2>2. QED BY <1>2, <2>1, SetupReceives
<1>3. ASSUME NEW d \in Dev, ReleaseDetach(d) PROVE Receives(active', link', state')
  <2>1. ActiveWithout(d) \in {active, NoSlave} /\ ChangeActive(ActiveWithout(d), link, delay, state, "none")
    BY <1>3 DEF ReleaseDetach, ActiveWithout
  <2>2. QED BY <1>0, <2>1, RoleReceives
<1>4. CASE ReleaseReselect
  <2>1. CASE HasSlaves
    <3>1. ChangeActive(BestSlave(slaves, primary, link, delay), link, delay, state, "carrier")
      BY <1>4, <2>1 DEF ReleaseReselect, SelectActive
    <3>2. active \in ToSet(slaves) \cup {NoSlave} /\ primary \in ToSet(slaves) \cup {NoSlave}
      BY <1>0 DEF RolesListed, Listed
    <3>3. QED BY <1>0, <3>1, <3>2, SelectReceives
  <2>2. CASE ~HasSlaves
    BY <1>4, <2>2 DEF ReleaseReselect
  <2>3. QED BY <2>1, <2>2
<1>5. CASE ReleaseFinish \/ FreeAllNext
  <2>1. Discard(op.dev) /\ op.dev \in Dev /\ active' = active
    BY <1>0, <1>5 DEF ReleaseFinish, FreeAllNext, Removing, bondVars
  <2>2. QED BY <1>0, <2>1, DiscardReceives
<1>6. CASE FreeAllBegin
  <2>1. \/ ChangeActive(NoSlave, link, delay, state, "none")
        \/ UNCHANGED <<active, link, state>>
    BY <1>6 DEF FreeAllBegin
  <2>2. QED BY <1>0, <2>1, RoleReceives
<1>7. ASSUME NEW d \in Dev, IoctlChangeActive(d) PROVE Receives(active', link', state')
  <2>1. link[d] = "UP" /\ ChangeActive(d, link, delay, state, "end")
    BY <1>7 DEF IoctlChangeActive
  <2>2. QED BY <1>0, <2>1, RoleReceives
<1>8. CASE EnslaveDone \/ AfterNotify \/ Open \/ Close \/ \E d \in Dev : SlaveUpDown(d)
  BY <1>8 DEF EnslaveDone, AfterNotify, Open, Close, SlaveUpDown, slaveVars, bondVars
<1>9. QED BY <1>1, <1>2, <1>3, <1>4, <1>5, <1>6, <1>7, <1>8 DEF ArpHandler, Writer, Reader

(* The pass of bond_loadbalance_arp_mon does not keep a silent slave that  *)
(* it has found active, in either port.                                    *)
LEMMA LbKeeps ==
  ASSUME FieldTypes, RolesListed, Mode # "activebackup", seen = active, Receives(active, link, state), ~LbFailover,
         NEW lnk, \A d \in Dev : lnk[d] = IF d \in Listed /\ Recovered(d) THEN "UP"
                                           ELSE IF d \in Listed /\ Silent(d) THEN "DOWN" ELSE link[d],
         NEW st
  PROVE  Receives(active, lnk, st)
<1>1. active \in Listed \cup {NoSlave} /\ active \in Dev \cup {NoSlave}
  BY DEF FieldTypes, RolesListed
<1>2. active # NoSlave => ~Silent(active)
  BY <1>1 DEF LbFailover, Listed
<1>3. QED BY <1>1, <1>2 DEF Receives

(* The pass of 2.6.27, which selects in the same section.                  *)
LEMMA LbPassReceives ==
  ASSUME FieldTypes, RolesListed, LbPass, seen = active, Receives(active, link, state)
  PROVE  Receives(active', link', state')
<1> DEFINE S   == ToSet(slaves)
           lnk == [d \in Dev |-> IF d \in S /\ Recovered(d) THEN "UP"
                                 ELSE IF d \in S /\ Silent(d) THEN "DOWN" ELSE link[d]]
           st  == [d \in Dev |-> IF d \in S /\ Recovered(d) THEN "ACTIVE"
                                 ELSE IF d \in S /\ Silent(d) THEN "BACKUP" ELSE state[d]]
<1>1. /\ lnk \in [Dev -> Link] /\ st \in [Dev -> State] /\ delay \in [Dev -> Nat] /\ slaves \in Seq(Dev)
      /\ Mode # "activebackup"
  BY DEF FieldTypes, Link, State, LbPass
<1>2. \A d \in Dev : lnk[d] = IF d \in Listed /\ Recovered(d) THEN "UP"
                               ELSE IF d \in Listed /\ Silent(d) THEN "DOWN" ELSE link[d]
  BY DEF Listed
<1>3. IF LbFailover THEN SelectActive(lnk, delay, st)
      ELSE link' = lnk /\ state' = st /\ UNCHANGED <<delay, active, bondCarrier, gap>>
  BY DEF LbPass
<1> HIDE DEF lnk, st
<1>4. CASE LbFailover
  <2>1. ChangeActive(BestSlave(slaves, primary, lnk, delay), lnk, delay, st, "carrier")
    BY <1>3, <1>4 DEF SelectActive
  <2>2. active \in ToSet(slaves) \cup {NoSlave} /\ primary \in ToSet(slaves) \cup {NoSlave}
    BY DEF RolesListed, Listed
  <2>3. QED BY <1>1, <2>1, <2>2, SelectReceives
<1>5. CASE ~LbFailover
  <2>1. Receives(active, lnk, st)
    BY <1>1, <1>2, <1>5, LbKeeps
  <2>2. QED BY <1>3, <1>5, <2>1
<1>6. QED BY <1>4, <1>5

(* The commit deposes the active slave only to promote another.            *)
LEMMA CommitReceives ==
  ASSUME PointersInv, ArpCommitSlave \/ ArpCommitPrimary, Receives(active, link, state)
  PROVE  Receives(active', link', state')
<1>0. /\ FieldTypes /\ RolesListed /\ HandlersInv /\ slaves \in Seq(Dev) /\ Mode = "activebackup"
      /\ link \in [Dev -> Link] /\ delay \in [Dev -> Nat] /\ state \in [Dev -> State]
      /\ active \in Dev \cup {NoSlave} /\ primary \in Dev \cup {NoSlave}
  BY DEF PointersInv, PointersCore, FieldTypes, ArpCommitSlave, ArpCommitPrimary
<1>1. ASSUME NEW s \in Dev, CommitUp(s) PROVE Receives(active', link', state')
  <2> DEFINE lnk == [link EXCEPT ![s] = "UP"]
  <2>1. lnk \in [Dev -> Link] /\ lnk[s] = "UP"
    BY <1>0 DEF Link
  <2>2. \/ active = NoSlave /\ ChangeActive(s, lnk, delay, state, "end")
        \/ active # s /\ link' = lnk /\ state' = [state EXCEPT ![s] = "BACKUP"] /\ active' = active
        \/ UNCHANGED <<link, state, active>>
    BY <1>1 DEF CommitUp
  <2>3. CASE active = NoSlave /\ ChangeActive(s, lnk, delay, state, "end")
    <3>1. s # active
      BY <2>3, NoSlaveAssumption
    <3> HIDE DEF lnk
    <3>2. QED BY <1>0, <2>1, <2>3, <3>1, ChangeReceives
  <2>4. CASE active # s /\ link' = lnk /\ state' = [state EXCEPT ![s] = "BACKUP"] /\ active' = active
    BY <1>0, <2>4 DEF Receives
  <2>5. CASE UNCHANGED <<link, state, active>>
    BY <2>5
  <2>6. QED BY <2>2, <2>3, <2>4, <2>5
<1>2. ASSUME NEW s \in Dev, CommitDown(s) PROVE Receives(active', link', state')
  <2> DEFINE lnk == [link EXCEPT ![s] = "DOWN"]
             st  == [state EXCEPT ![s] = IF s = active THEN "BACKUP" ELSE @]
  <2>1. lnk \in [Dev -> Link] /\ st \in [Dev -> State] /\ lnk[s] = "DOWN"
    BY <1>0 DEF Link, State
  <2>2. \/ s = active /\ SelectActive(lnk, delay, st)
        \/ s # active /\ link' = lnk /\ state' = st /\ active' = active
    BY <1>2 DEF CommitDown
  <2>3. CASE s = active /\ SelectActive(lnk, delay, st)
    <3>1. ChangeActive(BestSlave(slaves, primary, lnk, delay), lnk, delay, st, "carrier")
      BY <2>3 DEF SelectActive
    <3>2. active \in ToSet(slaves) \cup {NoSlave} /\ primary \in ToSet(slaves) \cup {NoSlave}
      BY <1>0 DEF RolesListed, Listed
    <3>3. lnk[active] = "DOWN"
      BY <2>1, <2>3
    <3> HIDE DEF lnk, st
    <3>4. QED BY <1>0, <2>1, <3>1, <3>2, <3>3, SelectReceives
  <2>4. CASE s # active /\ link' = lnk /\ state' = st /\ active' = active
    BY <1>0, <2>4 DEF Receives
  <2>5. QED BY <2>2, <2>3, <2>4
<1>3. CASE ArpCommitSlave
  <2>1. slaves[pos] \in Dev
    BY <1>0, <1>3, SeqFacts DEF ArpCommitSlave, HandlersInv, FieldTypes
  <2>2. \/ UNCHANGED <<link, state, active>> \/ CommitUp(slaves[pos]) \/ CommitDown(slaves[pos])
    BY <1>3 DEF ArpCommitSlave
  <2>3. QED BY <1>1, <1>2, <2>1, <2>2
<1>4. CASE ArpCommitPrimary
  <2>1. \/ PrimaryWaits /\ ChangeActive(primary, link, delay, state, "end")
        \/ UNCHANGED <<link, state, active>>
    BY <1>4 DEF ArpCommitPrimary
  <2>2. QED BY <1>0, <2>1, RoleReceives DEF PrimaryWaits
<1>5. QED BY <1>3, <1>4

(* Every step under the ARP monitors of 2.6.27 leaves the carriers alone,  *)
LEMMA ArpInvStep ==
  ASSUME PointersInv, ArpInv, ArpNext
  PROVE  ArpInv'
<1>0. /\ FieldTypes /\ RolesListed /\ HandlersInv /\ monitor = "arp"
      /\ \A d \in Dev : carrier[d]
      /\ op.kind = "enslave" /\ Mode = "activebackup" => op.dev # active
  BY DEF PointersInv, PointersCore, ArpNext, ArpInv
<1>1. CASE ArpHandler
  <2>1. UNCHANGED carrier
    BY <1>1 DEF ArpHandler, Writer, Reader, FreeAllBegin, FreeAllNext, Close, EnslaveAttach, ReleaseDetach,
              EnslaveSetup, EnslaveDone, ReleaseReselect, ReleaseFinish, AfterNotify, Open, SlaveUpDown,
              IoctlChangeActive, Discard, devVars
  <2>2. op'.kind = "enslave" /\ Mode = "activebackup" => op'.dev # active'
    <3>1. ASSUME NEW d \in Dev, EnslaveAttach(d) PROVE op'.dev # active'
      <4>1. op'.dev = d /\ active' = active /\ d \notin Listed
        BY <3>1 DEF EnslaveAttach, Doing, Listed
      <4>2. QED BY <1>0, <4>1, NoSlaveAssumption DEF RolesListed
    <3>2. CASE AfterNotify
      BY <1>0, <3>2 DEF AfterNotify
    <3>3. CASE EnslaveSetup \/ EnslaveDone \/ ReleaseReselect \/ ReleaseFinish \/ FreeAllBegin \/ FreeAllNext
      BY <3>3 DEF EnslaveSetup, EnslaveDone, ReleaseReselect, ReleaseFinish, FreeAllBegin, FreeAllNext, Doing, Idle,
                  Destroyed
    <3>4. CASE Open \/ Close \/ \E d \in Dev : SlaveUpDown(d) \/ IoctlChangeActive(d)
      BY <3>4 DEF Open, Close, SlaveUpDown, IoctlChangeActive, WriterFree, RtnlFree, Idle
    <3>5. ASSUME NEW d \in Dev, ReleaseDetach(d) PROVE op'.kind # "enslave"
      <4>1. op' = [kind |-> "reselect", dev |-> d] \/ op' = [kind |-> "release", dev |-> d]
        BY <3>5 DEF ReleaseDetach, Doing
      <4>2. QED BY <4>1
    <3>6. QED BY <1>1, <3>1, <3>2, <3>3, <3>4, <3>5 DEF ArpHandler, Writer, Reader
  <2>3. QED BY <1>0, <2>1, <2>2 DEF ArpInv
<1>2. CASE ArpNext /\ ~ArpHandler
  <2>1. carrier' = carrier
    BY <1>2 DEF ArpNext, ArpMonitorStep, ArpQuit, LbBegin, LbPass, ArpInspect, ArpCommitSlave, ArpCommitPrimary,
         ArpCommitEnd, ArpProbe, ArpSearch, ArpCommitBegin, MiiCommitBegin, Tick, ProbeAnswered, ProbeHeard, Stopped,
         vars, devVars
  <2>2. op'.kind = "enslave" /\ Mode = "activebackup" => op.kind = "enslave" /\ op' = op /\ active' = active
    <3>1. CASE LbPass
      BY <3>1 DEF LbPass
    <3>2. CASE ArpCommitSlave \/ ArpCommitPrimary
      BY <1>0, <3>2 DEF ArpCommitSlave, ArpCommitPrimary, HandlersInv, Committing
    <3>3. CASE ~LbPass /\ ~ArpCommitSlave /\ ~ArpCommitPrimary
      BY <1>2, <3>3 DEF ArpNext, ArpMonitorStep, ArpQuit, LbBegin, ArpInspect, ArpCommitEnd, ArpProbe, ArpSearch,
         ArpCommitBegin, MiiCommitBegin, Tick, ProbeAnswered, ProbeHeard, Stopped, vars, bondVars, Idle, Committing
    <3>4. QED BY <3>1, <3>2, <3>3
  <2>3. QED BY <1>0, <2>1, <2>2 DEF ArpInv
<1>3. QED BY <1>1, <1>2

(* and keeps an active slave that receives, except the two steps that go   *)
(* by what was read before curr_slave_lock was given back.                 *)
LEMMA ArpReceivesStep ==
  ASSUME PointersInv, ArpInv, ArpNext,
         Receives(active, link, state) \/ (Mode # "activebackup" /\ mon = "rtnl"),
         Searches => Mode # "activebackup" /\ seen = active
  PROVE  Receives(active', link', state') \/ (Mode # "activebackup" /\ mon' = "rtnl")
<1>0. /\ FieldTypes /\ RolesListed /\ HandlersInv /\ monitor = "arp"
      /\ \A d \in Dev : carrier[d]
      /\ op.kind = "enslave" /\ Mode = "activebackup" => op.dev # active
  BY DEF PointersInv, PointersCore, ArpNext, ArpInv
<1>1. CASE ArpHandler
  <2>1. UNCHANGED mon
    BY <1>1 DEF ArpHandler, Writer, Reader, FreeAllBegin, FreeAllNext, Close, EnslaveAttach, ReleaseDetach,
              EnslaveSetup, EnslaveDone, ReleaseReselect, ReleaseFinish, AfterNotify, Open, SlaveUpDown,
              IoctlChangeActive, Discard, monVars
  <2>2. Receives(active, link, state) => Receives(active', link', state')
    BY <1>0, <1>1, HandlerReceives
  <2>3. QED BY <2>1, <2>2
<1>2. CASE LbPass
  <2>1. mon = "searching" /\ mon' = "idle"
    BY <1>2 DEF LbPass, Rearm
  <2>2. seen = active /\ Receives(active, link, state)
    BY <2>1 DEF Searches
  <2>3. QED BY <1>0, <1>2, <2>2, LbPassReceives
<1>3. CASE ArpCommitSlave \/ ArpCommitPrimary
  <2>1. Receives(active, link, state)
    BY <1>0, <1>3 DEF ArpCommitSlave, ArpCommitPrimary
  <2>2. QED BY <1>3, <2>1, CommitReceives
<1>4. CASE ArpSearch
  <2>1. mon = "searching" /\ mon' = "idle" /\ Mode = "activebackup"
    BY <1>4 DEF ArpSearch, Rearm
  <2>2. QED BY <2>1 DEF Searches
<1>5. CASE ~ArpHandler /\ ~LbPass /\ ~ArpCommitSlave /\ ~ArpCommitPrimary /\ ~ArpSearch
  <2>1. UNCHANGED <<active, link, state>>
    BY <1>5 DEF ArpNext, ArpMonitorStep, ArpQuit, LbBegin, ArpInspect, ArpCommitEnd, ArpProbe,
       ArpCommitBegin, MiiCommitBegin, Tick, ProbeAnswered, ProbeHeard, Stopped, vars, bondVars, slaveVars
  <2>2. Mode # "activebackup" /\ mon = "rtnl" => mon' = "rtnl"
    BY <1>5 DEF ArpNext, ArpMonitorStep, ArpQuit, LbBegin, ArpInspect, ArpCommitEnd, ArpProbe,
       ArpCommitBegin, MiiCommitBegin, Tick, ProbeAnswered, ProbeHeard, Stopped, vars, monVars, Runnable
  <2>3. QED BY <2>1, <2>2
<1>6. QED BY <1>1, <1>2, <1>3, <1>4, <1>5

(* In active-backup mode under the ARP monitor of 2.6.27, for every number *)
(* of slaves: neither proposals that have become old when they are         *)
(* committed nor any handler marks the active slave inactive or not up; a  *)
(* search for a candidate alone can, when a handler has selected a slave   *)
(* between its two halves.                                                 *)
THEOREM ArpActiveReceives ==
  ASSUME Mode = "activebackup"
  PROVE  ArpSpec => ActiveReceives
<1> DEFINE Inv  == PointersInv /\ SearchInv /\ ArpInv
           Kept == Deposed' => Deposed \/ Searches
<1>1. ArpInit => Inv
  <2> SUFFICES ASSUME ArpInit PROVE Inv
    OBVIOUS
  <2>1. /\ Init /\ cur = NoSlave /\ op = Idle /\ active = NoSlave /\ mon = "idle"
        /\ monitor = "arp" => \A d \in Dev : carrier[d]
    BY DEF ArpInit, Init
  <2>2. QED BY <2>1, PointersInit DEF SearchInv, ArpInv, Idle
<1>2. Inv /\ [ArpNext]_avars => Inv'
  <2> SUFFICES ASSUME PointersInv, SearchInv, ArpInv, [ArpNext]_avars
               PROVE  PointersInv' /\ SearchInv' /\ ArpInv'
    OBVIOUS
  <2>1. CASE ArpNext
    BY <2>1, ArpPointersStep, ArpSearchStep, ArpInvStep
  <2>2. CASE UNCHANGED avars
    <3>1. UNCHANGED vars /\ UNCHANGED arpVars
      BY <2>2 DEF avars
    <3>2. SearchInv' /\ monitor' = monitor
      BY <3>1 DEF SearchInv, Listed, arpVars, vars, bondVars, adminVars, monVars
    <3>3. ArpInv'
      BY <3>1 DEF ArpInv, arpVars, vars, bondVars, monVars, devVars, slaveVars
    <3>4. QED BY <3>1, <3>2, <3>3, OtherStep
  <2>3. QED BY <2>1, <2>2
<1>3. Inv /\ [ArpNext]_avars => [Kept]_avars
  <2> SUFFICES ASSUME PointersInv, ArpInv, ArpNext, ~Deposed, ~Searches PROVE ~Deposed'
    OBVIOUS
  <2>1. Receives(active, link, state)
    BY DEF Deposed, Receives
  <2>2. Receives(active', link', state')
    BY <2>1, ArpReceivesStep
  <2>3. QED BY <2>2 DEF Deposed, Receives
<1>4. QED BY <1>1, <1>2, <1>3, PTL DEF ArpSpec, ActiveReceives

(* The handlers of 2.6.24 in the modes of bond_loadbalance_arp_mon.        *)
LEMMA Handler24Receives ==
  ASSUME PointersInv24, ArpHandler24, \A d \in Dev : carrier[d], Mode # "activebackup",
         Receives(active, link, state)
  PROVE  Receives(active', link', state')
<1>0. /\ FieldTypes /\ RolesListed /\ HandlersInv24 /\ slaves \in Seq(Dev) /\ active \in Dev \cup {NoSlave}
      /\ link \in [Dev -> Link] /\ delay \in [Dev -> Nat] /\ state \in [Dev -> State]
      /\ op.kind \in Adding \cup Removing => op.dev \in Dev
  BY OpFacts DEF PointersInv24, PointersCore, FieldTypes
<1>1. CASE EnslaveSetup24
  <2> DEFINE d     == op.dev
             lnk   == [link EXCEPT ![d] = InitialLink(d)]
             dly   == [delay EXCEPT ![d] = IF carrier[d] THEN UpDelay ELSE 0]
             st    == [state EXCEPT ![d] = NewSlaveState]
             first == IF active = NoSlave THEN d ELSE active
  <2>1. d \in Dev
    BY <1>0, <1>1 DEF EnslaveSetup24, Adding
  <2>2. lnk \in [Dev -> Link] /\ dly \in [Dev -> Nat] /\ st \in [Dev -> State] /\ lnk[d] # "DOWN"
    <3>1. InitialLink(d) \in {"UP", "BACK"} /\ NewSlaveState \in State
      BY <2>1 DEF InitialLink, NewSlaveState, State
    <3>2. QED BY <1>0, <2>1, <3>1, ParamAssumption DEF Link
  <2>3. first \in Dev \cup {NoSlave} /\ Receives(first, lnk, st)
    BY <1>0, <2>1, <2>2 DEF Receives
  <2>4. \/ ChangeActive(first, lnk, dly, st, "none")
        \/ active' = first /\ link' = lnk /\ state' = st
    BY <1>1 DEF EnslaveSetup24, ChangeActive24
  <2> HIDE DEF lnk, dly, st, first
  <2>5. first # NoSlave => lnk[first] # "DOWN"
    BY <2>3 DEF Receives
  <2>6. CASE ChangeActive(first, lnk, dly, st, "none")
    BY <1>0, <2>2, <2>3, <2>5, <2>6, ChangeReceives
  <2>7. CASE active' = first /\ link' = lnk /\ state' = st
    BY <2>3, <2>7
  <2>8. QED BY <2>4, <2>6, <2>7
<1>2. CASE ReleaseReselect24
  <2>1. CASE HasSlaves
    <3>1. ChangeActive(BestSlave(slaves, primary, link, delay), link, delay, state, "none")
      BY <1>2, <2>1 DEF ReleaseReselect24, SelectActive24, ChangeActive24, BestSlave24
    <3>2. active \in ToSet(slaves) \cup {NoSlave} /\ primary \in ToSet(slaves) \cup {NoSlave}
      BY <1>0 DEF RolesListed, Listed
    <3>3. QED BY <1>0, <3>1, <3>2, SelectReceives
  <2>2. CASE ~HasSlaves
    BY <1>2, <2>2 DEF ReleaseReselect24
  <2>3. QED BY <2>1, <2>2
<1>3. ASSUME NEW d \in Dev, ReleaseDetach24(d) \/ ReleaseStray24(d) PROVE Receives(active', link', state')
  <2>1. \E new \in {active, NoSlave} : ChangeActive(new, link, delay, state, "none")
    BY <1>3 DEF ReleaseDetach24, ReleaseDetach, ActiveWithout, ReleaseStray24, ChangeActive24
  <2>2. QED BY <1>0, <2>1, RoleReceives
<1>4. CASE ReleaseFinish \/ FreeAllNext
  <2>1. Discard(op.dev) /\ op.dev \in Dev /\ active' = active
    BY <1>0, <1>4 DEF ReleaseFinish, FreeAllNext, Removing, bondVars
  <2>2. QED BY <1>0, <2>1, DiscardReceives
<1>5. CASE FreeAllBegin
  <2>1. \/ ChangeActive(NoSlave, link, delay, state, "none")
        \/ UNCHANGED <<active, link, state>>
    BY <1>5 DEF FreeAllBegin
  <2>2. QED BY <1>0, <2>1, RoleReceives
<1>6. CASE EnslaveDone \/ EnslaveFails \/ Open \/ Close \/ \E d \in Dev : EnslaveOpen24(d)
  BY <1>6 DEF EnslaveDone, EnslaveFails, Open, Close, EnslaveOpen24, slaveVars, bondVars
<1>7. ASSUME NEW d \in Dev, IoctlChangeActive24(d) PROVE FALSE
  BY <1>7 DEF IoctlChangeActive24, UsesPrimary24
<1>8. QED BY <1>1, <1>2, <1>3, <1>4, <1>5, <1>6, <1>7
          DEF ArpHandler24, Writer24, Reader24, FreeAllBegin24, FreeAllNext24, Close24, EnslaveDone24, EnslaveFails24,
              ReleaseFinish24, Open24

(* The judging half of the pass of 2.6.24.                                 *)
LEMMA LbJudgeReceives ==
  ASSUME FieldTypes, RolesListed, LbJudge24, ~LbFailover, seen = active, Receives(active, link, state)
  PROVE  Receives(active', link', state')
<1>1. /\ active' = active /\ Mode # "activebackup"
      /\ \A d \in Dev : link'[d] = IF d \in Listed /\ Recovered(d) THEN "UP"
                                   ELSE IF d \in Listed /\ Silent(d) THEN "DOWN" ELSE link[d]
  BY DEF LbJudge24, Listed, bondVars
<1>2. Receives(active, link', state')
  BY <1>1, LbKeeps
<1>3. QED BY <1>1, <1>2

(* Every step under the ARP monitor of 2.6.24 leaves the carriers alone,   *)
LEMMA ArpInv24Step ==
  ASSUME ArpInv, Mode # "activebackup", monitor = "arp", ArpNext24
  PROVE  ArpInv'
<1>1. CASE ArpHandler24
  <2>1. carrier' = carrier
    BY <1>1 DEF ArpHandler24, Writer24, Reader24, FreeAllBegin24, FreeAllBegin, FreeAllNext24, FreeAllNext,
              Close24, Close, EnslaveSetup24, ReleaseReselect24, ReleaseDetach24, ReleaseDetach, ReleaseStray24,
              EnslaveDone24, EnslaveDone, EnslaveFails24, EnslaveFails, ReleaseFinish24, ReleaseFinish, Open24, Open,
              EnslaveOpen24, IoctlChangeActive24, IoctlChangeActive, Discard, devVars
  <2>2. QED BY <2>1 DEF ArpInv
<1>2. CASE ArpNext24 /\ ~ArpHandler24
  <2>1. carrier' = carrier
    BY <1>2 DEF ArpNext24, ArpMonitorStep24, ArpQuit24, LbBegin24, ArpQuit, LbBegin, LbJudge24, LbSelect24, Deadly24,
         Locked24, Tick, ProbeAnswered, ProbeHeard, Stopped, vars, devVars, avars
  <2>2. QED BY <2>1 DEF ArpInv
<1>3. QED BY <1>1, <1>2

(* and keeps the active slave from being down, or the monitor waits for    *)
(* rtnl to replace it.                                                     *)
LEMMA ArpReceives24Step ==
  ASSUME PointersInv24, ArpInv, Mode # "activebackup", monitor = "arp", ArpNext24,
         Receives(active, link, state) \/ mon = "rtnl",
         Searches => seen = active
  PROVE  Receives(active', link', state') \/ mon' = "rtnl"
<1>0. /\ FieldTypes /\ RolesListed /\ HandlersInv24
      /\ \A d \in Dev : carrier[d]
  BY DEF PointersInv24, PointersCore, ArpInv
<1>1. CASE ArpHandler24
  <2>1. UNCHANGED mon
    BY <1>1 DEF ArpHandler24, Writer24, Reader24, FreeAllBegin24, FreeAllBegin, FreeAllNext24, FreeAllNext,
              Close24, Close, EnslaveSetup24, ReleaseReselect24, ReleaseDetach24, ReleaseDetach, ReleaseStray24,
              EnslaveDone24, EnslaveDone, EnslaveFails24, EnslaveFails, ReleaseFinish24, ReleaseFinish, Open24, Open,
              EnslaveOpen24, IoctlChangeActive24, IoctlChangeActive, Discard, monVars
  <2>2. Receives(active, link, state) => Receives(active', link', state')
    BY <1>0, <1>1, Handler24Receives
  <2>3. QED BY <2>1, <2>2
<1>2. CASE LbJudge24
  <2>1. CASE LbFailover
    BY <1>2, <2>1 DEF LbJudge24
  <2>2. CASE ~LbFailover
    <3>1. mon = "searching" /\ mon' = "idle"
      BY <1>2, <2>2 DEF LbJudge24, Rearm
    <3>2. seen = active /\ Receives(active, link, state)
      BY <3>1 DEF Searches
    <3>3. QED BY <1>0, <1>2, <2>2, <3>2, LbJudgeReceives
  <2>3. QED BY <2>1, <2>2
<1>3. CASE LbSelect24
  <2>1. ChangeActive(BestSlave(slaves, primary, link, delay), link, delay, state, "none")
    BY <1>3 DEF LbSelect24, SelectActive24, ChangeActive24, BestSlave24
  <2>2. active \in ToSet(slaves) \cup {NoSlave} /\ primary \in ToSet(slaves) \cup {NoSlave}
    BY <1>0 DEF RolesListed, Listed
  <2>3. /\ link \in [Dev -> Link] /\ delay \in [Dev -> Nat] /\ state \in [Dev -> State]
        /\ slaves \in Seq(Dev)
    BY <1>0 DEF FieldTypes
  <2>4. QED BY <1>0, <2>1, <2>2, <2>3, SelectReceives
<1>4. CASE ArpNext24 /\ ~ArpHandler24 /\ ~LbJudge24 /\ ~LbSelect24
  <2>1. UNCHANGED <<active, link, state>>
    BY <1>4 DEF ArpNext24, ArpMonitorStep24, ArpQuit24, LbBegin24, ArpQuit, LbBegin, Deadly24,
     Locked24, Tick, ProbeAnswered, ProbeHeard, Stopped, vars, bondVars, slaveVars, avars
  <2>2. mon = "rtnl" => mon' = "rtnl"
    BY <1>4 DEF ArpNext24, ArpMonitorStep24, ArpQuit24, LbBegin24, ArpQuit, LbBegin, Deadly24,
     Locked24, Tick, ProbeAnswered, ProbeHeard, Stopped, vars, monVars, avars, Runnable
  <2>3. QED BY <2>1, <2>2
<1>5. QED BY <1>1, <1>2, <1>3, <1>4

(* In either port, in the modes in which all slaves carry traffic, for     *)
(* every number of slaves and whatever handlers run beside it: the ARP     *)
(* monitor that marks the active slave down replaces it, unless a handler  *)
(* has selected that slave after the pass read curr_active_slave; and      *)
(* nothing else marks it down.                                             *)
THEOREM PortLbActiveUp ==
  ASSUME Mode # "activebackup"
  PROVE  PortSpec => LbActiveUp
<1> DEFINE Inv  == PortInv /\ ArpInv
           Kept == monitor = "arp" /\ ActiveDown' => ActiveDown \/ (Searches /\ seen # active)
<1>1. PortInit => Inv
  <2> SUFFICES ASSUME PortInit PROVE Inv
    OBVIOUS
  <2>1. /\ op = Idle /\ active = NoSlave /\ mon = "idle"
        /\ monitor = "arp" => \A d \in Dev : carrier[d]
    BY DEF PortInit, ArpInit, Init
  <2>2. QED BY <2>1, PortInvInit DEF ArpInv, Idle
<1>2. Inv /\ [PortNext]_pvars => Inv'
  <2> SUFFICES ASSUME PortInv, ArpInv, [PortNext]_pvars PROVE PortInv' /\ ArpInv'
    OBVIOUS
  <2>0. PortInv' /\ (kernel = "2.6.27" => PointersInv) /\ (kernel = "2.6.24" => PointersInv24)
    BY PortInvNext DEF PortInv, PortPointersInv
  <2>1. CASE monitor = "mii" /\ UNCHANGED arpVars
    BY <2>0, <2>1 DEF ArpInv, arpVars
  <2>2. CASE kernel = "2.6.27" /\ ArpNext
    BY <2>0, <2>2, ArpInvStep
  <2>3. CASE kernel = "2.6.24" /\ monitor = "arp" /\ Mode # "activebackup" /\ ArpNext24
    BY <2>0, <2>3, ArpInv24Step
  <2>4. CASE UNCHANGED pvars
    BY <2>0, <2>4 DEF ArpInv, pvars, avars, arpVars, vars, bondVars, monVars, devVars, slaveVars
  <2>5. QED BY <2>1, <2>2, <2>3, <2>4 DEF PortNext
<1>3. Inv /\ [PortNext]_pvars => [Kept]_avars
  <2> SUFFICES ASSUME PortInv, ArpInv, [PortNext]_pvars, ~UNCHANGED avars, monitor = "arp",
                      ~ActiveDown, Searches => seen = active
               PROVE  ~ActiveDown'
    OBVIOUS
  <2>0. (kernel = "2.6.27" => PointersInv) /\ (kernel = "2.6.24" => PointersInv24)
    BY DEF PortInv, PortPointersInv
  <2>1. Receives(active, link, state) \/ mon = "rtnl"
    BY DEF ActiveDown, Receives
  <2>2. Receives(active', link', state') \/ mon' = "rtnl"
    <3>1. CASE kernel = "2.6.27" /\ ArpNext
      BY <2>0, <2>1, <3>1, ArpReceivesStep
    <3>2. CASE kernel = "2.6.24" /\ ArpNext24
      BY <2>0, <2>1, <3>2, ArpReceives24Step
    <3>3. QED BY <3>1, <3>2 DEF PortNext, pvars
  <2>3. QED BY <2>2 DEF ActiveDown, Receives
<1>4. QED BY <1>1, <1>2, <1>3, PTL DEF PortSpec, LbActiveUp

-------------------------------------------------------------------------------
(***************************************************************************)
(* The links and the states of the slaves under the MII monitors.          *)
(***************************************************************************)

(* A change of the active slave makes no link of 2.6.24 jump.              *)
LEMMA RoleJump ==
  ASSUME FieldTypes, NEW new \in Dev \cup {NoSlave}, NEW rest,
         ChangeActive(new, link, delay, state, rest) \/ link' = link
  PROVE  NoJump
<1>1. link \in [Dev -> Link] /\ Listed \subseteq Dev
  BY ListedDevices DEF FieldTypes
<1>2. \A s \in Dev : link'[s] = link[s] \/ (link[s] = "BACK" /\ link'[s] = "UP")
  BY <1>1, ChangeLinks
<1>3. QED BY <1>1, <1>2 DEF NoJump

(* The slave that gets its first link is not yet on the list.              *)
LEMMA EnslaveSetup24Jump ==
  ASSUME PointersInv24, EnslaveSetup24
  PROVE  NoJump
<1> DEFINE d    == op.dev
           list == Attach(slaves, d)
           lnk  == [link EXCEPT ![d] = InitialLink(d)]
           dly  == [delay EXCEPT ![d] = IF carrier[d] THEN UpDelay ELSE 0]
           prm  == Primary24(d)
           st   == [state EXCEPT ![d] = NewSlaveState]
           best == BestSlave(list, prm, lnk, dly)
           first == IF active = NoSlave THEN d ELSE active
<1>0. /\ FieldTypes /\ RolesListed /\ ListedOnce /\ d \in Dev /\ d \notin Listed /\ op.kind = "enslave"
  BY OpFacts DEF PointersInv24, PointersCore, EnslaveSetup24, HandlersInv24, Adding
<1>1. /\ slaves \in Seq(Dev) /\ list \in Seq(Dev) /\ ToSet(list) = Listed \cup {d} /\ Listed \subseteq Dev
  BY <1>0, ListedDevices, AttachMembers DEF FieldTypes, ListedOnce, Listed
<1>2. /\ active \in ToSet(list) \cup {NoSlave} /\ prm \in ToSet(list) \cup {NoSlave} /\ ToSet(list) \subseteq Dev
  BY <1>0, <1>1 DEF RolesListed, Primary24
<1>3. lnk \in [Dev -> Link] /\ \A s \in Dev : s # d => lnk[s] = link[s]
  <2>1. InitialLink(d) \in Link
    BY DEF InitialLink, Link
  <2>2. QED BY <1>0, <2>1 DEF FieldTypes
<1>4. best \in Dev \cup {NoSlave} /\ first \in Dev \cup {NoSlave}
  <2>1. best \in ToSet(list) \cup {NoSlave}
    BY <1>1, <1>2, BestSlaveListed
  <2> HIDE DEF best
  <2>2. QED BY <1>0, <1>2, <2>1
<1>5. \/ ChangeActive(best, lnk, dly, st, "none")
      \/ ChangeActive(first, lnk, dly, st, "none")
      \/ link' = lnk
  BY <1>0 DEF EnslaveSetup24, ChangeActive24, BestSlave24, Attach24
<1> HIDE DEF list, lnk, dly, prm, st, best, first
<1>6. \A s \in Dev : link'[s] = lnk[s] \/ (lnk[s] = "BACK" /\ link'[s] = "UP")
  BY <1>3, <1>4, <1>5, ChangeLinks
<1>7. QED BY <1>0, <1>1, <1>3, <1>6 DEF NoJump

(* The first call counts the updelay and declares nothing up.              *)
LEMMA Inspect24Jump ==
  ASSUME PointersCore, MiiInspect24
  PROVE  NoJump
<1>1. Listed \subseteq Dev /\ link \in [Dev -> Link]
  BY ListedDevices DEF PointersCore, FieldTypes
<1>2. \A s \in Dev : link'[s] \in {Inspected(s).link, link[s]}
  BY DEF MiiInspect24
<1>3. \A s \in Dev : link[s] = "DOWN" => Inspected(s).link # "UP"
  BY DEF Inspected, InspectedDown, Keep, CountDown
<1>4. QED BY <1>1, <1>2, <1>3 DEF NoJump

(* What the commit of 2.6.24 writes.                                       *)
LEMMA Commit24Writes ==
  ASSUME PointersInv24, MiiCommit24,
         NEW lnk, lnk = [d \in Dev |-> IF d \in Listed THEN Link24(d) ELSE link[d]],
         NEW dly, dly = [d \in Dev |-> IF d \in Listed THEN Inspected(d).delay ELSE delay[d]],
         NEW st, st = [d \in Dev |-> IF d \in Listed THEN State24(d) ELSE state[d]]
  PROVE  /\ lnk \in [Dev -> Link] /\ dly \in [Dev -> Nat] /\ st \in [Dev -> State]
         /\ IF \E s \in Listed : Failover24(s)
              THEN ChangeActive(BestSlave(slaves, primary, lnk, dly), lnk, dly, st, "none")
              ELSE link' = lnk /\ state' = st /\ active' = active
         /\ UNCHANGED slaves /\ op' = Idle /\ op = Committing
<1>1. FieldTypes
  BY DEF PointersInv24, PointersCore
<1>2. \A s \in Dev : /\ Inspected(s).link \in Link /\ Inspected(s).delay \in Nat
                     /\ Inspected(s).new \in {"UP", "DOWN", "NOCHANGE"}
  BY <1>1, InspectedTypes
<1>3. \A s \in Dev : Link24(s) \in Link /\ State24(s) \in State
  BY <1>1, <1>2 DEF Link24, State24, FieldTypes, Link, State
<1>4. lnk \in [Dev -> Link] /\ dly \in [Dev -> Nat] /\ st \in [Dev -> State]
  BY <1>1, <1>2, <1>3 DEF FieldTypes
<1>5. IF \E s \in Listed : Failover24(s)
        THEN ChangeActive(BestSlave(slaves, primary, lnk, dly), lnk, dly, st, "none")
        ELSE link' = lnk /\ state' = st /\ active' = active
  BY DEF MiiCommit24, SelectActive24, ChangeActive24, BestSlave24, Listed
<1>6. UNCHANGED slaves /\ op' = Idle /\ op = Committing
  BY DEF MiiCommit24, PointersInv24, HandlersInv24
<1>7. QED BY <1>4, <1>5, <1>6

(* It declares a link up at once only without an updelay, when it sees the *)
(* carrier.                                                                *)
LEMMA Commit24Jump ==
  ASSUME PointersInv24, MiiCommit24, UpDelay = 0
  PROVE  \A s \in Listed : link[s] = "DOWN" /\ link'[s] = "UP" => op = Committing /\ carrier[s]
<1> DEFINE lnk == [d \in Dev |-> IF d \in Listed THEN Link24(d) ELSE link[d]]
           dly == [d \in Dev |-> IF d \in Listed THEN Inspected(d).delay ELSE delay[d]]
           st  == [d \in Dev |-> IF d \in Listed THEN State24(d) ELSE state[d]]
<1>0. /\ FieldTypes /\ RolesListed /\ slaves \in Seq(Dev) /\ Listed \subseteq Dev
  BY ListedDevices DEF PointersInv24, PointersCore, FieldTypes
<1>1. active \in ToSet(slaves) \cup {NoSlave} /\ primary \in ToSet(slaves) \cup {NoSlave}
  BY <1>0 DEF RolesListed, Listed
<1>2. \A s \in Listed : lnk[s] = Link24(s)
  BY <1>0
<1> HIDE DEF lnk, dly, st
<1>3. /\ lnk \in [Dev -> Link] /\ dly \in [Dev -> Nat] /\ st \in [Dev -> State] /\ op = Committing
      /\ \/ ChangeActive(BestSlave(slaves, primary, lnk, dly), lnk, dly, st, "none")
         \/ link' = lnk
  BY Commit24Writes DEF lnk, dly, st
<1>4. Moves(lnk)
  <2>1. CASE link' = lnk
    BY <2>1 DEF Moves
  <2>2. QED BY <1>0, <1>1, <1>3, <2>1, SelectLinks
<1>5. \A s \in Listed : link'[s] = Link24(s)
  BY <1>0, <1>2, <1>4 DEF Moves
<1>6. \A s \in Listed : link[s] = "DOWN" /\ Link24(s) = "UP" => carrier[s]
  BY DEF Link24, Inspected, InspectedDown, Keep, CountDown
<1>7. QED BY <1>3, <1>5, <1>6

(* The links of 2.6.24: none jumps but for a commit that sees the carrier. *)
LEMMA MiiJump24 ==
  ASSUME PointersInv24, MiiNext24, UpDelay = 0
  PROVE  \A s \in Listed : link[s] = "DOWN" /\ link'[s] = "UP" =>
            op = Doing("enslave", s) \/ (op = Committing /\ carrier[s])
<1>0. /\ FieldTypes /\ PointersCore /\ slaves \in Seq(Dev) /\ Listed \subseteq Dev /\ active \in Dev \cup {NoSlave}
      /\ primary \in Dev \cup {NoSlave} /\ link \in [Dev -> Link] /\ NoSlave \in Dev \cup {NoSlave}
  BY ListedDevices DEF PointersInv24, PointersCore, FieldTypes
<1>1. CASE EnslaveSetup24
  BY <1>1, EnslaveSetup24Jump DEF NoJump
<1>2. CASE MiiInspect24
  BY <1>0, <1>2, Inspect24Jump DEF NoJump
<1>3. CASE MiiCommit24
  BY <1>3, Commit24Jump
<1>4. CASE ReleaseReselect24
  <2>1. \/ ChangeActive(BestSlave(slaves, primary, link, delay), link, delay, state, "none")
        \/ link' = link
    BY <1>4 DEF ReleaseReselect24, SelectActive24, ChangeActive24, BestSlave24
  <2>2. BestSlave(slaves, primary, link, delay) \in Dev \cup {NoSlave}
    <3>1. active \in ToSet(slaves) \cup {NoSlave} /\ primary \in ToSet(slaves) \cup {NoSlave}
      BY <1>0 DEF PointersCore, RolesListed, Listed
    <3>2. BestSlave(slaves, primary, link, delay) \in ToSet(slaves) \cup {NoSlave}
      BY <1>0, <3>1, BestSlaveListed
    <3>3. QED BY <1>0, <3>2 DEF Listed
  <2>3. QED BY <1>0, <2>1, <2>2, RoleJump DEF NoJump
<1>5. CASE ReleaseFinish24 \/ FreeAllNext24
  <2>1. Discard(op.dev) /\ op.kind \in Removing
    BY <1>5 DEF ReleaseFinish24, ReleaseFinish, FreeAllNext24, FreeAllNext, Removing
  <2>2. op.dev \in Dev /\ op.dev \notin Listed
    BY <1>0, <2>1, OpFacts DEF PointersInv24, HandlersInv24
  <2>3. \A s \in Listed : link'[s] = link[s]
    BY <1>0, <2>1, <2>2 DEF Discard
  <2>4. QED BY <2>3
<1>6. ASSUME NEW d \in Dev, ReleaseDetach24(d) \/ ReleaseStray24(d) \/ IoctlChangeActive24(d) PROVE NoJump
  <2>1. PICK new \in Dev \cup {NoSlave}, rest \in {"none", "end"} : ChangeActive(new, link, delay, state, rest)
    <3>1. CASE ReleaseDetach24(d)
      BY <1>0, <3>1 DEF ReleaseDetach24, ReleaseDetach, ActiveWithout
    <3>2. CASE ReleaseStray24(d)
      BY <1>0, <3>2 DEF ReleaseStray24, ChangeActive24
    <3>3. CASE IoctlChangeActive24(d)
      BY <3>3 DEF IoctlChangeActive24, IoctlChangeActive
    <3>4. QED BY <1>6, <3>1, <3>2, <3>3
  <2>2. QED BY <1>0, <2>1, RoleJump
<1>7. CASE FreeAllBegin24
  <2>1. ChangeActive(NoSlave, link, delay, state, "none") \/ link' = link
    BY <1>7 DEF FreeAllBegin24, FreeAllBegin
  <2>2. QED BY <1>0, <2>1, RoleJump DEF NoJump
<1>8. CASE IoctlHoolockTest24 \/ IoctlMake24
  <2> DEFINE new == IF Passive(slaves, active) = NoSlave THEN active ELSE Passive(slaves, active)
  <2>1. ChangeActive(new, link, delay, state, "none")
    BY <1>8 DEF IoctlHoolockTest24, IoctlMake24, SwitchOver24, ChangeActive24
  <2>2. new \in Dev \cup {NoSlave}
    BY <1>0, PassiveMember DEF Listed
  <2> HIDE DEF new
  <2>3. QED BY <1>0, <2>1, <2>2, RoleJump DEF NoJump
<1>9. CASE \/ EnslaveDone24 \/ EnslaveFails24 \/ MiiQuit24 \/ MiiCommitBegin24 \/ Open24 \/ Close24 \/ IoctlBreak24
           \/ IoctlGetActive24 \/ Spin24 \/ XmitHoolock24 \/ Stopped
           \/ \E d \in Dev : EnslaveOpen24(d) \/ SlaveUpDown(d) \/ CarrierChange(d)
  <2>1. link' = link
    BY <1>9 DEF EnslaveDone24, EnslaveDone, EnslaveFails24, EnslaveFails, MiiQuit24, MiiQuit, MiiCommitBegin24,
                MiiCommitBegin, Open24, Open, Close24, Close, IoctlBreak24, IoctlBreak, IoctlGetActive24,
                IoctlGetActive, Spin24, Spin, XmitHoolock24, XmitHoolock, Stopped, vars, EnslaveOpen24, SlaveUpDown,
                CarrierChange, slaveVars
  <2>2. QED BY <2>1
<1>10. CASE \E d \in Dev : ReleaseDetach24(d) \/ ReleaseStray24(d) \/ IoctlChangeActive24(d)
  BY <1>6, <1>10 DEF NoJump
<1>11. QED BY <1>1, <1>2, <1>3, <1>4, <1>5, <1>7, <1>8, <1>9, <1>10
           DEF MiiNext24, HandlerStep24, MonitorStep24, AdminStep24, AdminBond24

(* A link never comes up without the monitor having seen its carrier in an *)
(* earlier pass.  In 2.6.27 the monitor must not be overtaken while it     *)
(* waits for rtnl.  In 2.6.24, which looks again when it has rtnl, it may; *)
(* but one commit may find the carrier back and declare the link up, and   *)
(* with an updelay it may do so by choosing the slave for the active one.  *)
THEOREM PortLinksComeBack ==
  ASSUME Monitors = {"mii"}, "2.6.27" \in Kernels => ~RtnlOvertake, "2.6.24" \in Kernels => UpDelay = 0
  PROVE  PortSpec => PortUpFromBack
<1> DEFINE Proposals == kernel = "2.6.27" => ProposalsInv
           Places    == mon \in {"idle", "waiting", "committing"}
           Inv  == PortInv /\ Places /\ Proposals
           Jump == \A s \in Listed : link[s] = "DOWN" /\ link'[s] = "UP" =>
                      \/ op = Doing("enslave", s)
                      \/ kernel = "2.6.24" /\ op = Committing /\ carrier[s] /\ UpDelay = 0
<1>1. PortInit => Proposals
  <2>1. PortInit => mon = "idle" /\ op.kind = "none"
    BY DEF PortInit, ArpInit, Init, Idle
  <2>2. QED BY <2>1 DEF ProposalsInv, Pending
<1>2. PortInv /\ Places /\ Proposals /\ [PortNext]_pvars => Proposals' /\ [Jump]_pvars
  <2> SUFFICES ASSUME PortInv, Places, Proposals, [PortNext]_pvars PROVE Proposals' /\ Jump
    OBVIOUS
  <2>0. kernel' = kernel /\ kernel \in Kernels /\ monitor = "mii"
    BY DEF PortInv, PortNext, pvars
  <2>1. CASE kernel = "2.6.27" /\ [Next]_vars
    <3>1. PointersInv /\ ProposalsInv /\ ~RtnlOvertake
      BY <2>0, <2>1 DEF PortInv, PortPointersInv
    <3>2. ProposalsInv' /\ NoJump
      BY <2>1, <3>1, ProposalsNext
    <3>3. QED BY <3>2 DEF NoJump
  <2>2. CASE kernel = "2.6.24" /\ MiiNext24
    <3>1. PointersInv24 /\ UpDelay = 0
      BY <2>0, <2>2 DEF PortInv, PortPointersInv
    <3>2. QED BY <2>0, <2>2, <3>1, MiiJump24
  <2>3. CASE kernel # "2.6.27" /\ UNCHANGED pvars
    BY <2>0, <2>3 DEF pvars, avars, vars, slaveVars
  <2>4. PortNext => (kernel = "2.6.27" /\ [Next]_vars) \/ (kernel = "2.6.24" /\ MiiNext24)
    BY <2>0 DEF PortNext
  <2>5. UNCHANGED pvars => UNCHANGED vars
    BY DEF pvars, avars
  <2>6. QED BY <2>1, <2>2, <2>3, <2>4, <2>5
<1>3. PortSpec => []Proposals
  BY <1>1, <1>2, PortInvAlways, PortPlaces, PTL DEF PortSpec
<1>4. QED BY <1>2, <1>3, PortInvAlways, PortPlaces, PTL DEF PortSpec, PortUpFromBack

(* The states of the slaves of 2.6.24, one section of bond_enslave after   *)
(* the other.                                                              *)
LEMMA EnslaveOpen24State ==
  ASSUME PointersCore, StateInv, NEW d \in Dev, EnslaveOpen24(d)
  PROVE  StateInv'
<1>1. /\ FieldTypes /\ RolesListed /\ op = Idle /\ op.kind = "none" /\ d \notin Listed
      /\ active \in Listed \cup {NoSlave}
  BY OpFacts DEF PointersCore, RolesListed, EnslaveOpen24, WriterFree, RtnlFree, Listed
<1>2. /\ UNCHANGED <<link, state, active, slaves>>
      /\ op' = [kind |-> "enslave", dev |-> d] \/ op' = op
  BY <1>1 DEF EnslaveOpen24, slaveVars, bondVars, Doing
<1>3. op' = op => StateInv'
  BY <1>2 DEF StateInv, StateFollowsActive, Listed
<1>4. active # d
  BY <1>1, NoSlaveAssumption
<1>5. op.kind # "enslave" => \A s \in Listed : op # Doing("enslave", s)
  BY DEF Doing
<1>6. Listed' = Listed
  BY <1>2 DEF Listed
<1>7. op' = [kind |-> "enslave", dev |-> d] => StateInv'
  <2> SUFFICES ASSUME op' = [kind |-> "enslave", dev |-> d] PROVE StateInv'
    OBVIOUS
  <2>1. op'.dev # active' /\ Settled(active', link')
    BY <1>2, <1>4, StateParts
  <2>2. \A s \in Listed' : (state'[s] = "ACTIVE" <=> (Mode = "activebackup" => s = active'))
    BY <1>1, <1>2, <1>5, <1>6 DEF StateInv, StateFollowsActive
  <2>3. StateFollowsActive'
    BY <2>2 DEF StateFollowsActive
  <2>4. QED BY <2>1, <2>3 DEF StateInv, Settled
<1>8. QED BY <1>2, <1>3, <1>7

(* The new slave gets the state of a backup, and the role only from the    *)
(* search.                                                                 *)
LEMMA EnslaveSetup24State ==
  ASSUME PointersInv24, StateInv, EnslaveSetup24, Mode = "activebackup" => UpDelay = 0
  PROVE  StateInv'
<1> DEFINE d    == op.dev
           list == Attach(slaves, d)
           lnk  == [link EXCEPT ![d] = InitialLink(d)]
           dly  == [delay EXCEPT ![d] = IF carrier[d] THEN UpDelay ELSE 0]
           prm  == Primary24(d)
           st   == [state EXCEPT ![d] = NewSlaveState]
           first == IF active = NoSlave THEN d ELSE active
<1>0. /\ FieldTypes /\ RolesListed /\ ListedOnce /\ d \in Dev /\ d \notin Listed /\ op.kind = "enslave"
  BY OpFacts DEF PointersInv24, PointersCore, EnslaveSetup24, HandlersInv24, Adding
<1>1. /\ slaves \in Seq(Dev) /\ list \in Seq(Dev) /\ ToSet(list) = Listed \cup {d} /\ Listed \subseteq Dev
  BY <1>0, ListedDevices, AttachMembers DEF FieldTypes, ListedOnce, Listed
<1>2. /\ active \in ToSet(list) \cup {NoSlave} /\ prm \in ToSet(list) \cup {NoSlave} /\ ToSet(list) \in SUBSET Dev
      /\ active # d
  BY <1>0, <1>1, NoSlaveAssumption DEF RolesListed, Primary24
<1>3. /\ lnk \in [Dev -> Link] /\ dly \in [Dev -> Nat] /\ st \in [Dev -> State]
      /\ st[d] = NewSlaveState /\ \A s \in Dev : s # d => st[s] = state[s]
  <2>1. InitialLink(d) \in Link /\ NewSlaveState \in State
    BY DEF InitialLink, NewSlaveState, Link, State
  <2>2. QED BY <1>0, <2>1, ParamAssumption DEF FieldTypes
<1>4. Follows(ToSet(list), active, st)
  <2>1. Finished = Listed
    BY <1>0, FinishedFacts
  <2>2. Follows(Listed, active, state)
    BY <2>1, StateParts
  <2>3. st[d] = "ACTIVE" <=> (Mode = "activebackup" => d = active)
    BY <1>2, <1>3 DEF NewSlaveState
  <2>4. \A s \in Listed : s # d /\ st[s] = state[s]
    BY <1>0, <1>1, <1>3
  <2>5. QED BY <1>1, <2>2, <2>3, <2>4 DEF Follows
<1>5. /\ \/ Mode = "activebackup" /\ ChangeActive(BestSlave(list, prm, lnk, dly), lnk, dly, st, "none")
         \/ Mode # "activebackup" /\ ChangeActive(first, lnk, dly, st, "none")
         \/ Mode # "activebackup" /\ state' = st
      /\ op' = [kind |-> "symlinks", dev |-> d] /\ slaves' = list
  BY DEF EnslaveSetup24, ChangeActive24, BestSlave24, Attach24, Doing
<1> HIDE DEF list, lnk, dly, prm, st
<1>6. Follows(ToSet(list), active', state') /\ Settled(active', link')
  <2>1. CASE Mode = "activebackup" /\ ChangeActive(BestSlave(list, prm, lnk, dly), lnk, dly, st, "none")
    BY <1>0, <1>1, <1>2, <1>3, <1>4, <2>1, SelectFollows
  <2>2. CASE Mode # "activebackup" /\ ChangeActive(first, lnk, dly, st, "none")
    BY <1>4, <2>2 DEF ChangeActive, Follows, Settled
  <2>3. CASE Mode # "activebackup" /\ state' = st
    BY <1>4, <2>3 DEF Follows, Settled
  <2>4. QED BY <1>5, <2>1, <2>2, <2>3
<1>7. op'.kind # "enslave" /\ Listed' = ToSet(list)
  BY <1>5 DEF Listed
<1>8. Finished' = ToSet(list)
  BY <1>0, <1>7, FinishedFacts
<1>9. QED BY <1>6, <1>7, <1>8 DEF StateInv, StateFollowsActive, Follows, Settled, Finished

(* The successor gets the state with the role.                             *)
LEMMA ReleaseReselect24State ==
  ASSUME PointersCore, StateInv, ReleaseReselect24, Mode = "activebackup" => UpDelay = 0
  PROVE  StateInv'
<1>0. /\ FieldTypes /\ RolesListed /\ slaves \in Seq(Dev) /\ Listed \in SUBSET Dev
      /\ link \in [Dev -> Link] /\ delay \in [Dev -> Nat] /\ state \in [Dev -> State]
  BY ListedDevices DEF PointersCore, FieldTypes
<1>1. active \in ToSet(slaves) \cup {NoSlave} /\ primary \in ToSet(slaves) \cup {NoSlave}
  BY <1>0 DEF RolesListed, Listed
<1>2. /\ \/ ChangeActive(BestSlave(slaves, primary, link, delay), link, delay, state, "none")
         \/ UNCHANGED <<active, link, state>>
      /\ op.kind = "reselect" /\ op' = [kind |-> "release", dev |-> op.dev] /\ slaves' = slaves
  BY DEF ReleaseReselect24, SelectActive24, ChangeActive24, BestSlave24, Doing
<1>3. op.kind # "enslave" /\ op'.kind # "enslave" /\ Listed' = Listed
  BY <1>2 DEF Listed
<1>4. Finished = Listed /\ Finished' = Listed'
  BY <1>0, <1>3, FinishedFacts
<1>5. Follows(Listed, active, state) /\ Settled(active, link)
  BY <1>4, StateParts
<1>6. Follows(Listed, active', state') /\ Settled(active', link')
  <2>1. CASE ChangeActive(BestSlave(slaves, primary, link, delay), link, delay, state, "none")
    BY <1>0, <1>1, <1>5, <2>1, SelectFollows
  <2>2. QED BY <1>2, <1>5, <2>1
<1>7. QED BY <1>3, <1>4, <1>6 DEF StateInv, StateFollowsActive, Follows, Settled, Finished

(* The handlers of the administrator.                                      *)
LEMMA Admin24State ==
  ASSUME PointersCore, StateInv, Mode = "activebackup" => ~HoolockIoctls,
         \/ \E d \in Dev : ReleaseDetach24(d) \/ ReleaseStray24(d) \/ IoctlChangeActive24(d)
         \/ FreeAllBegin24 \/ IoctlHoolockTest24 \/ IoctlMake24
  PROVE  StateInv'
<1>0. /\ FieldTypes /\ slaves \in Seq(Dev) /\ active \in Dev \cup {NoSlave} /\ Listed \subseteq Dev
      /\ op.kind = "none" /\ Once(slaves)
  BY ListedDevices, OpFacts
     DEF PointersCore, FieldTypes, ReleaseDetach24, ReleaseDetach, ReleaseStray24, IoctlChangeActive24, IoctlChangeActive,
         FreeAllBegin24, FreeAllBegin, IoctlHoolockTest24, IoctlMake24, WriterFree, RtnlFree, ListedOnce
<1>1. ASSUME NEW d \in Dev, NEW s, s \in ToSet(slaves), slaves' = Detach(slaves, s),
             op' = [kind |-> IF active = s THEN "reselect" ELSE "release", dev |-> d],
             NEW new \in {active, NoSlave}, ChangeActive(new, link, delay, state, "none")
      PROVE  StateInv'
  <2>1. op'.kind # "enslave" /\ new \in Dev \cup {NoSlave}
    BY <1>0, <1>1
  <2>2. Listed' \subseteq Listed
    BY <1>0, <1>1, DetachMembers DEF Listed
  <2>3. QED BY <1>0, <1>1, <2>1, <2>2, RoleState
<1>2. ASSUME NEW d \in Dev, ReleaseDetach24(d) PROVE StateInv'
  <2>1. /\ ChangeActive(ActiveWithout(d), link, delay, state, "none") /\ slaves' = Detach(slaves, d) /\ d \in ToSet(slaves)
        /\ op' = [kind |-> IF active = d THEN "reselect" ELSE "release", dev |-> d]
    BY <1>2 DEF ReleaseDetach24, ReleaseDetach, Doing
  <2>2. ActiveWithout(d) \in {active, NoSlave}
    BY DEF ActiveWithout
  <2>3. QED BY <1>1, <2>1, <2>2
<1>3. ASSUME NEW d \in Dev, ReleaseStray24(d) PROVE StateInv'
  <2> DEFINE s   == SlaveByDev(slaves, d)
             new == IF active = s THEN NoSlave ELSE active
  <2>1. /\ ChangeActive(new, link, delay, state, "none") /\ slaves' = Detach(slaves, s) /\ s # NoSlave
        /\ op' = [kind |-> IF active = s THEN "reselect" ELSE "release", dev |-> d]
    BY <1>3 DEF ReleaseStray24, SlaveByDev24, Detach24, ChangeActive24, Doing
  <2>2. s \in ToSet(slaves)
    <3>1. slaves # <<>>
      BY <1>3, <2>1 DEF SlaveByDev, ReleaseStray24, Listed
    <3>2. QED BY <1>0, <3>1, SlaveByDevMember
  <2>3. new \in {active, NoSlave}
    OBVIOUS
  <2> HIDE DEF s, new
  <2>4. QED BY <1>1, <2>1, <2>2, <2>3
<1>4. ASSUME NEW d \in Dev, IoctlChangeActive24(d) PROVE StateInv'
  <2>1. ChangeActive(d, link, delay, state, "end") /\ link[d] = "UP" /\ op' = op /\ slaves' = slaves
    BY <1>4 DEF IoctlChangeActive24, IoctlChangeActive
  <2>2. QED BY <1>0, <2>1, RoleState DEF Listed
<1>5. CASE FreeAllBegin24
  <2>1. /\ ChangeActive(NoSlave, link, delay, state, "none") \/ UNCHANGED <<active, link, state>>
        /\ op' = Destroyed \/ op' = [kind |-> "freeall", dev |-> slaves[1]]
        /\ slaves' = slaves \/ (slaves # <<>> /\ slaves' = Tail(slaves))
    BY <1>5 DEF FreeAllBegin24, FreeAllBegin, Doing, HasSlaves
  <2>2. op'.kind # "enslave"
    BY <2>1 DEF Destroyed
  <2>3. Listed' \subseteq Listed
    BY <1>0, <2>1, TailMembers DEF Listed
  <2>4. QED BY <1>0, <2>1, <2>2, <2>3, RoleState
<1>6. CASE IoctlHoolockTest24 \/ IoctlMake24
  <2> DEFINE new == IF Passive(slaves, active) = NoSlave THEN active ELSE Passive(slaves, active)
  <2>1. /\ ChangeActive(new, link, delay, state, "none") /\ op' = op /\ slaves' = slaves /\ HoolockIoctls
    BY <1>6 DEF IoctlHoolockTest24, IoctlMake24, SwitchOver24, ChangeActive24
  <2>2. new \in Dev \cup {NoSlave}
    BY <1>0, PassiveMember DEF Listed
  <2> HIDE DEF new
  <2>3. QED BY <1>0, <2>1, <2>2, RoleState DEF Listed
<1>7. QED BY <1>2, <1>3, <1>4, <1>5, <1>6

(* What touches neither a link nor a state.                                *)
LEMMA Other24State ==
  ASSUME PointersInv24, StateInv,
         \/ EnslaveDone24 \/ EnslaveFails24 \/ MiiQuit24 \/ MiiCommitBegin24 \/ Open24 \/ Close24 \/ IoctlBreak24
         \/ IoctlGetActive24 \/ Spin24 \/ XmitHoolock24 \/ UNCHANGED vars
         \/ \E d \in Dev : SlaveUpDown(d) \/ CarrierChange(d)
  PROVE  StateInv'
<1>1. UNCHANGED <<active, link, state, slaves>>
  BY DEF EnslaveDone24, EnslaveDone, EnslaveFails24, EnslaveFails, MiiQuit24, MiiQuit, MiiCommitBegin24,
         MiiCommitBegin, Open24, Open, Close24, Close, IoctlBreak24, IoctlBreak, IoctlGetActive24,
         IoctlGetActive, Spin24, Spin, XmitHoolock24, XmitHoolock, vars, SlaveUpDown, CarrierChange, slaveVars, bondVars
<1>2. op' = op \/ (op.kind # "enslave" /\ op' \in {Idle, Committing, Spinning})
  BY OpFacts
     DEF EnslaveDone24, EnslaveDone, EnslaveFails24, EnslaveFails, MiiQuit24, MiiQuit, MiiCommitBegin24,
         MiiCommitBegin, Open24, Open, Close24, Close, IoctlBreak24, IoctlBreak, IoctlGetActive24,
         IoctlGetActive, Spin24, Spin, XmitHoolock24, XmitHoolock, vars, SlaveUpDown, CarrierChange, RtnlFree,
         PointersInv24, PointersCore
<1>3. CASE op' = op
  BY <1>1, <1>3 DEF StateInv, StateFollowsActive, Listed
<1>4. CASE op.kind # "enslave" /\ op' \in {Idle, Committing, Spinning}
  <2>1. op'.kind # "enslave" /\ Listed' = Listed /\ NoSlave \in Dev \cup {NoSlave}
    BY <1>1, <1>4 DEF Listed, Idle, Committing, Spinning
  <2>2. QED BY <1>1, <1>4, <2>1, RoleState DEF PointersInv24, PointersCore
<1>5. QED BY <1>2, <1>3, <1>4

(* The first call does not take a link from up or fail to another one.     *)
LEMMA Inspect24State ==
  ASSUME PointersCore, StateInv, MiiInspect24
  PROVE  StateInv'
<1>0. active \in Listed \cup {NoSlave} /\ Listed \subseteq Dev
  BY ListedDevices DEF PointersCore, RolesListed
<1>1. /\ \A s \in Dev : link'[s] \in {Inspected(s).link, link[s]}
      /\ UNCHANGED <<slaves, op, active, state>>
  BY DEF MiiInspect24
<1>2. \A s \in Dev : link[s] \in {"UP", "FAIL"} => Inspected(s).link \in {"UP", "FAIL"}
  BY DEF Inspected, InspectedUp, Keep, CountDown
<1>3. Settled(active, link')
  <2>1. Settled(active, link)
    BY StateParts
  <2>2. \A s \in Dev : link[s] \in {"UP", "FAIL"} => link'[s] \in {"UP", "FAIL"}
    BY <1>1, <1>2
  <2>3. QED BY <1>0, <2>1, <2>2 DEF Settled
<1>4. QED BY <1>1, <1>3 DEF StateInv, StateFollowsActive, Settled, Listed

(* The commit of 2.6.24 does in one section what the loop of 2.6.27 does.  *)
LEMMA Commit24State ==
  ASSUME PointersInv24, StateInv, MiiCommit24, Mode = "activebackup" => UpDelay = 0
  PROVE  StateInv'
<1> DEFINE lnk == [d \in Dev |-> IF d \in Listed THEN Link24(d) ELSE link[d]]
           dly == [d \in Dev |-> IF d \in Listed THEN Inspected(d).delay ELSE delay[d]]
           st  == [d \in Dev |-> IF d \in Listed THEN State24(d) ELSE state[d]]
<1>0. /\ FieldTypes /\ RolesListed /\ slaves \in Seq(Dev) /\ Listed \in SUBSET Dev
      /\ link \in [Dev -> Link] /\ state \in [Dev -> State] /\ op = Committing
  BY ListedDevices DEF PointersInv24, PointersCore, FieldTypes, HandlersInv24, MiiCommit24
<1>1. active \in ToSet(slaves) \cup {NoSlave} /\ primary \in ToSet(slaves) \cup {NoSlave}
  BY <1>0 DEF RolesListed, Listed
<1>2. \A s \in Listed : lnk[s] = Link24(s) /\ st[s] = State24(s)
  BY <1>0
<1> HIDE DEF lnk, dly, st
<1>3. /\ lnk \in [Dev -> Link] /\ dly \in [Dev -> Nat] /\ st \in [Dev -> State]
      /\ IF \E s \in Listed : Failover24(s)
           THEN ChangeActive(BestSlave(slaves, primary, lnk, dly), lnk, dly, st, "none")
           ELSE link' = lnk /\ state' = st /\ active' = active
      /\ slaves' = slaves /\ op' = Idle
  BY Commit24Writes DEF lnk, dly, st
<1>4. op.kind # "enslave" /\ op'.kind # "enslave" /\ Listed' = Listed
  BY <1>0, <1>3 DEF Committing, Idle, Listed
<1>5. Finished = Listed /\ Finished' = Listed
  BY <1>0, <1>4, FinishedFacts
<1>6. Follows(Listed, active, state) /\ Settled(active, link)
  BY <1>5, StateParts
<1>7. \A s \in Dev : /\ Inspected(s).new \in {"UP", "DOWN", "NOCHANGE"}
                     /\ Inspected(s).new = "UP" => link[s] \in {"DOWN", "BACK"}
                     /\ link[s] \in {"UP", "FAIL"} => Inspected(s).link \in {"UP", "FAIL"}
  BY <1>0 DEF Inspected, InspectedUp, InspectedDown, Keep, CountDown, Link
<1>8. Mode = "activebackup" => \A s \in Listed : Inspected(s).new = "UP" => s # active
  <2> SUFFICES ASSUME Mode = "activebackup", NEW s \in Listed, Inspected(s).new = "UP" PROVE s # active
    OBVIOUS
  <2>1. link[s] \in {"DOWN", "BACK"} /\ s # NoSlave
    BY <1>0, <1>7, NoSlaveAssumption
  <2>2. QED BY <1>6, <2>1 DEF Settled
<1>9. Mode # "activebackup" => Follows(Listed, active, st)
  BY <1>2, <1>6 DEF State24, Follows
<1>10. Mode = "activebackup" => \A s \in Listed : s # active => st[s] # "ACTIVE"
  <2> SUFFICES ASSUME Mode = "activebackup", NEW s \in Listed, s # active PROVE st[s] # "ACTIVE"
    OBVIOUS
  <2>1. state[s] # "ACTIVE"
    BY <1>6 DEF Follows
  <2>2. QED BY <1>2, <2>1 DEF State24
<1>11. CASE Mode = "activebackup" /\ active # NoSlave /\ Inspected(active).new = "DOWN"
  <2>1. active \in Listed /\ active \in Dev
    BY <1>0, <1>1, <1>11 DEF Listed
  <2>2. Failover24(active) /\ lnk[active] = "DOWN"
    BY <1>2, <1>11, <2>1 DEF Failover24, Link24
  <2>3. ChangeActive(BestSlave(slaves, primary, lnk, dly), lnk, dly, st, "none")
    BY <1>3, <2>1, <2>2
  <2>4. \A t \in ToSet(slaves) : t # active => st[t] # "ACTIVE"
    BY <1>10, <1>11 DEF Listed
  <2>5. lnk \in [Dev -> Link] /\ dly \in [Dev -> Nat] /\ st \in [Dev -> State] /\ UpDelay = 0 /\ Mode = "activebackup"
    BY <1>3, <1>11
  <2>6. Follows(ToSet(slaves), active', state') /\ Settled(active', link')
    BY <1>0, <1>1, <2>1, <2>2, <2>3, <2>4, <2>5, DeposedFollows
  <2>7. QED BY <1>5, <1>4, <2>6 DEF StateInv, StateFollowsActive, Follows, Settled, Finished, Listed
<1>12. CASE ~(Mode = "activebackup" /\ active # NoSlave /\ Inspected(active).new = "DOWN")
  <2>1. Mode = "activebackup" /\ active \in Listed => st[active] = "ACTIVE" /\ lnk[active] \in {"UP", "FAIL"}
    <3> SUFFICES ASSUME Mode = "activebackup", active \in Listed
                 PROVE  st[active] = "ACTIVE" /\ lnk[active] \in {"UP", "FAIL"}
      OBVIOUS
    <3>1. active \in Dev /\ active # NoSlave
      BY <1>0, NoSlaveAssumption
    <3>2. state[active] = "ACTIVE" /\ link[active] \in {"UP", "FAIL"} /\ Inspected(active).new = "NOCHANGE"
      BY <1>6, <1>7, <1>8, <1>12, <3>1 DEF Follows, Settled
    <3>3. QED BY <1>2, <1>7, <3>1, <3>2 DEF State24, Link24
  <2>2. Follows(Listed, active, st)
    BY <1>9, <1>10, <2>1 DEF Follows
  <2>3. Settled(active, lnk)
    BY <1>1, <2>1 DEF Settled, Listed
  <2>4. Follows(Listed, active', state') /\ Settled(active', link')
    <3>1. CASE ChangeActive(BestSlave(slaves, primary, lnk, dly), lnk, dly, st, "none")
      BY <1>0, <1>1, <1>3, <2>2, <3>1, SelectFollows
    <3>2. CASE link' = lnk /\ state' = st /\ active' = active
      BY <2>2, <2>3, <3>2
    <3>3. QED BY <1>3, <3>1, <3>2
  <2>5. QED BY <1>4, <1>5, <2>4 DEF StateInv, StateFollowsActive, Follows, Settled, Finished
<1>13. QED BY <1>11, <1>12

(* Every step of the MII monitor's port keeps the states.                  *)
LEMMA MiiState24 ==
  ASSUME PointersInv24, StateInv, Mode = "activebackup" => UpDelay = 0 /\ ~HoolockIoctls, MiiNext24
  PROVE  StateInv'
<1>0. PointersCore /\ (Mode = "activebackup" => UpDelay = 0) /\ (Mode = "activebackup" => ~HoolockIoctls)
  BY DEF PointersInv24
<1>1. CASE HandlerStep24
  <2>1. ReleaseFinish \/ FreeAllNext => op.dev \notin Listed
    BY DEF ReleaseFinish, FreeAllNext, PointersInv24, HandlersInv24, Removing
  <2>2. QED BY <1>0, <1>1, <2>1, EnslaveSetup24State, Other24State, ReleaseReselect24State, DiscardState
            DEF HandlerStep24, ReleaseFinish24, FreeAllNext24
<1>2. CASE MonitorStep24
  BY <1>0, <1>2, Inspect24State, Commit24State, Other24State DEF MonitorStep24
<1>3. CASE MiiCommitBegin24 \/ XmitHoolock24 \/ Stopped
  BY <1>3, Other24State DEF Stopped
<1>4. CASE AdminBond24
  BY <1>0, <1>4, Admin24State, Other24State DEF AdminBond24
<1>5. CASE \E d \in Dev : AdminStep24(d) \/ CarrierChange(d)
  BY <1>0, <1>5, EnslaveOpen24State, Admin24State, Other24State DEF AdminStep24
<1>6. QED BY <1>1, <1>2, <1>3, <1>4, <1>5 DEF MiiNext24

(* In both ports with the MII monitor the state of a slave follows the     *)
(* active role, under the hypotheses of StatesFollow; 2.6.24 does not need *)
(* that nobody overtakes the monitor, which inspects the slaves again when *)
(* it has rtnl.                                                            *)
THEOREM PortStatesFollow ==
  ASSUME Monitors = {"mii"}, Mode = "activebackup" => UpDelay = 0 /\ ~HoolockIoctls,
         Mode = "activebackup" /\ "2.6.27" \in Kernels => ~RtnlOvertake
  PROVE  PortSpec => []StateFollowsActive
<1> DEFINE Places == mon \in {"idle", "waiting", "committing"}
           States == StateInv /\ (Mode = "activebackup" /\ kernel = "2.6.27" => ProposalsInv)
<1>1. PortInit => States
  <2> SUFFICES ASSUME PortInit PROVE States
    OBVIOUS
  <2>1. mon = "idle" /\ op.kind = "none" /\ active = NoSlave /\ Listed = {}
    BY DEF PortInit, ArpInit, Init, Idle, Listed, ToSet
  <2>2. QED BY <2>1 DEF ProposalsInv, Pending, StateInv, StateFollowsActive
<1>2. PortInv /\ Places /\ States /\ [PortNext]_pvars => States'
  <2> SUFFICES ASSUME PortInv, Places, States, [PortNext]_pvars PROVE States'
    OBVIOUS
  <2>0. kernel' = kernel /\ kernel \in Kernels /\ kernel \in {"2.6.24", "2.6.27"} /\ monitor = "mii"
    BY KernelsAssumption DEF PortInv, PortNext, pvars
  <2>1. PortNext => (kernel = "2.6.27" /\ [Next]_vars) \/ (kernel = "2.6.24" /\ MiiNext24)
    BY <2>0 DEF PortNext
  <2>2. UNCHANGED pvars => UNCHANGED vars
    BY DEF pvars, avars
  <2>3. CASE kernel = "2.6.27" /\ [Next]_vars
    <3>1. PointersInv /\ StateAssumption
      BY <2>0, <2>3 DEF PortInv, PortPointersInv, StateAssumption
    <3>2. StateInv'
      BY <2>3, <3>1, StateNext
    <3>3. Mode = "activebackup" => ProposalsInv'
      BY <2>3, <3>1, ProposalsNext DEF StateAssumption
    <3>4. QED BY <3>2, <3>3
  <2>4. CASE kernel = "2.6.24" /\ (MiiNext24 \/ UNCHANGED vars)
    <3>1. PointersInv24
      BY <2>4 DEF PortInv, PortPointersInv
    <3>2. StateInv'
      BY <2>4, <3>1, MiiState24, Other24State
    <3>3. QED BY <2>0, <2>4, <3>2
  <2>5. QED BY <2>0, <2>1, <2>2, <2>3, <2>4
<1>3. PortSpec => []States
  BY <1>1, <1>2, PortInvAlways, PortPlaces, PTL DEF PortSpec
<1>4. States => StateFollowsActive
  BY DEF StateInv
<1>5. QED BY <1>3, <1>4, PTL
-------------------------------------------------------------------------------
(***************************************************************************)
(* The carrier of the bond.                                                *)
(***************************************************************************)

(* bond_set_carrier sees the slaves of the list.                           *)
LEMMA CarrierMeans ==
  ASSUME NEW lnk
  PROVE  CarrierOf(slaves, lnk) <=> \E s \in Listed : lnk[s] = "UP"
  BY DEF CarrierOf, Listed

(* A step that makes no link up or failed and takes no carrier away.       *)
LEMMA CarrierKept ==
  ASSUME CarrierMii,
         \A s \in Listed' : link'[s] \in {"UP", "FAIL"} =>
            s \in Listed /\ link'[s] = link[s] /\ newLink'[s] = newLink[s],
         mon' = mon, mon = "committing" => slaves' = slaves /\ pos' = pos /\ link' = link,
         bondCarrier' = bondCarrier \/ BondEnds' \/ Listed' = {},
         BondEnds => BondEnds', op.kind = "enslave" => op'.kind = "enslave",
         gap = "carrier" => gap' = "carrier",
         op'.kind = "reselect" => gap' = "none"
  PROVE  CarrierMii'
<1>1. \A s \in Listed' : link'[s] = "FAIL" => mon' # "idle" /\ newLink'[s] = "DOWN"
  BY DEF CarrierMii
<1>2. mon' = "committing" => \A k \in 1..Len(slaves') : link'[slaves'[k]] = "FAIL" => k >= pos'
  BY DEF CarrierMii
<1>3. CarrierOf(slaves, link)' <=> \E s \in Listed' : link'[s] = "UP"
  BY DEF CarrierOf, Listed
<1>4. CarrierOf(slaves, link)' => CarrierOf(slaves, link) /\ Listed' # {}
  BY <1>3, CarrierMeans
<1>5. CarrierOf(slaves, link)' =>
        bondCarrier' \/ BondEnds' \/ op'.kind = "enslave" \/ gap' = "carrier" \/ mon' = "committing"
  BY <1>4 DEF CarrierMii
<1>6. QED BY <1>1, <1>2, <1>5 DEF CarrierMii

(* Nobody is half-way through when an administrator's handler starts.      *)
LEMMA FreeIsQuiet ==
  ASSUME RtnlFree
  PROVE  op = Idle /\ op.kind = "none" /\ gap = "none" /\ ~BondEnds
  BY DEF RtnlFree, Idle, BondEnds

(* A new slave counts as up until bond_enslave has looked at its carrier.  *)
LEMMA EnslaveAttachCarrier ==
  ASSUME PointersInv, CarrierMii, NEW d \in Dev, EnslaveAttach(d)
  PROVE  CarrierMii'
<1>0. FieldTypes /\ ListedOnce /\ HandlersInv /\ op.kind = "none" /\ d \notin Listed /\ Listed \subseteq Dev
  BY FreeIsQuiet, ListedDevices DEF PointersInv, PointersCore, EnslaveAttach, WriterFree, Listed
<1>1. Listed' = Listed \cup {d}
  BY <1>0, AttachMembers DEF EnslaveAttach, Listed, FieldTypes, ListedOnce
<1>2. mon' = mon /\ mon # "committing"
  BY <1>0 DEF EnslaveAttach, HandlersInv, monVars, Committing
<1>3. \A s \in Listed' : /\ s = d => link'[s] = "UP"
                         /\ s # d => link'[s] = link[s] /\ newLink'[s] = newLink[s] /\ s \in Listed
  BY <1>0, <1>1 DEF EnslaveAttach, FieldTypes
<1>4. \A s \in Listed' : link'[s] = "FAIL" => mon' # "idle" /\ newLink'[s] = "DOWN"
  BY <1>2, <1>3 DEF CarrierMii
<1>5. op' = [kind |-> "enslave", dev |-> d]
  BY DEF EnslaveAttach, Doing
<1>6. op'.kind = "enslave" /\ op'.kind # "reselect"
  BY <1>5
<1>7. QED BY <1>2, <1>4, <1>6 DEF CarrierMii

(* A change of the active slave lets no link fail, and whoever makes it    *)
(* sets the carrier.                                                       *)
LEMMA ChangeCarrier ==
  ASSUME NEW new \in Dev \cup {NoSlave}, NEW lnk \in [Dev -> Link], NEW dly, NEW st,
         ChangeActive(new, lnk, dly, st, "carrier")
  PROVE  /\ \A s \in Dev : link'[s] = "FAIL" => lnk[s] = "FAIL"
         /\ gap' \in {"none", "carrier"}
         /\ new = active => link' = lnk
  BY DEF ChangeActive

(* The carrier is set after a new slave has its link.                      *)
LEMMA EnslaveSetupCarrier ==
  ASSUME PointersInv, CarrierMii, EnslaveSetup
  PROVE  CarrierMii'
<1> DEFINE d     == op.dev
           lnk   == [link EXCEPT ![d] = InitialLink(d)]
           dly   == [delay EXCEPT ![d] = IF carrier[d] /\ UpDelay > 0 THEN UpDelay ELSE @]
           prm   == IF Mode # "trunk" /\ Primary = d THEN d ELSE primary
           st    == [state EXCEPT ![d] = NewSlaveState]
           best  == BestSlave(slaves, prm, lnk, dly)
           first == IF active = NoSlave THEN d ELSE active
<1>0. /\ FieldTypes /\ RolesListed /\ HandlersInv /\ op.kind = "enslave" /\ d \in Dev /\ d \in Listed /\ Listed \subseteq Dev
      /\ slaves \in Seq(Dev)
  BY OpFacts, ListedDevices DEF PointersInv, PointersCore, EnslaveSetup, HandlersInv, Adding, FieldTypes
<1>1. lnk \in [Dev -> Link] /\ lnk[d] # "FAIL" /\ \A s \in Dev : s # d => lnk[s] = link[s]
  <2>1. InitialLink(d) \in Link /\ InitialLink(d) # "FAIL"
    BY DEF InitialLink, Link
  <2>2. QED BY <1>0, <2>1 DEF FieldTypes
<1>2. best \in Dev \cup {NoSlave} /\ first \in Dev \cup {NoSlave}
  <2>1. prm \in ToSet(slaves) \cup {NoSlave} /\ active \in ToSet(slaves) \cup {NoSlave}
    BY <1>0 DEF RolesListed, Listed
  <2>2. best \in ToSet(slaves) \cup {NoSlave}
    BY <1>0, <2>1, BestSlaveListed
  <2>3. QED BY <1>0, <2>1, <2>2 DEF Listed
<1>3. /\ \/ ChangeActive(best, lnk, dly, st, "carrier")
         \/ ChangeActive(first, lnk, dly, st, "carrier")
         \/ link' = lnk /\ gap' = "none"
      /\ bondCarrier' = IF gap' = "none" THEN CarrierOf(slaves, link') ELSE bondCarrier
      /\ UNCHANGED <<slaves, newLink, mon>> /\ op' = [kind |-> "symlinks", dev |-> d]
  BY DEF EnslaveSetup, monVars, Doing
<1> HIDE DEF lnk, dly, prm, st, best, first
<1>4. (\A s \in Dev : link'[s] = "FAIL" => lnk[s] = "FAIL") /\ gap' \in {"none", "carrier"}
  BY <1>1, <1>2, <1>3, ChangeCarrier
<1>5. mon' # "committing"
  BY <1>0, <1>3 DEF HandlersInv, Committing
<1>6. \A s \in Listed' : link'[s] = "FAIL" => mon' # "idle" /\ newLink'[s] = "DOWN"
  <2>1. Listed' = Listed
    BY <1>3 DEF Listed
  <2>2. \A s \in Listed : link'[s] = "FAIL" => link[s] = "FAIL"
    BY <1>0, <1>1, <1>4
  <2>3. QED BY <1>3, <2>1, <2>2 DEF CarrierMii
<1>7. CarrierOf(slaves, link)' => bondCarrier' \/ gap' = "carrier"
  BY <1>3, <1>4
<1>8. op'.kind # "reselect"
  BY <1>3
<1>9. QED BY <1>5, <1>6, <1>7, <1>8 DEF CarrierMii

(* A release that selects a successor sets the carrier if there is one.    *)
LEMMA ReleaseReselectCarrier ==
  ASSUME PointersInv, CarrierMii, ReleaseReselect
  PROVE  CarrierMii'
<1> DEFINE best == BestSlave(slaves, primary, link, delay)
<1>0. /\ FieldTypes /\ RolesListed /\ HandlersInv /\ op.kind = "reselect" /\ Listed \subseteq Dev /\ slaves \in Seq(Dev)
      /\ link \in [Dev -> Link]
  BY ListedDevices DEF PointersInv, PointersCore, ReleaseReselect, FieldTypes
<1>1. best \in Dev \cup {NoSlave}
  <2>1. primary \in ToSet(slaves) \cup {NoSlave} /\ active \in ToSet(slaves) \cup {NoSlave}
    BY <1>0 DEF RolesListed, Listed
  <2>2. QED BY <1>0, <2>1, BestSlaveListed DEF Listed
<1>2. UNCHANGED <<slaves, newLink, mon, pos>> /\ op' = [kind |-> "release", dev |-> op.dev] /\ mon # "committing"
  BY <1>0 DEF ReleaseReselect, monVars, Doing, HandlersInv, Committing
<1>3. Listed' = Listed /\ op'.kind = "release" /\ op.kind # "enslave" /\ ~BondEnds
  BY <1>0, <1>2 DEF Listed, BondEnds
<1>4. CASE HasSlaves
  <2>1. /\ ChangeActive(best, link, delay, state, "carrier")
        /\ bondCarrier' = IF best # active /\ gap' = "none" THEN CarrierOf(slaves, link') ELSE bondCarrier
    BY <1>4 DEF ReleaseReselect, SelectActive
  <2>2. best = active => gap' = "none"
    BY <2>1 DEF ChangeActive
  <2> HIDE DEF best
  <2>3. /\ \A s \in Dev : link'[s] = "FAIL" => link[s] = "FAIL"
        /\ gap' \in {"none", "carrier"} /\ (best = active => link' = link)
    BY <1>0, <1>1, <2>1, ChangeCarrier
  <2>4. \A s \in Listed' : link'[s] = "FAIL" => mon' # "idle" /\ newLink'[s] = "DOWN"
    BY <1>0, <1>2, <1>3, <2>3 DEF CarrierMii
  <2>5. CarrierOf(slaves, link)' => bondCarrier' \/ gap' = "carrier" \/ gap = "carrier"
    <3>1. CASE best # active
      BY <1>2, <2>1, <2>3, <3>1
    <3>2. CASE best = active
      BY <1>2, <1>3, <2>1, <2>3, <3>2 DEF CarrierMii
    <3>3. QED BY <3>1, <3>2
  <2>6. gap = "none"
    BY <1>0 DEF CarrierMii
  <2>7. QED BY <1>2, <1>3, <2>4, <2>5, <2>6 DEF CarrierMii
<1>5. CASE ~HasSlaves
  <2>1. Listed' = {} /\ UNCHANGED <<link, gap>>
    BY <1>3, <1>5 DEF ReleaseReselect, HasSlaves, Listed, ToSet
  <2>2. QED BY <1>2, <1>3, <2>1, CarrierKept
<1>6. QED BY <1>4, <1>5

(* After the notification of a change.                                     *)
LEMMA AfterNotifyCarrier ==
  ASSUME PointersInv, CarrierMii, AfterNotify
  PROVE  CarrierMii'
<1>1. UNCHANGED <<slaves, link, newLink, mon, pos, op>> /\ gap' = "none"
  BY DEF AfterNotify, slaveVars, monVars
<1>2. bondCarrier' = IF gap = "carrier" THEN CarrierOf(slaves, link) ELSE bondCarrier
  BY DEF AfterNotify
<1>3. Listed' = Listed /\ (BondEnds' <=> BondEnds)
  BY <1>1 DEF Listed, BondEnds
<1>4. CarrierOf(slaves, link)' = CarrierOf(slaves, link)
  BY <1>1
<1>5. CarrierOf(slaves, link)' => bondCarrier' \/ BondEnds' \/ op'.kind = "enslave" \/ mon' = "committing"
  BY <1>1, <1>2, <1>3, <1>4 DEF CarrierMii
<1>6. QED BY <1>1, <1>3, <1>5 DEF CarrierMii

(* The administrator's handlers.                                           *)
LEMMA AdminCarrier ==
  ASSUME PointersInv, CarrierMii,
         \/ \E d \in Dev : ReleaseDetach(d) \/ IoctlChangeActive(d) \/ SlaveUpDown(d)
         \/ FreeAllBegin \/ Open \/ Close \/ Spin
  PROVE  CarrierMii'
<1>0. /\ FieldTypes /\ ListedOnce /\ Listed \subseteq Dev /\ slaves \in Seq(Dev)
      /\ op = Idle /\ op.kind = "none" /\ gap = "none" /\ ~BondEnds /\ mon # "committing"
  <2>1. FieldTypes /\ ListedOnce /\ HandlersInv /\ slaves \in Seq(Dev)
    BY DEF PointersInv, PointersCore, FieldTypes
  <2>2. RtnlFree
    BY DEF ReleaseDetach, IoctlChangeActive, SlaveUpDown, FreeAllBegin, Open, Close, Spin, WriterFree
  <2>3. QED BY <2>1, <2>2, FreeIsQuiet, ListedDevices DEF HandlersInv, Committing
<1>1. UNCHANGED <<newLink, mon>>
  BY DEF ReleaseDetach, IoctlChangeActive, SlaveUpDown, FreeAllBegin, Open, Close, Spin, slaveVars, monVars
<1>2. ASSUME NEW d \in Dev, ReleaseDetach(d) PROVE CarrierMii'
  <2>1. /\ ChangeActive(ActiveWithout(d), link, delay, state, "none") /\ slaves' = Detach(slaves, d)
        /\ bondCarrier' = bondCarrier \/ slaves' = <<>>
        /\ op' = [kind |-> IF active = d THEN "reselect" ELSE "release", dev |-> d]
    BY <1>2 DEF ReleaseDetach, Doing
  <2>2. link' = link /\ gap' = "none"
    BY <2>1 DEF ChangeActive, ActiveWithout
  <2>3. d \in Listed
    BY <1>0, <1>2 DEF ReleaseDetach, PointersInv, HandlersInv, Removing
  <2>4. Listed' \subseteq Listed /\ (slaves' = <<>> => Listed' = {})
    <3>1. ToSet(Detach(slaves, d)) = ToSet(slaves) \ {d}
      BY <1>0, <2>3, DetachMembers DEF Listed, ListedOnce
    <3>2. ToSet(<<>>) = {}
      BY DEF ToSet
    <3>3. QED BY <2>1, <3>1, <3>2 DEF Listed
  <2>5. QED BY <1>0, <1>1, <2>1, <2>2, <2>4, CarrierKept
<1>3. ASSUME NEW d \in Dev, IoctlChangeActive(d) PROVE CarrierMii'
  <2>1. link' = link /\ UNCHANGED <<slaves, op, bondCarrier>>
    BY <1>3 DEF IoctlChangeActive, ChangeActive
  <2>2. Listed' = Listed
    BY <2>1 DEF Listed
  <2>3. QED BY <1>0, <1>1, <2>1, <2>2, CarrierKept
<1>4. ASSUME NEW d \in Dev, SlaveUpDown(d) PROVE CarrierMii'
  <2>1. UNCHANGED <<link, slaves, op, bondCarrier, gap>>
    BY <1>4 DEF SlaveUpDown, slaveVars, bondVars
  <2>2. Listed' = Listed
    BY <2>1 DEF Listed
  <2>3. QED BY <1>0, <1>1, <2>1, <2>2, CarrierKept
<1>5. CASE FreeAllBegin
  <2>1. \/ ChangeActive(NoSlave, link, delay, state, "none") /\ slaves' = Tail(slaves) /\ slaves # <<>>
           /\ op' = [kind |-> "freeall", dev |-> slaves[1]]
        \/ UNCHANGED <<link, slaves, gap>> /\ op' = Destroyed
    BY <1>5 DEF FreeAllBegin, HasSlaves, Doing
  <2>2. link' = link /\ BondEnds' /\ op'.kind # "reselect"
    BY <2>1 DEF ChangeActive, BondEnds, Destroyed
  <2>3. Listed' \subseteq Listed
    BY <1>0, <2>1, TailMembers DEF Listed, ListedOnce
  <2>4. QED BY <1>0, <1>1, <2>2, <2>3, CarrierKept
<1>6. CASE Open \/ Close \/ Spin
  <2>1. UNCHANGED <<link, slaves, bondCarrier, gap>> /\ op' \in {Idle, Spinning}
    BY <1>0, <1>6 DEF Open, Close, Spin, slaveVars, bondVars
  <2>2. Listed' = Listed /\ op'.kind # "reselect"
    BY <2>1 DEF Listed, Idle, Spinning
  <2>3. QED BY <1>0, <1>1, <2>1, <2>2, CarrierKept
<1>7. QED BY <1>2, <1>3, <1>4, <1>5, <1>6

(* The ends of the handlers, and what changes neither list nor links.      *)
LEMMA OtherCarrier ==
  ASSUME PointersInv, CarrierMii,
         \/ EnslaveDone \/ EnslaveFails \/ ReleaseFinish \/ FreeAllNext \/ MiiQuit \/ XmitHoolock
         \/ MiiCommitBegin \/ UNCHANGED vars \/ \E d \in Dev : CarrierChange(d)
  PROVE  CarrierMii'
<1>0. FieldTypes /\ ListedOnce /\ Listed \subseteq Dev /\ slaves \in Seq(Dev) /\ HandlersInv
  BY ListedDevices DEF PointersInv, PointersCore, FieldTypes
<1>1. CASE ReleaseFinish \/ FreeAllNext
  <2>1. /\ op.dev \notin Listed /\ Discard(op.dev) /\ UNCHANGED <<mon, pos, bondCarrier, gap>>
        /\ op.kind \in {"release", "freeall"}
    BY <1>0, <1>1 DEF ReleaseFinish, FreeAllNext, HandlersInv, Removing, monVars, bondVars
  <2>2. /\ \/ op' = Idle /\ slaves' = slaves /\ gap = "none" /\ op.kind = "release"
           \/ op' = Destroyed /\ slaves' = slaves
           \/ op' = [kind |-> "freeall", dev |-> slaves[1]] /\ slaves' = Tail(slaves) /\ slaves # <<>>
    BY <1>1 DEF ReleaseFinish, FreeAllNext, Doing, bondVars, HasSlaves
  <2>3. Listed' \subseteq Listed
    BY <1>0, <2>2, TailMembers DEF Listed, ListedOnce
  <2>4. \A s \in Dev : s # op.dev => link'[s] = link[s] /\ newLink'[s] = newLink[s]
    BY <1>0, <2>1 DEF Discard, FieldTypes
  <2>5. op'.kind # "reselect" /\ (BondEnds => BondEnds') /\ mon # "committing"
    BY <1>0, <2>1, <2>2 DEF Idle, Destroyed, BondEnds, HandlersInv, Committing
  <2>6. op.kind # "enslave"
    BY <2>1
  <2>7. \A s \in Listed' : link'[s] = link[s] /\ newLink'[s] = newLink[s] /\ s \in Listed
    BY <1>0, <2>1, <2>3, <2>4
  <2>8. QED BY <2>1, <2>5, <2>6, <2>7, CarrierKept
<1>2. CASE EnslaveDone \/ EnslaveFails
  <2>1. UNCHANGED <<mon, pos, slaves, link, newLink, bondCarrier, gap>> /\ op' = Idle /\ op.kind = "symlinks"
    BY <1>2 DEF EnslaveDone, EnslaveFails, monVars, bondVars, slaveVars
  <2>2. Listed' = Listed /\ op'.kind # "reselect" /\ ~BondEnds /\ op.kind # "enslave"
    BY <2>1 DEF Listed, Idle, BondEnds
  <2>3. QED BY <2>1, <2>2, CarrierKept
<1>3. CASE MiiQuit \/ XmitHoolock \/ UNCHANGED vars \/ \E d \in Dev : CarrierChange(d)
  <2>1. UNCHANGED <<mon, pos, slaves, link, newLink, bondCarrier, gap, op>>
    BY <1>3 DEF MiiQuit, XmitHoolock, CarrierChange, vars, monVars, bondVars, slaveVars
  <2>2. Listed' = Listed /\ (BondEnds' <=> BondEnds)
    BY <2>1 DEF Listed, BondEnds
  <2>3. QED BY <2>1, <2>2, CarrierKept DEF CarrierMii
<1>4. CASE MiiCommitBegin
  <2>1. UNCHANGED <<slaves, link, newLink>> /\ mon' = "committing" /\ pos' = 1 /\ op' = Committing
        /\ mon = "waiting"
    BY <1>4 DEF MiiCommitBegin, bondVars, slaveVars
  <2>2. Listed' = Listed /\ op'.kind # "reselect"
    BY <2>1 DEF Listed, Committing
  <2>3. \A s \in Listed' : link'[s] = "FAIL" => mon' # "idle" /\ newLink'[s] = "DOWN"
    BY <2>1, <2>2 DEF CarrierMii
  <2>4. \A k \in 1..Len(slaves') : link'[slaves'[k]] = "FAIL" => k >= pos'
    BY <1>0, <2>1, SeqFacts
  <2>5. QED BY <2>1, <2>2, <2>3, <2>4 DEF CarrierMii
<1>5. QED BY <1>1, <1>2, <1>3, <1>4

(* The inspection sets up only links that are up; without a downdelay a    *)
(* link fails only with the proposal to set it down.                       *)
LEMMA InspectCarrier ==
  ASSUME PointersInv, CarrierMii, MiiInspect, DownDelay = 0
  PROVE  CarrierMii'
<1>0. FieldTypes /\ Listed \subseteq Dev /\ slaves \in Seq(Dev) /\ link \in [Dev -> Link] /\ mon = "idle"
  BY ListedDevices DEF PointersInv, PointersCore, FieldTypes, MiiInspect
<1>1. /\ \A s \in Listed : link'[s] = Inspected(s).link /\ newLink'[s] = Inspected(s).new
      /\ UNCHANGED <<slaves, bondCarrier, gap, op>>
      /\ \/ mon' = "waiting"
         \/ mon' = "idle" /\ \A s \in Listed : newLink'[s] = "NOCHANGE"
  BY <1>0 DEF MiiInspect, Listed, bondVars
<1>2. Listed' = Listed /\ mon' # "committing" /\ (BondEnds' <=> BondEnds)
  BY <1>1 DEF Listed, BondEnds
<1>3. \A s \in Listed : link[s] # "FAIL"
  BY <1>0 DEF CarrierMii
<1>4. \A s \in Listed : /\ Inspected(s).link = "FAIL" => Inspected(s).new = "DOWN"
                        /\ Inspected(s).link = "UP" => link[s] = "UP"
  <2> SUFFICES ASSUME NEW s \in Listed
               PROVE  /\ Inspected(s).link = "FAIL" => Inspected(s).new = "DOWN"
                      /\ Inspected(s).link = "UP" => link[s] = "UP"
    OBVIOUS
  <2>1. link[s] \in {"UP", "DOWN", "BACK"}
    BY <1>0, <1>3 DEF Link
  <2>2. CASE link[s] = "UP"
    BY <2>2 DEF Inspected, InspectedUp, Keep, CountDown
  <2>3. CASE link[s] \in {"DOWN", "BACK"}
    BY <2>3 DEF Inspected, InspectedDown, Keep, CountDown
  <2>4. QED BY <2>1, <2>2, <2>3
<1>45. \A s \in Listed : /\ link'[s] = "FAIL" => newLink'[s] = "DOWN"
                         /\ link'[s] = "UP" => link[s] = "UP"
  BY <1>1, <1>4
<1>5. \A s \in Listed' : link'[s] = "FAIL" => mon' # "idle" /\ newLink'[s] = "DOWN"
  <2>1. \/ mon' = "waiting"
        \/ mon' = "idle" /\ \A s \in Listed : newLink'[s] = "NOCHANGE"
    BY <1>1
  <2>2. ASSUME NEW s \in Listed, link'[s] = "FAIL" PROVE mon' # "idle" /\ newLink'[s] = "DOWN"
    <3>1. newLink'[s] = "DOWN"
      BY <1>45, <2>2
    <3>2. QED BY <2>1, <3>1
  <2>3. Listed' = Listed
    BY <1>2
  <2>4. QED BY <2>2, <2>3
<1>6. CarrierOf(slaves, link)' => CarrierOf(slaves, link)
  <2>1. CarrierOf(slaves, link)' <=> \E s \in Listed' : link'[s] = "UP"
    BY DEF CarrierOf, Listed
  <2>2. CarrierOf(slaves, link) <=> \E s \in Listed : link[s] = "UP"
    BY CarrierMeans
  <2>3. Listed' = Listed
    BY <1>2
  <2>4. (\E s \in Listed : link'[s] = "UP") => \E s \in Listed : link[s] = "UP"
    BY <1>45
  <2>5. QED BY <2>1, <2>2, <2>3, <2>4
<1>7. QED BY <1>0, <1>1, <1>2, <1>5, <1>6 DEF CarrierMii

(* The commit leaves no link that has failed behind it.                    *)
LEMMA CommitSlaveCarrier ==
  ASSUME PointersInv, CarrierMii, MiiCommitSlave
  PROVE  CarrierMii'
<1> DEFINE s   == slaves[pos]
           lnk == [link EXCEPT ![s] = newLink[s]]
           st  == [state EXCEPT ![s] = CommittedState(s)]
           best == BestSlave(slaves, primary, lnk, delay)
<1>0. /\ FieldTypes /\ RolesListed /\ ListedOnce /\ Listed \subseteq Dev /\ slaves \in Seq(Dev)
      /\ link \in [Dev -> Link] /\ newLink \in [Dev -> {"UP", "DOWN", "NOCHANGE"}]
      /\ op = Committing /\ pos > 0 /\ pos \in Nat /\ mon = "committing"
  BY ListedDevices DEF PointersInv, PointersCore, FieldTypes, HandlersInv, MiiCommitSlave
<1>1. s \in Listed /\ s \in Dev /\ pos \in 1..Len(slaves)
  BY <1>0, SeqFacts DEF MiiCommitSlave, Listed
<1>2. /\ \/ newLink[s] = "NOCHANGE" /\ link' = link
         \/ newLink[s] # "NOCHANGE" /\ link' = lnk
         \/ newLink[s] # "NOCHANGE" /\ ChangeActive(best, lnk, delay, st, "carrier")
      /\ UNCHANGED <<slaves, mon, newLink, op>> /\ pos' = pos + 1
  BY DEF MiiCommitSlave, SelectActive
<1>3. newLink[s] # "NOCHANGE" => lnk \in [Dev -> Link] /\ lnk[s] # "FAIL" /\ \A t \in Dev : t # s => lnk[t] = link[t]
  BY <1>0, <1>1 DEF Link
<1>4. best \in Dev \cup {NoSlave}
  <2>1. primary \in ToSet(slaves) \cup {NoSlave} /\ active \in ToSet(slaves) \cup {NoSlave}
    BY <1>0 DEF RolesListed, Listed
  <2>2. QED BY <1>0, <2>1, BestSlaveListed DEF Listed
<1> HIDE DEF s, lnk, st, best
<1>5. /\ \A t \in Dev : link'[t] = "FAIL" => link[t] = "FAIL"
      /\ link'[s] # "FAIL"
  <2>1. CASE newLink[s] = "NOCHANGE" /\ link' = link
    BY <1>1, <2>1 DEF CarrierMii
  <2>2. CASE newLink[s] # "NOCHANGE" /\ link' = lnk
    BY <1>1, <1>3, <2>2
  <2>3. CASE newLink[s] # "NOCHANGE" /\ ChangeActive(best, lnk, delay, st, "carrier")
    <3>1. \A t \in Dev : link'[t] = "FAIL" => lnk[t] = "FAIL"
      BY <1>3, <1>4, <2>3, ChangeCarrier
    <3>2. QED BY <1>1, <1>3, <2>3, <3>1
  <2>4. QED BY <1>2, <2>1, <2>2, <2>3
<1>6. Listed' = Listed /\ op'.kind # "reselect" /\ mon' = "committing"
  BY <1>0, <1>2 DEF Listed, Committing
<1>7. \A t \in Listed' : link'[t] = "FAIL" => mon' # "idle" /\ newLink'[t] = "DOWN"
  BY <1>0, <1>2, <1>5, <1>6 DEF CarrierMii
<1>8. \A k \in 1..Len(slaves') : link'[slaves'[k]] = "FAIL" => k >= pos'
  <2> SUFFICES ASSUME NEW k \in 1..Len(slaves), link'[slaves[k]] = "FAIL" PROVE k >= pos + 1
    BY <1>2
  <2>1. slaves[k] \in Dev /\ k \in Nat
    BY <1>0, SeqFacts
  <2>2. k >= pos
    BY <1>0, <1>5, <2>1 DEF CarrierMii
  <2>3. k # pos
    BY <1>5 DEF s
  <2>4. QED BY <1>0, <2>1, <2>2, <2>3
<1>9. QED BY <1>6, <1>7, <1>8 DEF CarrierMii

(* Nor is any left when it ends.                                           *)
LEMMA CommitEndCarrier ==
  ASSUME PointersInv, CarrierMii, MiiCommitEnd
  PROVE  CarrierMii'
<1>0. FieldTypes /\ slaves \in Seq(Dev) /\ pos \in Nat /\ mon = "committing" /\ pos > Len(slaves)
  BY DEF PointersInv, PointersCore, FieldTypes, MiiCommitEnd
<1>1. UNCHANGED <<slaves, link>> /\ bondCarrier' = CarrierOf(slaves, link) /\ mon' = "idle" /\ op' = Idle
  BY DEF MiiCommitEnd, slaveVars
<1>2. Listed' = Listed /\ op'.kind # "reselect"
  BY <1>1 DEF Listed, Idle
<1>3. ASSUME NEW t \in Listed, link[t] = "FAIL" PROVE FALSE
  <2>1. PICK k \in 1..Len(slaves) : slaves[k] = t
    BY <1>0, SeqFacts DEF Listed
  <2>2. k >= pos
    BY <1>0, <1>3, <2>1 DEF CarrierMii
  <2>3. QED BY <1>0, <2>1, <2>2
<1>4. CarrierOf(slaves, link)' => bondCarrier'
  BY <1>1
<1>5. QED BY <1>1, <1>2, <1>3, <1>4 DEF CarrierMii

(* Every step under the MII monitor of 2.6.27.                             *)
LEMMA CarrierNext ==
  ASSUME PointersInv, CarrierMii, ~HoolockIoctls, DownDelay = 0, [Next]_vars
  PROVE  CarrierMii'
<1>1. CASE HandlerStep
  BY <1>1, EnslaveSetupCarrier, ReleaseReselectCarrier, AfterNotifyCarrier, OtherCarrier DEF HandlerStep
<1>2. CASE MonitorStep
  BY <1>2, InspectCarrier, CommitSlaveCarrier, CommitEndCarrier, OtherCarrier DEF MonitorStep
<1>3. CASE AdminBond
  BY <1>3, AdminCarrier DEF AdminBond, IoctlMake, IoctlBreak, IoctlGetActive
<1>4. CASE MiiCommitBegin \/ XmitHoolock \/ Stopped \/ UNCHANGED vars
  BY <1>4, OtherCarrier DEF Stopped
<1>5. CASE \E d \in Dev : AdminStep(d) \/ CarrierChange(d)
  BY <1>5, EnslaveAttachCarrier, AdminCarrier, OtherCarrier DEF AdminStep, IoctlHoolockTest
<1>6. QED BY <1>1, <1>2, <1>3, <1>4, <1>5 DEF Next

(* A slave is up and nobody has set the carrier or is about to.            *)
Uncovered == AttachedUp /\ ~bondCarrier /\ ~BondEnds /\ op.kind # "enslave"

(* A step of a handler that lets no further slave be up and runs leaves    *)
(* the bond covered.                                                       *)
LEMMA StaysCovered ==
  ASSUME AttachedRun,
         \A s \in Listed' : s \in Listed /\ link'[s] = link[s]
                            /\ (master'[s] => master[s] /\ running'[s] = running[s]),
         op'.kind = "enslave" => running'[op'.dev],
         bondCarrier' = bondCarrier \/ BondEnds' \/ Listed' = {},
         BondEnds => BondEnds', op.kind = "enslave" => op'.kind = "enslave"
  PROVE  AttachedRun' /\ (Uncovered' => Uncovered)
<1>1. AttachedRun'
  BY DEF AttachedRun
<1>2. ASSUME Uncovered' PROVE Uncovered
  <2>1. AttachedUp' /\ ~bondCarrier' /\ ~BondEnds' /\ op'.kind # "enslave"
    BY <1>2 DEF Uncovered
  <2>2. PICK s \in Listed' : link'[s] = "UP" /\ master'[s]
    BY <2>1 DEF AttachedUp
  <2>3. s \in Listed /\ link[s] = "UP" /\ master[s] /\ Listed' # {}
    BY <2>2
  <2>4. QED BY <2>1, <2>3 DEF AttachedUp, Uncovered
<1>3. QED BY <1>1, <1>2

(* A handler that leaves a carrier if a link is up.                        *)
LEMMA CarrierCovers ==
  ASSUME CarrierOf(slaves, link)' => bondCarrier'
  PROVE  ~Uncovered'
<1>1. AttachedUp' => CarrierOf(slaves, link)'
  BY DEF AttachedUp, CarrierOf, Listed
<1>2. QED BY <1>1 DEF Uncovered

(* bond_select_active_slave selects a slave whose link is up if there is   *)
(* one.                                                                    *)
LEMMA SelectCovers ==
  ASSUME FieldTypes, RolesListed, NEW lnk \in [Dev -> Link], NEW dly, NEW st, SelectActive24(lnk, dly, st),
         slaves' = slaves, Mode # "activebackup"
  PROVE  /\ gap' = "none"
         /\ \/ CarrierOf(slaves, link)' => bondCarrier'
            \/ /\ link' = lnk /\ active' = active /\ bondCarrier' = bondCarrier
               /\ (\E s \in Listed : IsUp(s) /\ lnk[s] = "UP") => active # NoSlave /\ lnk[active] = "UP"
<1> DEFINE best == BestSlave(slaves, primary, lnk, dly)
<1>0. /\ slaves \in Seq(Dev) /\ Listed \subseteq Dev
      /\ active \in ToSet(slaves) \cup {NoSlave} /\ primary \in ToSet(slaves) \cup {NoSlave}
  BY ListedDevices DEF RolesListed, Listed, FieldTypes
<1>1. /\ ChangeActive(best, lnk, dly, st, "none")
      /\ bondCarrier' = IF best # active THEN CarrierOf(slaves, link') ELSE bondCarrier
  BY DEF SelectActive24, ChangeActive24, CarrierOf24, BestSlave24
<1>2. ASSUME NEW s \in Listed, IsUp(s), lnk[s] = "UP" PROVE best # NoSlave /\ lnk[best] = "UP"
  <2>1. s \in ToSet(slaves) /\ ToSet(slaves) \subseteq Dev
    BY <1>0 DEF Listed
  <2>2. best \in ToSet(slaves) /\ lnk[best] = "UP"
    BY <1>0, <1>2, <2>1, BestSlaveFound
  <2>3. QED BY <2>1, <2>2, NoSlaveAssumption
<1> HIDE DEF best
<1>3. gap' = "none"
  BY <1>1 DEF ChangeActive
<1>4. CASE best # active
  <2>1. CarrierOf(slaves, link)' => bondCarrier'
    BY <1>1, <1>4
  <2>2. QED BY <1>3, <2>1
<1>5. CASE best = active
  <2>1. link' = lnk /\ active' = active /\ bondCarrier' = bondCarrier
    BY <1>1, <1>5 DEF ChangeActive
  <2>2. QED BY <1>2, <1>3, <1>5, <2>1
<1>6. QED BY <1>4, <1>5

(* bond_enslave of 2.6.24 sets the carrier when it has attached the slave. *)
LEMMA EnslaveSetup24Covers ==
  ASSUME PointersInv24, AttachedRun, Mode # "activebackup", EnslaveSetup24
  PROVE  /\ AttachedRun' /\ ~Uncovered' /\ gap' = "none" /\ mon' = mon
         /\ primary' = primary
<1> DEFINE d == op.dev
<1>0. /\ FieldTypes /\ ListedOnce /\ slaves \in Seq(Dev) /\ d \in Dev /\ d \notin Listed /\ op.kind = "enslave"
  BY OpFacts DEF PointersInv24, PointersCore, HandlersInv24, FieldTypes, EnslaveSetup24, Adding
<1>2. /\ slaves' = Attach(slaves, d) /\ UNCHANGED <<master, running, mon>> /\ op' = [kind |-> "symlinks", dev |-> d]
      /\ bondCarrier' = CarrierOf(slaves', link') /\ gap' = "none"
      /\ primary' = primary
  BY DEF EnslaveSetup24, Attach24, CarrierOf24, ChangeActive24, ChangeActive, Primary24, UsesPrimary24, Doing,
              devVars, monVars
<1>3. Listed' = Listed \cup {d}
  BY <1>0, <1>2, AttachMembers DEF Listed, ListedOnce
<1>4. AttachedRun'
  BY <1>0, <1>2, <1>3 DEF AttachedRun
<1>5. CarrierOf(slaves, link)' => bondCarrier'
  BY <1>2
<1>6. QED BY <1>2, <1>4, <1>5, CarrierCovers

(* The other handlers of either port in the modes in which all slaves      *)
(* carry traffic.                                                          *)
LEMMA HandlerCovers ==
  ASSUME PointersCore, op.kind \in Removing => op.dev \notin Listed, AttachedRun, Mode # "activebackup",
         gap = "none",
         \/ EnslaveDone \/ EnslaveFails \/ ReleaseReselect24 \/ ReleaseFinish \/ FreeAllNext
         \/ FreeAllBegin \/ Open \/ Close \/ Spin
         \/ \E d \in Dev : EnslaveOpen24(d) \/ ReleaseDetach24(d) \/ ReleaseStray24(d)
  PROVE  /\ AttachedRun' /\ (Uncovered' => Uncovered) /\ gap' = "none" /\ mon' = mon
         /\ primary = NoSlave => primary' = NoSlave
<1>0. /\ FieldTypes /\ RolesListed /\ ListedOnce /\ slaves \in Seq(Dev) /\ Listed \subseteq Dev
      /\ link \in [Dev -> Link]
      /\ op.kind \in Adding \cup Removing => op.dev \in Dev
  BY OpFacts, ListedDevices DEF PointersCore, FieldTypes
<1>2. CASE ReleaseReselect24
  <2>1. /\ op.kind = "reselect" /\ op' = [kind |-> "release", dev |-> op.dev]
        /\ UNCHANGED <<slaves, master, running, primary, mon>>
    BY <1>2 DEF ReleaseReselect24, Doing, devVars, monVars
  <2>2. Listed' = Listed /\ op'.kind = "release" /\ op.kind # "enslave" /\ ~BondEnds
    BY <2>1 DEF Listed, BondEnds
  <2>3. AttachedRun'
    BY <2>1, <2>2 DEF AttachedRun
  <2>4. CASE HasSlaves
    <3>1. SelectActive24(link, delay, state)
      BY <1>2, <2>4 DEF ReleaseReselect24
    <3>2. /\ gap' = "none"
          /\ \/ CarrierOf(slaves, link)' => bondCarrier'
             \/ link' = link /\ bondCarrier' = bondCarrier
      BY <1>0, <2>1, <3>1, SelectCovers
    <3>3. CASE CarrierOf(slaves, link)' => bondCarrier'
      BY <2>1, <2>3, <3>2, <3>3, CarrierCovers
    <3>4. CASE link' = link /\ bondCarrier' = bondCarrier
      BY <2>1, <2>2, <3>2, <3>4, StaysCovered
    <3>5. QED BY <3>2, <3>3, <3>4, FreeIsQuiet
  <2>5. CASE ~HasSlaves
    <3>1. UNCHANGED <<link, gap>>
      BY <1>2, <2>5 DEF ReleaseReselect24
    <3>2. Listed' = {}
      BY <2>1, <2>5 DEF HasSlaves, Listed, ToSet
    <3>3. QED BY <2>1, <2>2, <3>1, <3>2, StaysCovered
  <2>6. QED BY <2>4, <2>5
<1>3. ASSUME NEW d \in Dev, ReleaseDetach24(d) \/ ReleaseStray24(d)
      PROVE  /\ AttachedRun' /\ (Uncovered' => Uncovered) /\ gap' = "none" /\ mon' = mon
             /\ primary = NoSlave => primary' = NoSlave
  <2>1. PICK s \in Listed : /\ slaves' = Detach(slaves, s)
                            /\ primary' \in {primary, NoSlave}
                            /\ bondCarrier' = bondCarrier \/ slaves' = <<>>
    <3>1. CASE ReleaseDetach24(d)
      BY <3>1 DEF ReleaseDetach24, ReleaseDetach, Listed
    <3>2. CASE ReleaseStray24(d)
      <4>1. SlaveByDev(slaves, d) \in Listed
        <5>1. slaves # <<>>
          BY <3>2 DEF ReleaseStray24, SlaveByDev24, SlaveByDev
        <5>2. QED BY <1>0, <5>1, SlaveByDevMember DEF Listed
      <4>2. QED BY <3>2, <4>1 DEF ReleaseStray24, SlaveByDev24, Detach24
    <3>3. QED BY <1>3, <3>1, <3>2
  <2>2. link' = link /\ gap' = "none"
    <3>1. \E new \in {active, NoSlave} : ChangeActive(new, link, delay, state, "none")
      BY <1>3 DEF ReleaseDetach24, ReleaseDetach, ActiveWithout, ReleaseStray24, ChangeActive24
    <3>2. QED BY <3>1 DEF ChangeActive
  <2>21. UNCHANGED <<master, running, mon>> /\ RtnlFree
    BY <1>3 DEF ReleaseDetach24, ReleaseDetach, ReleaseStray24, devVars, monVars, WriterFree
  <2>22. op'.kind # "enslave"
    <3>1. op' = [kind |-> "reselect", dev |-> d] \/ op' = [kind |-> "release", dev |-> d]
      BY <1>3 DEF ReleaseDetach24, ReleaseDetach, ReleaseStray24, Doing
    <3>2. QED BY <3>1
  <2>3. ToSet(Detach(slaves, s)) = ToSet(slaves) \ {s} /\ ToSet(<<>>) = {}
    <3>1. ToSet(Detach(slaves, s)) = ToSet(slaves) \ {s}
      BY <1>0, DetachMembers DEF Listed, ListedOnce
    <3>2. QED BY <3>1 DEF ToSet
  <2>4. Listed' \subseteq Listed /\ (slaves' = <<>> => Listed' = {})
    BY <2>1, <2>3 DEF Listed
  <2>5. op.kind # "enslave" /\ ~BondEnds
    BY <2>21, FreeIsQuiet
  <2>6. AttachedRun' /\ (Uncovered' => Uncovered)
    BY <2>1, <2>2, <2>21, <2>22, <2>4, <2>5, StaysCovered
  <2>7. QED BY <2>1, <2>2, <2>21, <2>6
<1>4. CASE ReleaseFinish \/ FreeAllNext
  <2>1. /\ op.dev \notin Listed /\ op.dev \in Dev /\ Discard(op.dev)
        /\ UNCHANGED <<mon, bondCarrier, gap, primary>>
        /\ op.kind \in {"release", "freeall"}
    BY <1>0, <1>4 DEF ReleaseFinish, FreeAllNext, Removing, monVars, bondVars
  <2>2. \/ op' = Idle /\ slaves' = slaves /\ op.kind = "release"
        \/ op' = Destroyed /\ slaves' = slaves
        \/ op' = [kind |-> "freeall", dev |-> slaves[1]] /\ slaves' = Tail(slaves) /\ slaves # <<>>
    BY <1>4 DEF ReleaseFinish, FreeAllNext, Doing, bondVars, HasSlaves
  <2>3. Listed' \subseteq Listed
    BY <1>0, <2>2, TailMembers DEF Listed, ListedOnce
  <2>4. \A s \in Dev : s # op.dev => /\ link'[s] = link[s]
                                     /\ master'[s] = master[s] /\ running'[s] = running[s]
    BY <1>0, <2>1 DEF Discard, FieldTypes
  <2>5. op'.kind # "enslave" /\ (BondEnds => BondEnds') /\ op.kind # "enslave"
    BY <2>1, <2>2 DEF Idle, Destroyed, BondEnds
  <2>6. \A s \in Listed' : s \in Listed /\ link'[s] = link[s]
                           /\ (master'[s] => master[s] /\ running'[s] = running[s])
    BY <1>0, <2>1, <2>3, <2>4
  <2>7. AttachedRun' /\ (Uncovered' => Uncovered)
    BY <2>1, <2>5, <2>6, StaysCovered
  <2>8. QED BY <2>1, <2>7
<1>5. CASE FreeAllBegin
  <2>1. \/ ChangeActive(NoSlave, link, delay, state, "none") /\ slaves' = Tail(slaves) /\ slaves # <<>>
           /\ op' = [kind |-> "freeall", dev |-> slaves[1]]
        \/ UNCHANGED <<link, slaves, gap>> /\ op' = Destroyed
    BY <1>5 DEF FreeAllBegin, HasSlaves, Doing
  <2>2. link' = link /\ gap' = "none" /\ BondEnds' /\ op'.kind # "enslave"
    BY <2>1 DEF ChangeActive, BondEnds, Destroyed
  <2>3. Listed' \subseteq Listed
    BY <1>0, <2>1, TailMembers DEF Listed, ListedOnce
  <2>4. UNCHANGED <<master, running, mon>> /\ op.kind = "none" /\ primary' \in {primary, NoSlave}
    BY <1>5 DEF FreeAllBegin, devVars, WriterFree, RtnlFree, Idle
  <2>5. AttachedRun'
    BY <2>2, <2>3, <2>4 DEF AttachedRun
  <2>6. ~Uncovered'
    BY <2>2 DEF Uncovered
  <2>7. QED BY <2>2, <2>4, <2>5, <2>6
<1>6. ASSUME NEW d \in Dev, EnslaveOpen24(d)
      PROVE  /\ AttachedRun' /\ (Uncovered' => Uncovered) /\ gap' = "none" /\ mon' = mon
             /\ primary = NoSlave => primary' = NoSlave
  <2>1. /\ d \notin Listed /\ UNCHANGED <<slaves, link, bondCarrier, gap, mon, primary>>
        /\ master' = [master EXCEPT ![d] = TRUE]
        /\ \/ running' = [running EXCEPT ![d] = TRUE] /\ op' = [kind |-> "enslave", dev |-> d]
           \/ UNCHANGED <<running, op>>
        /\ op.kind = "none"
    BY <1>6 DEF EnslaveOpen24, Listed, slaveVars, bondVars, monVars, Doing, WriterFree, RtnlFree, Idle
  <2>2. Listed' = Listed /\ ~BondEnds
    BY <2>1 DEF Listed, BondEnds
  <2>3. op'.kind = "enslave" => running'[op'.dev]
    BY <1>0, <2>1 DEF FieldTypes
  <2>4. \A s \in Dev : s # d => master'[s] = master[s] /\ running'[s] = running[s]
    BY <1>0, <2>1 DEF FieldTypes
  <2>5. \A s \in Listed' : s \in Listed /\ link'[s] = link[s]
                           /\ (master'[s] => master[s] /\ running'[s] = running[s])
    BY <1>0, <2>1, <2>2, <2>4
  <2>6. AttachedRun' /\ (Uncovered' => Uncovered)
    BY <2>1, <2>2, <2>3, <2>5, StaysCovered
  <2>7. QED BY <2>1, <2>6
<1>7. CASE EnslaveDone \/ EnslaveFails
  <2>1. /\ UNCHANGED <<mon, slaves, link, bondCarrier, gap, primary>> /\ op' = Idle /\ op.kind = "symlinks"
        /\ \/ UNCHANGED <<master, running>>
           \/ /\ running' = [running EXCEPT ![op.dev] = FALSE]
              /\ master'  = [master EXCEPT ![op.dev] = FALSE]
    BY <1>7 DEF EnslaveDone, EnslaveFails, monVars, bondVars, slaveVars, devVars
  <2>2. Listed' = Listed /\ ~BondEnds /\ op.kind # "enslave" /\ op'.kind # "enslave"
    BY <2>1 DEF Listed, BondEnds, Idle
  <2>3. \A s \in Dev : master'[s] => master[s] /\ running'[s] = running[s]
    BY <1>0, <2>1 DEF FieldTypes
  <2>4. \A s \in Listed' : s \in Listed /\ link'[s] = link[s]
                           /\ (master'[s] => master[s] /\ running'[s] = running[s])
    BY <1>0, <2>1, <2>2, <2>3
  <2>5. AttachedRun' /\ (Uncovered' => Uncovered)
    BY <2>1, <2>2, <2>4, StaysCovered
  <2>6. QED BY <2>1, <2>5
<1>8. CASE Open \/ Close \/ Spin
  <2>1. UNCHANGED <<mon, slaves, link, bondCarrier, gap, primary, master, running>> /\ op' \in {op, Spinning}
        /\ op.kind = "none"
    BY <1>8 DEF Open, Close, Spin, monVars, bondVars, slaveVars, devVars, WriterFree, RtnlFree, Idle
  <2>2. Listed' = Listed /\ ~BondEnds /\ op.kind # "enslave" /\ op'.kind # "enslave"
    BY <2>1 DEF Listed, BondEnds, Spinning
  <2>3. AttachedRun' /\ (Uncovered' => Uncovered)
    BY <2>1, <2>2, StaysCovered
  <2>4. QED BY <2>1, <2>3
<1>9. QED BY <1>2, <1>3, <1>4, <1>5, <1>6, <1>7, <1>8

(* The invariant under the MII monitor of 2.6.24 in terms of Uncovered,    *)
LEMMA Mii24Means == CarrierMii24 <=> gap = "none" /\ primary = NoSlave /\ AttachedRun /\ (mon = "idle" => ~Uncovered)
  BY DEF CarrierMii24, Uncovered

(* and what keeps it.                                                      *)
LEMMA Mii24Kept ==
  ASSUME gap' = "none", primary' = NoSlave, AttachedRun', mon' = "idle" => ~Uncovered'
  PROVE  CarrierMii24'
  BY DEF CarrierMii24, Uncovered

(* The inspection sets the carrier unless it asks for a commit.            *)
LEMMA Inspect24Carrier ==
  ASSUME PointersInv24, CarrierMii24, MiiInspect24
  PROVE  CarrierMii24'
<1>1. /\ UNCHANGED <<slaves, gap, primary, master, running, op>>
      /\ mon' = "waiting" \/ (mon' = "idle" /\ bondCarrier' = IF HasSlaves THEN CarrierOf(slaves, link') ELSE bondCarrier)
  BY DEF MiiInspect24, CarrierOf24, devVars
<1>2. AttachedRun' /\ Listed' = Listed
  BY <1>1 DEF CarrierMii24, AttachedRun, Listed
<1>3. mon' = "idle" => ~Uncovered'
  <2>1. CASE HasSlaves /\ mon' = "idle"
    <3>1. CarrierOf(slaves, link)' => bondCarrier'
      BY <1>1, <2>1
    <3>2. QED BY <3>1, CarrierCovers
  <2>2. CASE ~HasSlaves
    <3>1. Listed = {}
      BY <2>2 DEF HasSlaves, Listed, ToSet
    <3>2. QED BY <1>2, <3>1 DEF Uncovered, AttachedUp
  <2>3. QED BY <2>1, <2>2
<1>4. QED BY <1>1, <1>2, <1>3, Mii24Means, Mii24Kept

(* The commit fails over only if no slave is up or the best one is another *)
(* than the active one.                                                    *)
LEMMA Commit24Carrier ==
  ASSUME PointersInv24, CarrierMii24, MiiCommit24, Mode # "activebackup"
  PROVE  CarrierMii24'
<1> DEFINE lnk == [d \in Dev |-> IF d \in Listed THEN Link24(d) ELSE link[d]]
           dly == [d \in Dev |-> IF d \in Listed THEN Inspected(d).delay ELSE delay[d]]
           st  == [d \in Dev |-> IF d \in Listed THEN State24(d) ELSE state[d]]
<1>0. /\ FieldTypes /\ RolesListed /\ Listed \subseteq Dev /\ primary = NoSlave /\ AttachedRun
      /\ UNCHANGED <<slaves, primary, master, running>> /\ op' = Idle /\ gap = "none"
  BY ListedDevices DEF PointersInv24, PointersCore, CarrierMii24, MiiCommit24, devVars
<1>1. IF \E s \in Listed : Failover24(s)
        THEN SelectActive24(lnk, dly, st)
        ELSE link' = lnk /\ bondCarrier' = (IF HasSlaves THEN CarrierOf(slaves, lnk) ELSE bondCarrier) /\ gap' = gap
  BY DEF MiiCommit24, CarrierOf24, Listed
<1>2. lnk \in [Dev -> Link]
  BY Commit24Writes
<1>3. \A s \in Listed : lnk[s] = Link24(s)
  BY <1>0
<1> HIDE DEF lnk, dly, st
<1>4. Listed' = Listed /\ op'.kind # "enslave" /\ AttachedRun'
  BY <1>0 DEF Listed, Idle, AttachedRun
<1>5. CASE \E s \in Listed : Failover24(s)
  <2>1. PICK f \in Listed : Failover24(f)
    BY <1>5
  <2>2. /\ gap' = "none"
        /\ \/ CarrierOf(slaves, link)' => bondCarrier'
           \/ /\ link' = lnk /\ active' = active /\ bondCarrier' = bondCarrier
              /\ (\E s \in Listed : IsUp(s) /\ lnk[s] = "UP") => active # NoSlave /\ lnk[active] = "UP"
    <3>1. SelectActive24(lnk, dly, st) /\ slaves' = slaves
      BY <1>0, <1>1, <1>5
    <3>2. QED BY <1>0, <1>2, <3>1, SelectCovers
  <2>3. ASSUME link' = lnk, (\E s \in Listed : IsUp(s) /\ lnk[s] = "UP") => active # NoSlave /\ lnk[active] = "UP",
               NEW s \in Listed, link'[s] = "UP", master'[s]
        PROVE  FALSE
    <3>1. Link24(s) = "UP" /\ master[s]
      BY <1>0, <1>3, <2>3
    <3>2. carrier[s]
      BY <3>1 DEF Link24, Inspected, InspectedUp, InspectedDown, Keep, CountDown
    <3>3. running[s]
      BY <1>0, <3>1 DEF AttachedRun
    <3>4. active # NoSlave /\ lnk[active] = "UP"
      BY <2>3, <3>2, <3>3 DEF IsUp
    <3>5. f = active /\ Inspected(f).new = "DOWN"
      BY <1>0, <2>1, <3>4, NoSlaveAssumption DEF Failover24, Unattended24
    <3>6. Link24(f) = "DOWN"
      BY <3>5 DEF Link24
    <3>7. QED BY <1>3, <3>4, <3>5, <3>6
  <2>4. ~Uncovered'
    <3>1. CASE CarrierOf(slaves, link)' => bondCarrier'
      BY <3>1, CarrierCovers
    <3>2. CASE link' = lnk /\ ((\E s \in Listed : IsUp(s) /\ lnk[s] = "UP") => active # NoSlave /\ lnk[active] = "UP")
      <4>1. \A s \in Listed : ~(link'[s] = "UP" /\ master'[s])
        BY <2>3, <3>2
      <4>2. ~AttachedUp'
        BY <1>4, <4>1 DEF AttachedUp
      <4>3. QED BY <4>2 DEF Uncovered
    <3>3. QED BY <2>2, <3>1, <3>2
  <2>5. QED BY <1>0, <1>4, <2>2, <2>4, Mii24Kept
<1>6. CASE ~\E s \in Listed : Failover24(s)
  <2>1. link' = lnk /\ bondCarrier' = (IF HasSlaves THEN CarrierOf(slaves, lnk) ELSE bondCarrier) /\ gap' = "none"
    BY <1>0, <1>1, <1>6
  <2>2. CASE HasSlaves
    <3>1. CarrierOf(slaves, link)' => bondCarrier'
      BY <1>0, <2>1, <2>2
    <3>2. ~Uncovered'
      BY <3>1, CarrierCovers
    <3>3. QED BY <1>0, <1>4, <2>1, <3>2, Mii24Kept
  <2>3. CASE ~HasSlaves
    <3>1. Listed = {}
      BY <2>3 DEF HasSlaves, Listed, ToSet
    <3>2. ~Uncovered'
      BY <1>4, <3>1 DEF Uncovered, AttachedUp
    <3>3. QED BY <1>0, <1>4, <2>1, <3>2, Mii24Kept
  <2>4. QED BY <2>2, <2>3
<1>7. QED BY <1>5, <1>6

(* Every step under the MII monitor of 2.6.24.                             *)
LEMMA CarrierNext24 ==
  ASSUME PointersInv24, CarrierMii24, ~HoolockIoctls, Mode # "activebackup", Downable = {}, MiiNext24 \/ UNCHANGED vars
  PROVE  CarrierMii24'
<1>0. AttachedRun /\ gap = "none" /\ primary = NoSlave /\ (mon = "idle" => ~Uncovered)
  BY Mii24Means
<1>1. CASE \/ EnslaveSetup24 \/ EnslaveDone24 \/ EnslaveFails24 \/ ReleaseReselect24 \/ ReleaseFinish24
           \/ FreeAllNext24 \/ FreeAllBegin24 \/ Open24 \/ Close24 \/ Spin24
           \/ \E d \in Dev : EnslaveOpen24(d) \/ ReleaseDetach24(d) \/ ReleaseStray24(d)
  <2>1. /\ AttachedRun' /\ (Uncovered' => Uncovered) /\ gap' = "none" /\ mon' = mon
        /\ primary = NoSlave => primary' = NoSlave
    <3>1. CASE EnslaveSetup24
      BY <1>0, <3>1, EnslaveSetup24Covers
    <3>2. CASE \/ EnslaveDone \/ EnslaveFails \/ ReleaseReselect24 \/ ReleaseFinish \/ FreeAllNext
               \/ FreeAllBegin \/ Open \/ Close \/ Spin
               \/ \E d \in Dev : EnslaveOpen24(d) \/ ReleaseDetach24(d) \/ ReleaseStray24(d)
      <4>1. PointersCore /\ (op.kind \in Removing => op.dev \notin Listed)
        BY DEF PointersInv24, HandlersInv24
      <4>2. QED BY <1>0, <3>2, <4>1, HandlerCovers
    <3>3. QED BY <1>1, <3>1, <3>2
              DEF EnslaveDone24, EnslaveFails24, ReleaseFinish24, FreeAllNext24, FreeAllBegin24, Open24, Close24, Spin24
  <2>2. QED BY <1>0, <2>1, Mii24Kept
<1>2. CASE MiiInspect24
  BY <1>2, Inspect24Carrier
<1>3. CASE MiiCommit24
  BY <1>3, Commit24Carrier
<1>4. CASE MiiCommitBegin24
  <2>1. UNCHANGED <<slaves, link, master, running, gap, primary>> /\ mon' = "committing" /\ op' = Committing
    BY <1>4 DEF MiiCommitBegin24, MiiCommitBegin, devVars, slaveVars, bondVars
  <2>2. AttachedRun'
    BY <1>0, <2>1 DEF AttachedRun, Listed, Committing
  <2>3. QED BY <1>0, <2>1, <2>2, Mii24Kept
<1>5. CASE MiiQuit24 \/ XmitHoolock24 \/ Stopped \/ UNCHANGED vars \/ \E d \in Dev : CarrierChange(d)
  <2>1. UNCHANGED <<slaves, link, master, running, gap, primary, mon, op, bondCarrier>>
    BY <1>5 DEF MiiQuit24, MiiQuit, XmitHoolock24, XmitHoolock, Stopped, CarrierChange, vars, devVars, slaveVars,
                bondVars, monVars
  <2>2. QED BY <1>0, <2>1, Mii24Means DEF CarrierMii24, AttachedRun, AttachedUp, BondEnds, Listed
<1>6. CASE \/ IoctlHoolockTest24 \/ IoctlMake24 \/ IoctlBreak24 \/ IoctlGetActive24
           \/ \E d \in Dev : (d \in Downable /\ SlaveUpDown(d)) \/ IoctlChangeActive24(d)
  BY <1>6 DEF IoctlHoolockTest24, IoctlMake24, IoctlBreak24, IoctlBreak, IoctlGetActive24, IoctlGetActive,
              IoctlChangeActive24, UsesPrimary24
<1>7. QED BY <1>1, <1>2, <1>3, <1>4, <1>5, <1>6 DEF MiiNext24, HandlerStep24, MonitorStep24, AdminBond24, AdminStep24

(* A selection sets the carrier when it finds another slave.               *)
LEMMA SelectKeepsOn ==
  ASSUME FieldTypes, RolesListed, NEW lnk \in [Dev -> Link], NEW dly, NEW st, SelectActive24(lnk, dly, st),
         slaves' = slaves, active # NoSlave => bondCarrier
  PROVE  active' # NoSlave => bondCarrier'
<1> DEFINE best == BestSlave(slaves, primary, lnk, dly)
<1>0. /\ slaves \in Seq(Dev) /\ Listed \subseteq Dev
      /\ active \in ToSet(slaves) \cup {NoSlave} /\ primary \in ToSet(slaves) \cup {NoSlave}
  BY ListedDevices DEF RolesListed, Listed, FieldTypes
<1>1. /\ ChangeActive(best, lnk, dly, st, "none")
      /\ bondCarrier' = IF best # active THEN CarrierOf(slaves, link') ELSE bondCarrier
  BY DEF SelectActive24, ChangeActive24, CarrierOf24, BestSlave24
<1>2. best # NoSlave => best \in Listed /\ lnk[best] \in {"UP", "BACK"}
  BY <1>0, BestSlaveReady DEF Listed
<1> HIDE DEF best
<1>3. active' = best
  BY <1>1 DEF ChangeActive
<1>4. CASE best = active
  BY <1>1, <1>3, <1>4
<1>5. CASE best # active /\ best # NoSlave
  <2>1. best \in Listed /\ best \in Dev /\ link'[best] = "UP"
    <3>1. best \in Listed /\ best \in Dev
      BY <1>0, <1>2, <1>5
    <3>2. QED BY <1>1, <1>2, <1>5, <3>1 DEF ChangeActive
  <2>2. CarrierOf(slaves, link')
    BY <2>1 DEF CarrierOf, Listed
  <2>3. QED BY <1>1, <1>5, <2>2
<1>6. QED BY <1>3, <1>4, <1>5

(* A new slave is up at once without an updelay.                           *)
LEMMA SetupKeepsOn ==
  ASSUME NEW d \in Listed', d \in Dev, NEW lnk \in [Dev -> Link], NEW dly, NEW st, lnk[d] = "UP",
         NEW new, ChangeActive(new, lnk, dly, st, "carrier") \/ ChangeActive(new, lnk, dly, st, "none") \/ link' = lnk
  PROVE  CarrierOf(slaves, link)'
<1>1. link'[d] = "UP"
  BY DEF ChangeActive
<1>2. QED BY <1>1 DEF CarrierOf, Listed

(* The other handlers take the carrier only with the last slave.           *)
LEMMA HandlerKeepsOn ==
  ASSUME PointersCore, active # NoSlave => bondCarrier,
         \/ EnslaveDone \/ EnslaveFails \/ ReleaseReselect24 \/ ReleaseFinish \/ FreeAllNext
         \/ FreeAllBegin \/ Open \/ Close \/ Spin
         \/ \E d \in Dev : EnslaveOpen24(d) \/ ReleaseDetach24(d) \/ ReleaseStray24(d)
  PROVE  active' # NoSlave => bondCarrier'
<1>0. /\ FieldTypes /\ RolesListed /\ ListedOnce /\ slaves \in Seq(Dev) /\ link \in [Dev -> Link]
      /\ ToSet(<<>>) = {}
  BY DEF PointersCore, FieldTypes, ToSet
<1>1. CASE ReleaseReselect24
  <2>1. slaves' = slaves
    BY <1>1 DEF ReleaseReselect24
  <2>2. CASE HasSlaves
    <3>1. SelectActive24(link, delay, state)
      BY <1>1, <2>2 DEF ReleaseReselect24
    <3>2. QED BY <1>0, <2>1, <3>1, SelectKeepsOn
  <2>3. CASE ~HasSlaves
    <3>1. active' = active
      BY <1>1, <2>3 DEF ReleaseReselect24
    <3>2. active = NoSlave
      BY <1>0, <2>3 DEF RolesListed, Listed, HasSlaves
    <3>3. QED BY <3>1, <3>2
  <2>4. QED BY <2>2, <2>3
<1>2. ASSUME NEW d \in Dev, ReleaseDetach24(d) \/ ReleaseStray24(d)
      PROVE  active' # NoSlave => bondCarrier'
  <2>1. PICK s \in Listed : /\ slaves' = Detach(slaves, s)
                            /\ active' = IF active = s THEN NoSlave ELSE active
                            /\ bondCarrier' = IF active # s /\ slaves' = <<>> THEN FALSE ELSE bondCarrier
    <3>1. CASE ReleaseDetach24(d)
      BY <3>1 DEF ReleaseDetach24, ReleaseDetach, ActiveWithout, ChangeActive, Listed
    <3>2. CASE ReleaseStray24(d)
      <4>1. SlaveByDev(slaves, d) \in Listed
        <5>1. slaves # <<>>
          BY <3>2 DEF ReleaseStray24, SlaveByDev24, SlaveByDev
        <5>2. QED BY <1>0, <5>1, SlaveByDevMember DEF Listed
      <4>2. QED BY <3>2, <4>1 DEF ReleaseStray24, SlaveByDev24, Detach24, ChangeActive24, ChangeActive
    <3>3. QED BY <1>2, <3>1, <3>2
  <2>2. ToSet(Detach(slaves, s)) = ToSet(slaves) \ {s}
    BY <1>0, DetachMembers DEF Listed, ListedOnce
  <2>3. active # NoSlave /\ active # s => slaves' # <<>>
    <3>1. ASSUME active # NoSlave, active # s PROVE active \in ToSet(slaves')
      BY <1>0, <2>1, <2>2, <3>1 DEF RolesListed, Listed
    <3>2. QED BY <1>0, <3>1
  <2>4. QED BY <2>1, <2>3
<1>3. CASE FreeAllBegin
  <2>1. CASE HasSlaves
    BY <1>3, <2>1 DEF FreeAllBegin, ChangeActive
  <2>2. CASE ~HasSlaves
    <3>1. active' = active
      BY <1>3, <2>2 DEF FreeAllBegin
    <3>2. active = NoSlave
      BY <1>0, <2>2 DEF RolesListed, Listed, HasSlaves
    <3>3. QED BY <3>1, <3>2
  <2>3. QED BY <2>1, <2>2
<1>4. CASE \/ EnslaveDone \/ EnslaveFails \/ ReleaseFinish \/ FreeAllNext \/ Open \/ Close \/ Spin
           \/ \E d \in Dev : EnslaveOpen24(d)
  <2>1. UNCHANGED <<active, bondCarrier>>
    BY <1>4 DEF EnslaveDone, EnslaveFails, ReleaseFinish, FreeAllNext, Open, Close, Spin, EnslaveOpen24, bondVars
  <2>2. QED BY <2>1
<1>5. QED BY <1>1, <1>2, <1>3, <1>4

(* The invariant under the ARP monitors in terms of Uncovered,             *)
LEMMA LbMeans ==
  CarrierLb <=> /\ gap = "none" /\ AttachedRun /\ (kernel = "2.6.27" => ListedAttached)
                /\ (mon = "rtnl" \/ ~Uncovered)
                /\ (active # NoSlave => bondCarrier)
  BY DEF CarrierLb, Uncovered

(* and what keeps it.                                                      *)
LEMMA LbKept ==
  ASSUME gap' = "none", AttachedRun', kernel' = "2.6.27" => ListedAttached', mon' = "rtnl" \/ ~Uncovered',
         active' # NoSlave => bondCarrier'
  PROVE  CarrierLb'
  BY DEF CarrierLb, Uncovered

(* The handlers of 2.6.24.                                                 *)
LEMMA Handler24Lb ==
  ASSUME PointersInv24, CarrierLb, kernel' # "2.6.27", \A d \in Dev : carrier[d], UpDelay = 0,
         Mode # "activebackup", ArpHandler24
  PROVE  CarrierLb'
<1>0. /\ gap = "none" /\ AttachedRun /\ (mon = "rtnl" \/ ~Uncovered) /\ (active # NoSlave => bondCarrier)
      /\ PointersCore /\ (op.kind \in Removing => op.dev \notin Listed)
  BY LbMeans DEF PointersInv24, HandlersInv24
<1>1. CASE EnslaveSetup24
  <2> DEFINE d     == op.dev
             lnk   == [link EXCEPT ![d] = InitialLink(d)]
             dly   == [delay EXCEPT ![d] = IF carrier[d] THEN UpDelay ELSE 0]
             st    == [state EXCEPT ![d] = NewSlaveState]
             first == IF active = NoSlave THEN d ELSE active
  <2>1. AttachedRun' /\ ~Uncovered' /\ gap' = "none"
    BY <1>0, <1>1, EnslaveSetup24Covers
  <2>2. /\ d \in Dev /\ d \notin Listed /\ slaves \in Seq(Dev) /\ Once(slaves) /\ link \in [Dev -> Link]
    BY <1>1, OpFacts DEF PointersInv24, PointersCore, HandlersInv24, FieldTypes, ListedOnce, EnslaveSetup24, Adding
  <2>3. lnk \in [Dev -> Link] /\ lnk[d] = "UP"
    <3>1. InitialLink(d) = "UP" /\ "UP" \in Link
      BY <2>2 DEF InitialLink, Link
    <3>2. QED BY <2>2, <3>1
  <2>4. /\ slaves' = Attach(slaves, d) /\ bondCarrier' = CarrierOf(slaves', link')
        /\ ChangeActive(first, lnk, dly, st, "none") \/ link' = lnk
    BY <1>1 DEF EnslaveSetup24, Attach24, CarrierOf24, ChangeActive24
  <2> HIDE DEF lnk, dly, st, first
  <2>5. d \in Listed'
    BY <2>2, <2>4, AttachMembers DEF Listed
  <2>6. CarrierOf(slaves, link)'
    BY <2>2, <2>3, <2>4, <2>5, SetupKeepsOn
  <2>7. bondCarrier'
    BY <2>4, <2>6
  <2>8. QED BY <2>1, <2>7, LbKept
<1>2. CASE \/ EnslaveDone \/ EnslaveFails \/ ReleaseReselect24 \/ ReleaseFinish \/ FreeAllNext
           \/ FreeAllBegin \/ Open \/ Close \/ Spin
           \/ \E d \in Dev : EnslaveOpen24(d) \/ ReleaseDetach24(d) \/ ReleaseStray24(d)
  <2>1. AttachedRun' /\ (Uncovered' => Uncovered) /\ gap' = "none" /\ mon' = mon
    BY <1>0, <1>2, HandlerCovers
  <2>2. active' # NoSlave => bondCarrier'
    BY <1>0, <1>2, HandlerKeepsOn
  <2>3. QED BY <1>0, <2>1, <2>2, LbKept
<1>3. ASSUME NEW d \in Dev, IoctlChangeActive24(d) PROVE FALSE
  BY <1>3 DEF IoctlChangeActive24, UsesPrimary24
<1>4. QED BY <1>1, <1>2, <1>3
          DEF ArpHandler24, Writer24, Reader24, FreeAllBegin24, FreeAllNext24, Close24, EnslaveDone24, EnslaveFails24,
              ReleaseFinish24, Open24

(* A selection by the monitor.                                             *)
LEMMA LbSelectCarrier ==
  ASSUME FieldTypes, RolesListed, AttachedRun, \A d \in Dev : carrier[d], Mode # "activebackup",
         active # NoSlave => bondCarrier,
         NEW lnk \in [Dev -> Link], NEW dly, NEW st, SelectActive24(lnk, dly, st),
         UNCHANGED <<slaves, master, running>>
  PROVE  gap' = "none" /\ ~Uncovered' /\ (active' # NoSlave => bondCarrier')
<1>1. /\ gap' = "none"
      /\ \/ CarrierOf(slaves, link)' => bondCarrier'
         \/ /\ link' = lnk /\ active' = active /\ bondCarrier' = bondCarrier
            /\ (\E s \in Listed : IsUp(s) /\ lnk[s] = "UP") => active # NoSlave /\ lnk[active] = "UP"
  BY SelectCovers
<1>2. active' # NoSlave => bondCarrier'
  BY SelectKeepsOn
<1>3. CASE CarrierOf(slaves, link)' => bondCarrier'
  BY <1>1, <1>2, <1>3, CarrierCovers
<1>4. CASE /\ link' = lnk /\ bondCarrier' = bondCarrier
           /\ (\E s \in Listed : IsUp(s) /\ lnk[s] = "UP") => active # NoSlave /\ lnk[active] = "UP"
  <2>1. ASSUME NEW s \in Listed', link'[s] = "UP", master'[s] PROVE bondCarrier'
    <3>1. s \in Listed /\ s \in Dev /\ lnk[s] = "UP" /\ master[s]
      BY <1>4, <2>1, ListedDevices DEF Listed
    <3>2. IsUp(s)
      BY <3>1 DEF IsUp, AttachedRun
    <3>3. QED BY <1>4, <3>1, <3>2
  <2>2. ~Uncovered'
    BY <2>1 DEF Uncovered, AttachedUp
  <2>3. QED BY <1>1, <1>2, <2>2
<1>5. QED BY <1>1, <1>3, <1>4

(* A pass without a failover: a slave that comes up joins an active one.   *)
LEMMA LbNoFailover ==
  ASSUME FieldTypes, ~LbFailover, seen # NoSlave => active # NoSlave, ~Uncovered, active # NoSlave => bondCarrier,
         \A d \in Listed : link'[d] = IF Recovered(d) THEN "UP" ELSE IF Silent(d) THEN "DOWN" ELSE link[d],
         UNCHANGED <<slaves, master, op, bondCarrier>>
  PROVE  ~Uncovered'
<1> SUFFICES ASSUME Uncovered' PROVE FALSE
  OBVIOUS
<1>1. /\ \E s \in Listed : link'[s] = "UP" /\ master[s]
      /\ ~bondCarrier /\ ~BondEnds /\ op.kind # "enslave"
  BY DEF Uncovered, AttachedUp, BondEnds, Listed
<1>2. PICK s \in Listed : link'[s] = "UP" /\ master[s]
  BY <1>1
<1>3. link[s] # "UP"
  BY <1>1, <1>2 DEF Uncovered, AttachedUp
<1>4. Recovered(s)
  BY <1>2, <1>3
<1>5. seen # NoSlave
  BY <1>4 DEF LbFailover, Listed
<1>6. QED BY <1>1, <1>5

(* Every step under the ARP monitor of 2.6.24.                             *)
LEMMA LbNext24 ==
  ASSUME PointersInv24, ArpInv, CarrierLb, RoleLb, monitor = "arp", kernel = "2.6.24", kernel' # "2.6.27",
         UpDelay = 0, Mode # "activebackup", ArpNext24
  PROVE  CarrierLb'
<1>0. /\ FieldTypes /\ RolesListed /\ HandlersInv24 /\ link \in [Dev -> Link]
      /\ \A d \in Dev : carrier[d]
      /\ mon = "searching" => seen = active
      /\ gap = "none" /\ AttachedRun /\ (mon = "rtnl" \/ ~Uncovered) /\ (active # NoSlave => bondCarrier)
  BY LbMeans DEF PointersInv24, PointersCore, FieldTypes, ArpInv, RoleLb
<1>1. CASE ArpHandler24
  BY <1>0, <1>1, Handler24Lb
<1>2. CASE LbJudge24
  <2>1. /\ UNCHANGED <<slaves, master, running, op, bondCarrier, active, gap>> /\ mon = "searching"
        /\ \A d \in Dev : link'[d] = IF d \in Listed /\ Recovered(d) THEN "UP"
                                     ELSE IF d \in Listed /\ Silent(d) THEN "DOWN" ELSE link[d]
        /\ LbFailover => mon' = "rtnl"
    BY <1>2 DEF LbJudge24, devVars, bondVars, Listed
  <2>2. AttachedRun'
    BY <1>0, <2>1 DEF AttachedRun, Listed
  <2>3. ~LbFailover => ~Uncovered'
    <3>1. Listed \subseteq Dev
      BY <1>0, ListedDevices
    <3>2. \A d \in Listed : link'[d] = IF Recovered(d) THEN "UP" ELSE IF Silent(d) THEN "DOWN" ELSE link[d]
      BY <2>1, <3>1
    <3>3. QED BY <1>0, <2>1, <3>2, LbNoFailover
  <2>4. QED BY <1>0, <2>1, <2>2, <2>3, LbKept
<1>3. CASE LbSelect24
  <2>1. SelectActive24(link, delay, state) /\ UNCHANGED <<slaves, master, running, op>>
    BY <1>3 DEF LbSelect24, devVars
  <2>2. AttachedRun'
    BY <1>0, <2>1 DEF AttachedRun, Listed
  <2>3. gap' = "none" /\ ~Uncovered' /\ (active' # NoSlave => bondCarrier')
    BY <1>0, <2>1, LbSelectCarrier
  <2>4. QED BY <2>2, <2>3, LbKept
<1>4. CASE Deadly24
  <2>1. UNCHANGED <<slaves, master, running, bondCarrier, active, gap>> /\ op' = Spinning
    BY <1>4 DEF Deadly24, devVars, bondVars
  <2>2. AttachedRun' /\ ~Uncovered'
    BY <1>0, <2>1 DEF AttachedRun, Listed, Spinning, Uncovered, BondEnds
  <2>3. QED BY <1>0, <2>1, <2>2, LbKept
<1>5. CASE ArpNext24 /\ ~ArpHandler24 /\ ~LbJudge24 /\ ~LbSelect24 /\ ~Deadly24
  <2>1. /\ UNCHANGED <<slaves, link, master, running, op, bondCarrier, active, gap>>
        /\ mon = "rtnl" => mon' = "rtnl"
    BY <1>5 DEF ArpNext24, ArpMonitorStep24, ArpQuit24, LbBegin24, ArpQuit, LbBegin, Locked24, Tick, ProbeAnswered,
       ProbeHeard, Stopped, Runnable, vars, devVars, slaveVars, bondVars, monVars, avars
  <2>2. AttachedRun' /\ (Uncovered' <=> Uncovered)
    BY <1>0, <2>1 DEF AttachedRun, Listed, Uncovered, AttachedUp, BondEnds
  <2>3. QED BY <1>0, <2>1, <2>2, LbKept
<1>6. QED BY <1>1, <1>2, <1>3, <1>4, <1>5

(* Where no change is notified the selections of the ports are the same.   *)
LEMMA SelectIs24 ==
  ASSUME NEW lnk, NEW dly, NEW st, Mode # "activebackup", SelectActive(lnk, dly, st)
  PROVE  SelectActive24(lnk, dly, st)
<1>1. gap' = "none"
  BY DEF SelectActive, ChangeActive
<1>2. QED BY <1>1 DEF SelectActive, SelectActive24, ChangeActive, ChangeActive24, CarrierOf24, BestSlave24

(* A slave that leaves the list of 2.6.27 takes its master with it.        *)
LEMMA AttachedKept ==
  ASSUME ListedAttached, \A s \in Listed' : s \in Listed /\ master'[s] = master[s]
  PROVE  ListedAttached'
  BY DEF ListedAttached

(* bond_enslave of 2.6.27 under the ARP monitor.                           *)
LEMMA EnslaveAttachLb ==
  ASSUME PointersInv, CarrierLb, kernel' = "2.6.27", kernel = "2.6.27", NEW d \in Dev, EnslaveAttach(d)
  PROVE  CarrierLb'
<1>0. /\ FieldTypes /\ ListedOnce /\ d \notin Listed /\ gap = "none"
      /\ AttachedRun /\ ListedAttached /\ (active # NoSlave => bondCarrier)
  BY LbMeans DEF PointersInv, PointersCore, EnslaveAttach, Listed
<1>1. Listed' = Listed \cup {d} /\ Listed \subseteq Dev
  BY <1>0, AttachMembers, ListedDevices DEF EnslaveAttach, Listed, FieldTypes, ListedOnce
<1>2. op' = [kind |-> "enslave", dev |-> d]
  BY DEF EnslaveAttach, Doing
<1>3. /\ UNCHANGED <<active, bondCarrier, gap>>
      /\ master'[d] /\ running'[d]
      /\ \A s \in Dev : s # d => master'[s] = master[s] /\ running'[s] = running[s]
  BY <1>0 DEF EnslaveAttach, FieldTypes
<1>4. AttachedRun' /\ ListedAttached'
  BY <1>0, <1>1, <1>2, <1>3 DEF AttachedRun, ListedAttached
<1>5. ~Uncovered'
  BY <1>2 DEF Uncovered
<1>6. QED BY <1>0, <1>3, <1>4, <1>5, LbKept

(* It sets the carrier when it has given the slave its link.               *)
LEMMA EnslaveSetupLb ==
  ASSUME PointersInv, CarrierLb, kernel = "2.6.27", \A d \in Dev : carrier[d], UpDelay = 0,
         Mode # "activebackup", EnslaveSetup
  PROVE  CarrierLb'
<1> DEFINE d     == op.dev
           lnk   == [link EXCEPT ![d] = InitialLink(d)]
           dly   == [delay EXCEPT ![d] = IF carrier[d] /\ UpDelay > 0 THEN UpDelay ELSE @]
           st    == [state EXCEPT ![d] = NewSlaveState]
           first == IF active = NoSlave THEN d ELSE active
<1>0. /\ d \in Dev /\ d \in Listed /\ link \in [Dev -> Link]
      /\ AttachedRun /\ ListedAttached
  BY OpFacts, LbMeans DEF PointersInv, PointersCore, EnslaveSetup, HandlersInv, Adding, FieldTypes
<1>1. lnk \in [Dev -> Link] /\ lnk[d] = "UP"
  <2>1. InitialLink(d) = "UP" /\ "UP" \in Link
    BY <1>0 DEF InitialLink, Link
  <2>2. QED BY <1>0, <2>1
<1>2. /\ ChangeActive(first, lnk, dly, st, "carrier") \/ (link' = lnk /\ gap' = "none")
      /\ bondCarrier' = IF gap' = "none" THEN CarrierOf(slaves, link') ELSE bondCarrier
      /\ UNCHANGED <<slaves, master, running>> /\ op' = [kind |-> "symlinks", dev |-> d]
  BY DEF EnslaveSetup, devVars, Doing
<1> HIDE DEF lnk, dly, st, first
<1>3. gap' = "none" /\ (ChangeActive(first, lnk, dly, st, "carrier") \/ link' = lnk)
  BY <1>2 DEF ChangeActive
<1>4. Listed' = Listed
  BY <1>2 DEF Listed
<1>5. d \in Listed'
  BY <1>0, <1>4
<1>6. CarrierOf(slaves, link)'
  BY <1>0, <1>1, <1>3, <1>5, SetupKeepsOn
<1>7. bondCarrier'
  BY <1>2, <1>3, <1>6
<1>8. ~Uncovered'
  BY <1>7 DEF Uncovered
<1>9. AttachedRun' /\ ListedAttached'
  BY <1>0, <1>2, <1>4 DEF AttachedRun, ListedAttached
<1>10. QED BY <1>3, <1>7, <1>8, <1>9, LbKept

(* The list of 2.6.27 when the other handlers run.                         *)
LEMMA HandlerAttached ==
  ASSUME PointersInv, ListedAttached,
         \/ EnslaveDone \/ ReleaseReselect \/ ReleaseFinish \/ FreeAllNext \/ FreeAllBegin \/ Open \/ Close
         \/ \E d \in Dev : ReleaseDetach(d) \/ IoctlChangeActive(d)
  PROVE  ListedAttached'
<1>0. /\ FieldTypes /\ ListedOnce /\ HandlersInv /\ slaves \in Seq(Dev) /\ Listed \subseteq Dev
  BY ListedDevices DEF PointersInv, PointersCore, FieldTypes
<1>1. CASE ReleaseFinish \/ FreeAllNext
  <2>1. /\ op.dev \notin Listed /\ Discard(op.dev)
        /\ slaves' = slaves \/ (slaves' = Tail(slaves) /\ slaves # <<>>)
    BY <1>0, <1>1 DEF ReleaseFinish, FreeAllNext, HandlersInv, Removing, bondVars, HasSlaves
  <2>2. Listed' \subseteq Listed
    BY <1>0, <2>1, TailMembers DEF Listed, ListedOnce
  <2>3. \A s \in Dev : s # op.dev => master'[s] = master[s]
    BY <1>0, <2>1 DEF Discard, FieldTypes
  <2>4. QED BY <1>0, <2>1, <2>2, <2>3, AttachedKept
<1>2. ASSUME NEW d \in Dev, ReleaseDetach(d) PROVE ListedAttached'
  <2>1. slaves' = Detach(slaves, d) /\ master' = master /\ WriterFree /\ master[d]
    BY <1>2 DEF ReleaseDetach, devVars
  <2>2. op.kind = "none"
    BY <2>1, FreeIsQuiet DEF WriterFree
  <2>3. d \in Listed
    BY <1>0, <2>1, <2>2 DEF PointersInv, HandlersInv, Removing
  <2>4. Listed' \subseteq Listed
    BY <1>0, <2>1, <2>3, DetachMembers DEF Listed, ListedOnce
  <2>5. QED BY <2>1, <2>4, AttachedKept
<1>3. CASE FreeAllBegin
  <2>1. master' = master /\ (slaves' = slaves \/ (slaves' = Tail(slaves) /\ slaves # <<>>))
    BY <1>3 DEF FreeAllBegin, HasSlaves, devVars
  <2>2. Listed' \subseteq Listed
    BY <1>0, <2>1, TailMembers DEF Listed, ListedOnce
  <2>3. QED BY <2>1, <2>2, AttachedKept
<1>4. CASE EnslaveDone \/ ReleaseReselect \/ Open \/ Close \/ \E d \in Dev : IoctlChangeActive(d)
  <2>1. UNCHANGED <<slaves, master>>
    BY <1>4 DEF EnslaveDone, ReleaseReselect, Open, Close, IoctlChangeActive, devVars, bondVars
  <2>2. QED BY <2>1, AttachedKept DEF Listed
<1>5. QED BY <1>1, <1>2, <1>3, <1>4

(* The handlers of 2.6.27 under the ARP monitor.                           *)
LEMMA HandlerLb ==
  ASSUME PointersInv, CarrierLb, kernel = "2.6.27", kernel' = "2.6.27", \A d \in Dev : carrier[d], UpDelay = 0,
         Mode # "activebackup", Downable = {}, ArpHandler
  PROVE  CarrierLb'
<1>0. /\ gap = "none" /\ AttachedRun /\ (mon = "rtnl" \/ ~Uncovered) /\ (active # NoSlave => bondCarrier)
      /\ PointersCore /\ HandlersInv /\ (op.kind \in Removing => op.dev \notin Listed) /\ ListedAttached
  BY LbMeans DEF PointersInv, HandlersInv
<1>1. CASE EnslaveSetup
  BY <1>1, EnslaveSetupLb
<1>2. ASSUME NEW d \in Dev, EnslaveAttach(d) PROVE CarrierLb'
  BY <1>2, EnslaveAttachLb
<1>3. CASE \/ EnslaveDone \/ ReleaseReselect \/ ReleaseFinish \/ FreeAllNext \/ FreeAllBegin \/ Open \/ Close
           \/ \E d \in Dev : ReleaseDetach(d)
  <2>1. \/ EnslaveDone \/ ReleaseReselect24 \/ ReleaseFinish \/ FreeAllNext \/ FreeAllBegin \/ Open \/ Close
        \/ \E d \in Dev : ReleaseDetach24(d)
    <3>1. ReleaseReselect => ReleaseReselect24
      BY <1>0, SelectIs24 DEF ReleaseReselect, ReleaseReselect24
    <3>2. ASSUME NEW d \in Dev, ReleaseDetach(d) PROVE ReleaseDetach24(d)
      <4>1. op.kind = "none" /\ master[d]
        BY <3>2, FreeIsQuiet DEF ReleaseDetach, WriterFree
      <4>2. d \in Listed
        BY <1>0, <4>1 DEF PointersInv, HandlersInv, Removing
      <4>3. QED BY <3>2, <4>2 DEF ReleaseDetach24, Listed
    <3>3. QED BY <1>3, <3>1, <3>2
  <2>2. AttachedRun' /\ (Uncovered' => Uncovered) /\ gap' = "none" /\ mon' = mon
    BY <1>0, <2>1, HandlerCovers
  <2>3. active' # NoSlave => bondCarrier'
    BY <1>0, <2>1, HandlerKeepsOn
  <2>4. ListedAttached'
    BY <1>0, <1>3, HandlerAttached
  <2>5. QED BY <1>0, <2>2, <2>3, <2>4, LbKept
<1>4. ASSUME NEW d \in Dev, IoctlChangeActive(d) PROVE CarrierLb'
  <2>1. /\ UNCHANGED <<slaves, master, running, bondCarrier, op>> /\ active # NoSlave
        /\ gap' = "none" /\ link' = link
    BY <1>4 DEF IoctlChangeActive, ChangeActive, devVars
  <2>2. Listed' = Listed
    BY <2>1 DEF Listed
  <2>3. bondCarrier'
    BY <1>0, <2>1
  <2>4. AttachedRun' /\ ListedAttached'
    BY <1>0, <2>1, <2>2 DEF AttachedRun, ListedAttached
  <2>5. ~Uncovered'
    BY <2>3 DEF Uncovered
  <2>6. QED BY <2>1, <2>3, <2>4, <2>5, LbKept
<1>5. CASE AfterNotify
  BY <1>0, <1>5 DEF AfterNotify
<1>6. QED BY <1>1, <1>2, <1>3, <1>4, <1>5 DEF ArpHandler, Writer, Reader

(* Every step under the ARP monitor of 2.6.27 in those modes.              *)
LEMMA LbNext ==
  ASSUME PointersInv, ArpInv, CarrierLb, RoleLb, kernel = "2.6.27", kernel' = "2.6.27", UpDelay = 0,
         Mode # "activebackup", Downable = {}, ArpNext
  PROVE  CarrierLb'
<1>0. /\ FieldTypes /\ RolesListed /\ HandlersInv /\ link \in [Dev -> Link] /\ monitor = "arp"
      /\ \A d \in Dev : carrier[d]
      /\ mon = "searching" /\ seen # NoSlave => active # NoSlave
      /\ gap = "none" /\ AttachedRun /\ ListedAttached /\ (mon = "rtnl" \/ ~Uncovered)
      /\ (active # NoSlave => bondCarrier)
  BY LbMeans DEF PointersInv, PointersCore, FieldTypes, ArpInv, ArpNext, RoleLb
<1>1. CASE ArpHandler
  BY <1>0, <1>1, HandlerLb
<1>2. CASE LbPass
  <2> DEFINE lnk == [d \in Dev |-> IF d \in ToSet(slaves) /\ Recovered(d) THEN "UP"
                                   ELSE IF d \in ToSet(slaves) /\ Silent(d) THEN "DOWN" ELSE link[d]]
             st  == [d \in Dev |-> IF d \in ToSet(slaves) /\ Recovered(d) THEN "ACTIVE"
                                   ELSE IF d \in ToSet(slaves) /\ Silent(d) THEN "BACKUP" ELSE state[d]]
  <2>1. /\ UNCHANGED <<slaves, master, running, op>> /\ mon = "searching"
        /\ \/ LbFailover /\ SelectActive(lnk, delay, st)
           \/ ~LbFailover /\ link' = lnk /\ UNCHANGED <<active, bondCarrier, gap>>
    BY <1>2 DEF LbPass, devVars
  <2>2. lnk \in [Dev -> Link] /\ Listed \subseteq Dev
    BY <1>0, ListedDevices DEF Link
  <2>3. \A d \in Listed : lnk[d] = IF Recovered(d) THEN "UP" ELSE IF Silent(d) THEN "DOWN" ELSE link[d]
    BY <2>2 DEF Listed
  <2> HIDE DEF lnk, st
  <2>4. AttachedRun' /\ ListedAttached'
    BY <1>0, <2>1 DEF AttachedRun, ListedAttached, Listed
  <2>5. CASE SelectActive(lnk, delay, st)
    <3>1. SelectActive24(lnk, delay, st)
      BY <2>5, SelectIs24
    <3>2. gap' = "none" /\ ~Uncovered' /\ (active' # NoSlave => bondCarrier')
      BY <1>0, <2>1, <2>2, <3>1, LbSelectCarrier
    <3>3. QED BY <2>4, <3>2, LbKept
  <2>6. CASE ~LbFailover /\ link' = lnk /\ UNCHANGED <<active, bondCarrier, gap>>
    <3>1. \A d \in Listed : link'[d] = IF Recovered(d) THEN "UP" ELSE IF Silent(d) THEN "DOWN" ELSE link[d]
      BY <2>3, <2>6
    <3>2. (seen # NoSlave => active # NoSlave) /\ ~Uncovered
      BY <1>0, <2>1
    <3>3. ~Uncovered'
      BY <1>0, <2>1, <2>6, <3>1, <3>2, LbNoFailover
    <3>4. QED BY <1>0, <2>4, <2>6, <3>3, LbKept
  <2>7. QED BY <2>1, <2>5, <2>6
<1>3. CASE ArpNext /\ ~ArpHandler /\ ~LbPass
  <2>1. /\ UNCHANGED <<slaves, link, master, running, op, bondCarrier, active, gap>>
        /\ mon = "rtnl" => mon' = "rtnl"
    BY <1>3 DEF ArpNext, ArpMonitorStep, ArpQuit, LbBegin, ArpInspect, ArpCommitSlave, ArpCommitPrimary,
       ArpCommitEnd, ArpProbe, ArpSearch, ArpCommitBegin, Tick, ProbeAnswered, ProbeHeard, Stopped, Runnable,
       vars, devVars, slaveVars, bondVars, monVars
  <2>2. AttachedRun' /\ ListedAttached' /\ (Uncovered' <=> Uncovered)
    BY <1>0, <2>1 DEF AttachedRun, ListedAttached, Listed, Uncovered, AttachedUp, BondEnds
  <2>3. QED BY <1>0, <2>1, <2>2, LbKept
<1>4. QED BY <1>1, <1>2, <1>3

(* bond_release of 2.6.27 selects while a pass is under way: the role that *)
(* a pass has given in between is not taken back.                          *)
LEMMA ReselectRole ==
  ASSUME PointersInv, CarrierLb, RoleLb, kernel = "2.6.27", \A d \in Dev : carrier[d], ReleaseReselect,
         mon = "searching", seen # NoSlave
  PROVE  active' # NoSlave
<1>0. /\ FieldTypes /\ RolesListed /\ ListedAttached /\ AttachedRun /\ op.kind = "reselect"
      /\ slaves \in Seq(Dev) /\ Listed \subseteq Dev
  BY ListedDevices, LbMeans DEF PointersInv, PointersCore, FieldTypes, ReleaseReselect
<1>1. active # NoSlave /\ link[active] = "UP"
  BY <1>0 DEF RoleLb
<1>2. active \in Listed /\ active \in Dev /\ IsUp(active)
  BY <1>0, <1>1 DEF RolesListed, IsUp, AttachedRun, ListedAttached
<1>3. HasSlaves
  BY <1>2 DEF HasSlaves, Listed, ToSet
<1>4. ChangeActive(BestSlave(slaves, primary, link, delay), link, delay, state, "carrier")
  BY <1>3 DEF ReleaseReselect, SelectActive
<1>5. active \in ToSet(slaves) \cup {NoSlave} /\ primary \in ToSet(slaves) \cup {NoSlave} /\ active \in ToSet(slaves)
  BY <1>0, <1>2 DEF RolesListed, Listed
<1>6. BestSlave(slaves, primary, link, delay) \in ToSet(slaves)
  BY <1>0, <1>1, <1>2, <1>5, BestSlaveFound
<1>7. active' \in Dev
  BY <1>0, <1>4, <1>6 DEF ChangeActive, Listed
<1>8. QED BY <1>7, NoSlaveAssumption

(* The handlers of 2.6.27.                                                 *)
LEMMA HandlerRole ==
  ASSUME PointersInv, CarrierLb, RoleLb, kernel = "2.6.27", kernel' = "2.6.27", \A d \in Dev : carrier[d],
         Mode # "activebackup", Downable = {}, ArpHandler
  PROVE  RoleLb'
<1> DEFINE Succeeded ==   \* what is left to show of a handler that leaves no release half-way
             mon = "searching" /\ seen # NoSlave => active' # NoSlave
<1>0. /\ FieldTypes /\ HandlersInv /\ gap = "none" /\ (op.kind \in Adding \cup Removing => op.dev \in Dev)
      /\ mon = "searching" /\ seen # NoSlave => active # NoSlave
      /\ op.kind = "reselect" /\ active # NoSlave /\ mon # "rtnl" => link[active] = "UP"
  BY OpFacts, LbMeans DEF PointersInv, PointersCore, RoleLb
<1>1. UNCHANGED <<mon, seen>>
  BY DEF ArpHandler, ArpFields, Writer, Reader, FreeAllBegin, FreeAllNext, Close, EnslaveAttach, ReleaseDetach,
         EnslaveSetup, EnslaveDone, ReleaseReselect, ReleaseFinish, AfterNotify, Open, SlaveUpDown,
         IoctlChangeActive, Discard, monVars
<1>2. ASSUME op'.kind # "reselect", Succeeded PROVE RoleLb'
  BY <1>1, <1>2 DEF RoleLb
<1>3. CASE ReleaseReselect
  <2>1. op' = [kind |-> "release", dev |-> op.dev]
    BY <1>3 DEF ReleaseReselect, Doing
  <2>2. op'.kind # "reselect"
    BY <2>1
  <2>3. QED BY <1>2, <1>3, <2>2, ReselectRole
<1>4. CASE EnslaveSetup
  <2>1. op' = [kind |-> "symlinks", dev |-> op.dev] /\ op.dev \in Dev
    BY <1>0, <1>4 DEF EnslaveSetup, Doing, Adding
  <2>2. active' = IF active = NoSlave THEN op.dev ELSE active
    BY <1>4 DEF EnslaveSetup, ChangeActive
  <2>3. op'.kind # "reselect" /\ active' # NoSlave
    BY <2>1, <2>2, NoSlaveAssumption
  <2>4. QED BY <1>2, <2>3
<1>5. CASE EnslaveDone \/ ReleaseFinish
  <2>1. active' = active /\ op'.kind = "none"
    BY <1>5 DEF EnslaveDone, ReleaseFinish, bondVars, Idle
  <2>2. QED BY <1>0, <1>2, <2>1
<1>6. CASE Open \/ Close
  <2>1. active' = active /\ op' = op /\ op.kind = "none"
    BY <1>6, FreeIsQuiet DEF Open, Close, bondVars, WriterFree
  <2>2. QED BY <1>0, <1>2, <2>1
<1>7. ASSUME NEW d \in Dev, IoctlChangeActive(d) PROVE RoleLb'
  <2>1. active' = d /\ op' = op /\ op.kind = "none"
    BY <1>7, FreeIsQuiet DEF IoctlChangeActive, ChangeActive, WriterFree
  <2>2. QED BY <1>2, <2>1, NoSlaveAssumption
<1>8. CASE Writer /\ mon \notin {"probing", "searching"}
  <2>1. ASSUME NEW d \in Dev, ReleaseDetach(d) PROVE op'.kind = "reselect" => active' = NoSlave
    <3>1. /\ active' = IF active = d THEN NoSlave ELSE active
          /\ op' = [kind |-> IF active = d THEN "reselect" ELSE "release", dev |-> d]
      BY <2>1 DEF ReleaseDetach, ActiveWithout, ChangeActive, Doing
    <3>2. QED BY <3>1
  <2>2. ASSUME NEW d \in Dev, EnslaveAttach(d) PROVE op'.kind = "enslave"
    BY <2>2 DEF EnslaveAttach, Doing
  <2>3. CASE FreeAllBegin \/ FreeAllNext
    <3>1. op'.kind \in {"freeall", "destroyed"}
      BY <2>3 DEF FreeAllBegin, FreeAllNext, Doing, Destroyed
    <3>2. QED BY <1>1, <1>8, <3>1 DEF RoleLb
  <2>4. CASE Close
    BY <1>6, <2>4
  <2>5. QED BY <1>1, <1>8, <2>1, <2>2, <2>3, <2>4 DEF Writer, RoleLb
<1>9. CASE AfterNotify
  BY <1>0, <1>9 DEF AfterNotify
<1>10. QED BY <1>3, <1>4, <1>5, <1>6, <1>7, <1>8, <1>9 DEF ArpHandler, Reader

(* Every step of 2.6.27.                                                   *)
LEMMA RoleNext ==
  ASSUME PointersInv, ArpInv, CarrierLb, RoleLb, kernel = "2.6.27", kernel' = "2.6.27", UpDelay = 0,
         Mode # "activebackup", Downable = {}, ArpNext
  PROVE  RoleLb'
<1>0. /\ FieldTypes /\ RolesListed /\ HandlersInv /\ monitor = "arp"
      /\ \A d \in Dev : carrier[d]
      /\ mon = "searching" /\ seen # NoSlave => active # NoSlave
      /\ mon = "searching" /\ op.kind = "reselect" => seen = active
      /\ op.kind = "reselect" /\ active # NoSlave /\ mon # "rtnl" => link[active] = "UP"
      /\ slaves \in Seq(Dev) /\ Listed \subseteq Dev /\ delay \in [Dev -> Nat]
  BY ListedDevices DEF PointersInv, PointersCore, FieldTypes, ArpInv, ArpNext, RoleLb
<1>1. CASE ArpHandler
  BY <1>0, <1>1, HandlerRole
<1>2. CASE LbPass
  <2> DEFINE lnk == [d \in Dev |-> IF d \in ToSet(slaves) /\ Recovered(d) THEN "UP"
                                   ELSE IF d \in ToSet(slaves) /\ Silent(d) THEN "DOWN" ELSE link[d]]
             st  == [d \in Dev |-> IF d \in ToSet(slaves) /\ Recovered(d) THEN "ACTIVE"
                                   ELSE IF d \in ToSet(slaves) /\ Silent(d) THEN "BACKUP" ELSE state[d]]
             best == BestSlave(slaves, primary, lnk, delay)
  <2>1. /\ op' = op /\ mon' = "idle" /\ mon = "searching"
        /\ \/ LbFailover /\ SelectActive(lnk, delay, st)
           \/ ~LbFailover /\ link' = lnk /\ active' = active
    BY <1>2 DEF LbPass, Rearm
  <2>2. active \in ToSet(slaves) \cup {NoSlave} /\ primary \in ToSet(slaves) \cup {NoSlave}
    BY <1>0 DEF RolesListed, Listed
  <2>3. ASSUME op.kind = "reselect", active' # NoSlave PROVE link'[active'] = "UP"
    <3>1. CASE LbFailover /\ SelectActive(lnk, delay, st)
      <4>1. ChangeActive(best, lnk, delay, st, "carrier")
        BY <3>1 DEF SelectActive
      <4>2. active' = best
        BY <4>1 DEF ChangeActive
      <4>3. best \in ToSet(slaves) /\ best \in Dev /\ (lnk[best] = "UP" \/ delay[best] < 0)
        <5>1. best \in ToSet(slaves) /\ (lnk[best] = "UP" \/ delay[best] < UpDelay)
          BY <1>0, <2>2, <2>3, <4>2, BestSlaveReady
        <5>2. QED BY <1>0, <5>1 DEF Listed
      <4>4. lnk \in [Dev -> {"UP", "DOWN"} \cup {link[d] : d \in Dev}]
        OBVIOUS
      <4> HIDE DEF lnk, st, best
      <4>5. lnk[best] = "UP"
        BY <1>0, <4>3
      <4>6. QED BY <4>1, <4>2, <4>3, <4>4, <4>5 DEF ChangeActive
    <3>2. CASE ~LbFailover /\ link' = lnk /\ active' = active
      <4>1. seen = active /\ link[active] = "UP" /\ active \in ToSet(slaves) /\ active \in Dev
        BY <1>0, <2>1, <2>2, <2>3, <3>2 DEF Listed
      <4>2. ~Silent(active)
        BY <3>2, <4>1 DEF LbFailover
      <4>3. QED BY <3>2, <4>1, <4>2
    <3>3. QED BY <2>1, <3>1, <3>2
  <2>4. QED BY <2>1, <2>3 DEF RoleLb
<1>3. CASE ArpNext /\ ~ArpHandler /\ ~LbPass
  <2>1. /\ UNCHANGED <<link, op, active>>
        /\ mon = "rtnl" => mon' = "rtnl"
        /\ mon' = "searching" => seen' = IF mon = "searching" THEN seen ELSE active
    BY <1>3 DEF ArpNext, ArpMonitorStep, ArpQuit, LbBegin, ArpInspect, ArpCommitSlave, ArpCommitPrimary,
       ArpCommitEnd, ArpProbe, ArpSearch, ArpCommitBegin, Tick, ProbeAnswered, ProbeHeard, Stopped, Runnable,
       vars, slaveVars, bondVars, monVars, arpVars
  <2>2. QED BY <1>0, <2>1 DEF RoleLb
<1>4. QED BY <1>1, <1>2, <1>3

(* Every step of 2.6.24, whose monitor keeps bond->lock.                   *)
LEMMA RoleNext24 ==
  ASSUME RoleLb, kernel = "2.6.24", kernel' = "2.6.24", Mode # "activebackup", ArpNext24
  PROVE  RoleLb'
<1>0. mon = "searching" => seen = active
  BY DEF RoleLb
<1>1. CASE ArpHandler24
  <2>1. UNCHANGED <<mon, seen>>
    BY <1>1 DEF ArpHandler24, ArpFields, Writer24, Reader24, FreeAllBegin24, FreeAllBegin, FreeAllNext24, FreeAllNext,
              Close24, Close, EnslaveSetup24, ReleaseReselect24, ReleaseDetach24, ReleaseDetach, ReleaseStray24,
              EnslaveDone24, EnslaveDone, EnslaveFails24, EnslaveFails, ReleaseFinish24, ReleaseFinish, Open24, Open,
              EnslaveOpen24, IoctlChangeActive24, IoctlChangeActive, Discard, monVars
  <2>2. Reader24 => active' = active
    BY DEF Reader24, EnslaveDone24, EnslaveDone, EnslaveFails24, EnslaveFails, ReleaseFinish24, ReleaseFinish, Open24,
           Open, EnslaveOpen24, IoctlChangeActive24, UsesPrimary24, bondVars
  <2>3. QED BY <1>0, <1>1, <2>1, <2>2 DEF ArpHandler24, RoleLb
<1>2. CASE ArpNext24 /\ ~ArpHandler24
  <2>1. mon' = "searching" => seen' = active'
    BY <1>0, <1>2 DEF ArpNext24, ArpMonitorStep24, ArpQuit24, LbBegin24, ArpQuit, LbBegin, LbJudge24, LbSelect24,
         Deadly24, Locked24, Tick, ProbeAnswered, ProbeHeard, Stopped, Rearm, vars, monVars, bondVars, avars, arpVars
  <2>2. QED BY <2>1 DEF RoleLb
<1>3. QED BY <1>1, <1>2

(* Whatever runs on the bond, in either port and under either monitor: a   *)
(* bond with a slave that is up has its carrier on whenever the handlers   *)
(* and the monitor are at rest.  Under 2.6.24 the slaves left on the list  *)
(* without a master are excepted, which keep the monitor from setting it.  *)
THEOREM PortCarries ==
  ASSUME ~HoolockIoctls,
         "mii" \in Monitors /\ "2.6.27" \in Kernels => DownDelay = 0,
         "arp" \in Monitors \/ "2.6.24" \in Kernels => Mode # "activebackup" /\ Downable = {},
         "arp" \in Monitors => UpDelay = 0
  PROVE  PortSpec => []PortCarrier
<1> DEFINE Inv == PortInv /\ ArpInv /\ CarrierInv
<1>1. PortInit => Inv
  <2> SUFFICES ASSUME PortInit PROVE Inv
    OBVIOUS
  <2>1. /\ op = Idle /\ active = NoSlave /\ primary = NoSlave /\ mon = "idle" /\ gap = "none" /\ slaves = <<>>
        /\ monitor = "arp" => \A d \in Dev : carrier[d]
    BY DEF PortInit, ArpInit, Init
  <2>2. Listed = {} /\ op.kind = "none"
    BY <2>1 DEF Listed, ToSet, Idle
  <2>3. ArpInv
    BY <2>1, <2>2 DEF ArpInv
  <2>4. CarrierInv
    BY <2>1, <2>2 DEF CarrierInv, CarrierLb, RoleLb, CarrierMii24, CarrierMii, AttachedRun, AttachedUp, ListedAttached,
                      CarrierOf, Listed
  <2>5. QED BY <2>1, <2>3, <2>4, PortInvInit
<1>2. Inv /\ [PortNext]_pvars => Inv'
  <2> SUFFICES ASSUME PortInv, ArpInv, CarrierInv, [PortNext]_pvars
               PROVE  PortInv' /\ ArpInv' /\ CarrierInv'
    OBVIOUS
  <2>0. /\ PortInv' /\ (kernel = "2.6.27" => PointersInv) /\ (kernel = "2.6.24" => PointersInv24)
        /\ monitor \in Monitors /\ kernel \in Kernels
    BY PortInvNext DEF PortInv, PortPointersInv
  <2>1. CASE kernel = "2.6.27" /\ monitor = "mii" /\ Next /\ UNCHANGED <<arpVars, kernel>>
    <3>1. monitor' = "mii" /\ kernel' = kernel
      BY <2>1 DEF arpVars
    <3>2. CarrierMii /\ DownDelay = 0
      BY <2>0, <2>1 DEF CarrierInv
    <3>3. CarrierMii'
      BY <2>0, <2>1, <3>2, CarrierNext
    <3>4. QED BY <2>0, <2>1, <3>1, <3>3 DEF CarrierInv, ArpInv
  <2>2. CASE kernel = "2.6.24" /\ monitor = "mii" /\ MiiNext24 /\ UNCHANGED <<arpVars, kernel>>
    <3>1. monitor' = "mii" /\ kernel' = kernel
      BY <2>2 DEF arpVars
    <3>2. CarrierMii24 /\ Mode # "activebackup" /\ Downable = {}
      BY <2>0, <2>2 DEF CarrierInv
    <3>3. CarrierMii24'
      BY <2>0, <2>2, <3>2, CarrierNext24
    <3>4. QED BY <2>0, <2>2, <3>1, <3>3 DEF CarrierInv, ArpInv
  <2>3. CASE kernel = "2.6.27" /\ monitor = "arp" /\ ArpNext /\ kernel' = kernel
    <3>1. monitor' = monitor
      BY <2>3 DEF ArpNext, ArpHandler, ArpFields, ArpMonitorStep, ArpQuit, LbBegin, LbPass, ArpInspect,
         ArpCommitSlave, ArpCommitPrimary, ArpCommitEnd, ArpProbe, ArpSearch, ArpCommitBegin, Tick, ProbeAnswered,
         ProbeHeard, arpVars
    <3>2. CarrierLb /\ RoleLb /\ UpDelay = 0 /\ Mode # "activebackup" /\ Downable = {}
      BY <2>0, <2>3 DEF CarrierInv
    <3>3. CarrierLb' /\ RoleLb' /\ ArpInv'
      BY <2>0, <2>3, <3>2, LbNext, RoleNext, ArpInvStep
    <3>4. QED BY <2>0, <2>3, <3>1, <3>3 DEF CarrierInv
  <2>4. CASE kernel = "2.6.24" /\ monitor = "arp" /\ ArpNext24 /\ kernel' = kernel
    <3>1. monitor' = monitor
      BY <2>4 DEF ArpNext24, ArpHandler24, ArpFields, ArpMonitorStep24, ArpQuit24, LbBegin24, ArpQuit, LbBegin,
         LbJudge24, LbSelect24, Deadly24, Locked24, Tick, ProbeAnswered, ProbeHeard, arpVars, avars
    <3>2. CarrierLb /\ RoleLb /\ UpDelay = 0 /\ Mode # "activebackup"
      BY <2>0, <2>4 DEF CarrierInv
    <3>3. CarrierLb' /\ RoleLb' /\ ArpInv'
      BY <2>0, <2>4, <3>2, LbNext24, RoleNext24, ArpInv24Step
    <3>4. QED BY <2>0, <2>4, <3>1, <3>3 DEF CarrierInv
  <2>5. CASE UNCHANGED pvars
    <3>1. /\ UNCHANGED <<slaves, link, newLink, master, running, carrier, state, op, mon, pos, active, primary, gap,
                         bondCarrier, monitor, kernel, seen>>
      BY <2>5 DEF pvars, avars, arpVars, vars, bondVars, monVars, devVars, slaveVars
    <3>2. ArpInv => ArpInv'
      BY <3>1 DEF ArpInv
    <3>3. CarrierInv'
      BY <3>1 DEF CarrierInv, CarrierLb, RoleLb, CarrierMii24, CarrierMii, AttachedRun, AttachedUp, ListedAttached, Listed,
                  BondEnds
    <3>4. QED BY <2>0, <3>1, <3>2, <3>3
  <2>6. QED BY <2>1, <2>2, <2>3, <2>4, <2>5 DEF PortNext
<1>3. Inv => PortCarrier
  <2> SUFFICES ASSUME PortInv, CarrierInv, kernel = "2.6.24" => ListedAttached, op = Idle, gap = "none", mon = "idle",
                      NEW s \in Listed, link[s] = "UP"
               PROVE  bondCarrier
    BY DEF PortCarrier, CarrierUpWithSlaves
  <2>1. op.kind = "none" /\ ~BondEnds
    BY DEF Idle, BondEnds
  <2>2. CASE monitor = "arp"
    <3>1. CarrierLb
      BY <2>2 DEF CarrierInv
    <3>2. ListedAttached
      BY <3>1, KernelsAssumption DEF CarrierLb, PortInv
    <3>3. AttachedUp
      BY <3>2 DEF AttachedUp, ListedAttached
    <3>4. QED BY <2>1, <3>1, <3>3 DEF CarrierLb
  <2>3. CASE monitor # "arp" /\ kernel = "2.6.24"
    <3>1. CarrierMii24
      BY <2>3 DEF CarrierInv
    <3>2. AttachedUp
      BY <2>3 DEF AttachedUp, ListedAttached
    <3>3. QED BY <2>1, <3>1, <3>2 DEF CarrierMii24
  <2>4. CASE monitor # "arp" /\ kernel # "2.6.24"
    <3>1. CarrierMii
      BY <2>4 DEF CarrierInv
    <3>2. CarrierOf(slaves, link)
      BY DEF CarrierOf, Listed
    <3>3. QED BY <2>1, <3>1, <3>2 DEF CarrierMii
  <2>5. QED BY <2>2, <2>3, <2>4
<1>4. QED BY <1>1, <1>2, <1>3, PTL DEF PortSpec

==============================================================================
