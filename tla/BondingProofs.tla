--------------------------- MODULE BondingProofs ---------------------------
(***************************************************************************)
(* Theorems about the bonding driver: its type invariant, the validity of  *)
(* its slave pointers and the causes of a failover, for every set of       *)
(* devices, every mode and all delays.                                     *)
(***************************************************************************)
EXTENDS Bonding, SlaveListProofs

(* The search for the best slave ends on a slave of the list, or on none.  *)
LEMMA BestSlaveListed ==
  ASSUME NEW list \in Seq(Dev), NEW prim \in ToSet(list) \cup {NoSlave}, NEW lnk, NEW dly,
         active \in ToSet(list) \cup {NoSlave}
  PROVE  BestSlave(list, prim, lnk, dly) \in ToSet(list) \cup {NoSlave}
<1>1. CASE list = <<>>
  BY <1>1 DEF BestSlave
<1>2. CASE list # <<>>
  <2> DEFINE start == SearchStart(list, prim)
             turn  == TurnFrom(list, start)
             Ready(s)   == IsUp(s) /\ lnk[s] = "UP"
             Waiting(s) == IsUp(s) /\ lnk[s] = "BACK" /\ dly[s] < UpDelay
             Soonest(s) == /\ Waiting(s)
                           /\ \A t \in ToSet(turn) : Waiting(t) => dly[s] <= dly[t]
  <2>1. start \in ToSet(list)
    BY <1>2, SeqFacts DEF SearchStart
  <2>2. turn \in Seq(Dev) /\ ToSet(turn) \subseteq ToSet(list)
    BY <2>1, TurnMembers
  <2>3. BestSlave(list, prim, lnk, dly) =
          IF FirstSuch(turn, Ready) # NoSlave THEN FirstSuch(turn, Ready)
          ELSE FirstSuch(turn, Soonest)
    BY <1>2 DEF BestSlave
  <2> HIDE DEF start, turn
  <2>4. FirstSuch(turn, Ready) \in ToSet(turn) \cup {NoSlave}
    <3> DEFINE Hit(k) == Ready(turn[k]) /\ \A j \in 1..(k - 1) : ~Ready(turn[j])
    <3>1. FirstSuch(turn, Ready) = IF \E k \in 1..Len(turn) : Hit(k)
                                     THEN turn[CHOOSE k \in 1..Len(turn) : Hit(k)]
                                     ELSE NoSlave
      BY DEF FirstSuch
    <3> HIDE DEF Hit, Ready
    <3>2. QED BY <2>2, <3>1, SeqFacts
  <2>5. FirstSuch(turn, Soonest) \in ToSet(turn) \cup {NoSlave}
    <3> DEFINE Hit(k) == Soonest(turn[k]) /\ \A j \in 1..(k - 1) : ~Soonest(turn[j])
    <3>1. FirstSuch(turn, Soonest) = IF \E k \in 1..Len(turn) : Hit(k)
                                       THEN turn[CHOOSE k \in 1..Len(turn) : Hit(k)]
                                       ELSE NoSlave
      BY DEF FirstSuch
    <3> HIDE DEF Hit, Soonest
    <3>2. QED BY <2>2, <3>1, SeqFacts
  <2>6. QED BY <2>2, <2>3, <2>4, <2>5
<1>3. QED BY <1>1, <1>2

(* Changing the active slave keeps the fields of the slaves well typed.    *)
LEMMA ChangeActiveTypes ==
  ASSUME FieldTypes,
         NEW new \in Dev \cup {NoSlave}, NEW lnk \in [Dev -> Link],
         NEW dly \in [Dev -> Nat], NEW st \in [Dev -> State],
         NEW rest \in Rest, ChangeActive(new, lnk, dly, st, rest)
  PROVE  /\ active' = new /\ gap' \in Rest
         /\ link' \in [Dev -> Link] /\ delay' \in [Dev -> Nat] /\ state' \in [Dev -> State]
BY DEF ChangeActive, FieldTypes, Link, State, Rest

(* Selecting the active slave finds it on the list and keeps the types.    *)
LEMMA SelectActiveTypes ==
  ASSUME FieldTypes, RolesListed,
         NEW lnk \in [Dev -> Link], NEW dly \in [Dev -> Nat], NEW st \in [Dev -> State],
         SelectActive(lnk, dly, st)
  PROVE  /\ active' \in Listed \cup {NoSlave}
         /\ active' \in Dev \cup {NoSlave}
         /\ link' \in [Dev -> Link] /\ delay' \in [Dev -> Nat] /\ state' \in [Dev -> State]
         /\ bondCarrier' \in BOOLEAN /\ gap' \in Rest
<1> DEFINE best == BestSlave(slaves, primary, lnk, dly)
<1>0. /\ slaves \in Seq(Dev)
      /\ active \in ToSet(slaves) \cup {NoSlave} /\ primary \in ToSet(slaves) \cup {NoSlave}
  BY DEF FieldTypes, RolesListed, Listed
<1>1. best \in Listed \cup {NoSlave}
  BY <1>0, BestSlaveListed DEF Listed
<1>2. Listed \subseteq Dev
  BY <1>0, SeqFacts DEF Listed
<1>3. ChangeActive(best, lnk, dly, st, "carrier") /\ "carrier" \in Rest
  BY DEF SelectActive, Rest
<1>4. bondCarrier' \in BOOLEAN
  BY DEF SelectActive, CarrierOf, FieldTypes
<1> HIDE DEF best
<1>5. QED BY <1>1, <1>2, <1>3, <1>4, ChangeActiveTypes

(* A step that leaves the list alone keeps the invariant if it chooses the *)
(* active slave on the list and does not enter the commit loop.            *)
LEMMA SameListCore ==
  ASSUME PointersCore, FieldTypes', UNCHANGED <<slaves, primary, master>>, active' \in Listed \cup {NoSlave}
  PROVE  PointersCore' /\ Listed' = Listed
<1>1. Listed' = Listed
  BY DEF Listed
<1>2. RolesListed' /\ ListedOnce' /\ (~SymlinkMayFail => ListedAttached)'
  BY <1>1 DEF PointersCore, RolesListed, ListedOnce, ListedAttached
<1>3. QED BY <1>1, <1>2 DEF PointersCore

(* With HandlersInv for a handler that goes on and a commit loop that is   *)
(* not entered.                                                            *)
LEMMA SameListStep ==
  ASSUME PointersInv, FieldTypes', UNCHANGED <<slaves, primary, master, op>>,
         active' \in Listed \cup {NoSlave},
         op.kind = "freeall" => active' = active,
         mon' = "committing" <=> mon = "committing", mon' = "committing" => pos' > 0
  PROVE  PointersInv'
<1>1. PointersCore' /\ Listed' = Listed
  BY SameListCore DEF PointersInv
<1>2. HandlersInv'
  BY <1>1 DEF PointersInv, HandlersInv
<1>3. QED BY <1>1, <1>2 DEF PointersInv

(* The handler that holds rtnl works on a device.                          *)
LEMMA OpFacts ==
  ASSUME FieldTypes
  PROVE  /\ op.kind \in Adding \cup Removing => op.dev \in Dev
         /\ op.kind \in {"none", "destroyed", "commit", "spinning"} \cup Adding \cup Removing
         /\ op = Idle => op.kind = "none"
         /\ op = Committing => op.kind = "commit"
  BY DEF FieldTypes, Idle, Destroyed, Committing, Spinning, Adding, Removing

(* The initial states satisfy the invariant.                               *)
LEMMA PointersInit == Init => PointersInv
<1> SUFFICES ASSUME Init PROVE PointersInv
  OBVIOUS
<1>1. slaves \in Seq(Dev) /\ Len(slaves) = 0 /\ Listed = {}
  BY DEF Init, Listed, ToSet
<1>2. FieldTypes
  BY <1>1 DEF Init, FieldTypes, Link, State, Rest
<1>3. RolesListed /\ ListedOnce /\ ListedAttached
  BY <1>1 DEF Init, RolesListed, ListedOnce, ListedAttached, Once
<1>4. HandlersInv
  BY DEF Init, HandlersInv, Idle, Adding, Removing
<1>5. QED BY <1>2, <1>3, <1>4 DEF PointersInv, PointersCore

(* The sections of bond_enslave.                                           *)
LEMMA EnslaveAttachStep ==
  ASSUME PointersInv, NEW d \in Dev, EnslaveAttach(d)
  PROVE  PointersInv'
<1>0. FieldTypes /\ RolesListed /\ ListedOnce /\ HandlersInv /\ d \notin ToSet(slaves) /\ op = Idle
  BY DEF PointersInv, PointersCore, EnslaveAttach, WriterFree, RtnlFree
<1>1. /\ slaves' \in Seq(Dev) /\ Listed' = Listed \cup {d} /\ Once(slaves')
  BY <1>0, AttachMembers DEF FieldTypes, ListedOnce, Listed, EnslaveAttach
<1>2. FieldTypes'
  BY <1>0, <1>1 DEF FieldTypes, EnslaveAttach, Link, State, Doing, Adding, monVars, adminVars
<1>3. RolesListed' /\ ListedOnce'
  BY <1>0, <1>1 DEF RolesListed, ListedOnce, EnslaveAttach
<1>4. (~SymlinkMayFail => ListedAttached)'
  BY <1>0, <1>1, SeqFacts DEF PointersInv, PointersCore, ListedAttached, EnslaveAttach, FieldTypes, Listed
<1>5. HandlersInv'
  BY <1>0, <1>1, OpFacts
     DEF HandlersInv, EnslaveAttach, FieldTypes, Doing, Idle, Committing, Adding, Removing, monVars
<1>6. QED BY <1>2, <1>3, <1>4, <1>5 DEF PointersInv, PointersCore

(* The slave is on the list; the active slave and the primary are chosen   *)
(* on it.                                                                  *)
LEMMA EnslaveSetupStep ==
  ASSUME PointersInv, EnslaveSetup
  PROVE  PointersInv'
<1> DEFINE d   == op.dev
           lnk == [link EXCEPT ![d] = InitialLink(d)]
           dly == [delay EXCEPT ![d] = IF carrier[d] /\ UpDelay > 0 THEN UpDelay ELSE @]
           prm == IF Mode # "trunk" /\ Primary = d THEN d ELSE primary
           st  == [state EXCEPT ![d] = NewSlaveState]
           best == BestSlave(slaves, prm, lnk, dly)
           first == IF active = NoSlave THEN d ELSE active
<1>0. /\ FieldTypes /\ RolesListed /\ ListedOnce /\ HandlersInv
      /\ d \in Dev /\ d \in Listed /\ op.kind = "enslave"
  BY OpFacts DEF PointersInv, PointersCore, EnslaveSetup, HandlersInv, Adding
<1>1. /\ slaves \in Seq(Dev) /\ active \in Listed \cup {NoSlave} /\ prm \in Listed \cup {NoSlave}
      /\ Listed \subseteq Dev
  BY <1>0, SeqFacts DEF FieldTypes, RolesListed, Listed
<1>2. lnk \in [Dev -> Link] /\ dly \in [Dev -> Nat] /\ st \in [Dev -> State]
  <2>1. InitialLink(d) \in Link /\ NewSlaveState \in State
    BY DEF InitialLink, NewSlaveState, Link, State
  <2>2. QED BY <1>0, <2>1, ParamAssumption DEF FieldTypes
<1>3. best \in Listed \cup {NoSlave} /\ first \in Listed \cup {NoSlave}
  BY <1>0, <1>1, BestSlaveListed DEF Listed
<1>4. /\ primary' = prm
      /\ \/ ChangeActive(best, lnk, dly, st, "carrier")
         \/ ChangeActive(first, lnk, dly, st, "carrier")
         \/ active' = first /\ link' = lnk /\ delay' = dly /\ state' = st /\ gap' = "none"
      /\ bondCarrier' \in BOOLEAN
      /\ op' = Doing("symlinks", d)
      /\ UNCHANGED <<devVars, newLink, slaves, adminVars, monVars, oops>>
  BY <1>0 DEF EnslaveSetup, CarrierOf, FieldTypes
<1> HIDE DEF d, lnk, dly, prm, st, best, first
<1>5. /\ active' \in Listed \cup {NoSlave} /\ gap' \in Rest
      /\ link' \in [Dev -> Link] /\ delay' \in [Dev -> Nat] /\ state' \in [Dev -> State]
  BY <1>0, <1>1, <1>2, <1>3, <1>4, ChangeActiveTypes DEF Rest
<1>6. FieldTypes'
  BY <1>0, <1>1, <1>4, <1>5 DEF FieldTypes, Doing, Adding, devVars, adminVars, monVars
<1>7. Listed' = Listed
  BY <1>4 DEF Listed
<1>8. RolesListed' /\ ListedOnce' /\ (~SymlinkMayFail => ListedAttached)'
  BY <1>0, <1>1, <1>4, <1>5, <1>7
     DEF PointersInv, PointersCore, RolesListed, ListedOnce, ListedAttached, devVars
<1>9. HandlersInv'
  BY <1>0, <1>4, <1>7, OpFacts
     DEF HandlersInv, Doing, Adding, Removing, Committing, devVars, monVars
<1>10. QED BY <1>6, <1>8, <1>9 DEF PointersInv, PointersCore

(* The end of bond_enslave leaves the list alone; its failure frees a      *)
(* listed slave.                                                           *)
LEMMA EnslaveEndCore ==
  ASSUME PointersCore, EnslaveDone \/ EnslaveFails
  PROVE  PointersCore' /\ Listed' = Listed
<1>0. FieldTypes /\ RolesListed /\ ListedOnce /\ op.dev \in Dev /\ op' = Idle
  BY OpFacts DEF PointersCore, EnslaveDone, EnslaveFails, Adding
<1>1. FieldTypes'
  <2>1. running' \in [Dev -> BOOLEAN] /\ master' \in [Dev -> BOOLEAN]
    BY <1>0 DEF FieldTypes, EnslaveDone, EnslaveFails, devVars
  <2>2. UNCHANGED <<carrier, slaveVars, bondVars, adminVars, monVars, oops>>
    BY DEF EnslaveDone, EnslaveFails, devVars
  <2>3. QED BY <1>0, <2>1, <2>2 DEF FieldTypes, slaveVars, bondVars, adminVars, monVars
<1>2. Listed' = Listed /\ RolesListed' /\ ListedOnce'
  BY <1>0 DEF Listed, RolesListed, ListedOnce, EnslaveDone, EnslaveFails, bondVars
<1>3. (~SymlinkMayFail => ListedAttached)'
  BY <1>2 DEF PointersCore, ListedAttached, EnslaveDone, EnslaveFails, devVars
<1>4. QED BY <1>1, <1>2, <1>3 DEF PointersCore

(* No handler is at work afterwards.                                       *)
LEMMA EnslaveEndStep ==
  ASSUME PointersInv, EnslaveDone \/ EnslaveFails
  PROVE  PointersInv'
<1>0. FieldTypes /\ HandlersInv /\ op.kind = "symlinks" /\ op' = Idle
  BY DEF PointersInv, PointersCore, EnslaveDone, EnslaveFails
<1>1. PointersCore' /\ Listed' = Listed
  BY EnslaveEndCore DEF PointersInv
<1>2. HandlersInv'
  <2>1. \A d \in Dev : master'[d] => master[d]
    BY <1>0 DEF FieldTypes, EnslaveDone, EnslaveFails, devVars
  <2>2. mon' = mon /\ pos' = pos /\ mon # "committing"
    BY <1>0 DEF HandlersInv, Committing, EnslaveDone, EnslaveFails, monVars
  <2>3. QED BY <1>0, <1>1, <2>1, <2>2 DEF HandlersInv, Idle, Adding, Removing
<1>3. QED BY <1>1, <1>2 DEF PointersInv

(* The sections of bond_release.                                           *)
LEMMA ReleaseDetachCore ==
  ASSUME PointersCore, NEW d \in Listed, ReleaseDetach(d)
  PROVE  PointersCore' /\ Listed' = Listed \ {d}
<1>0. FieldTypes /\ RolesListed /\ ListedOnce /\ Listed \subseteq Dev
  BY SeqFacts DEF PointersCore, FieldTypes, Listed
<1>2. /\ slaves' \in Seq(Dev) /\ Listed' = Listed \ {d} /\ Once(slaves')
  BY <1>0, DetachMembers DEF FieldTypes, ListedOnce, Listed, ReleaseDetach
<1>3. /\ primary' \in (Listed \ {d}) \cup {NoSlave}
      /\ ActiveWithout(d) \in (Listed \ {d}) \cup {NoSlave}
  BY <1>0 DEF RolesListed, ReleaseDetach, ActiveWithout
<1>4. /\ active' = ActiveWithout(d) /\ gap' \in Rest
      /\ link' \in [Dev -> Link] /\ delay' \in [Dev -> Nat] /\ state' \in [Dev -> State]
  <2>1. /\ link \in [Dev -> Link] /\ delay \in [Dev -> Nat] /\ state \in [Dev -> State]
        /\ ChangeActive(ActiveWithout(d), link, delay, state, "none")
    BY <1>0 DEF FieldTypes, ReleaseDetach
  <2>2. QED BY <1>0, <1>3, <2>1, ChangeActiveTypes DEF Rest
<1>5. /\ bondCarrier' \in BOOLEAN
      /\ op' \in [kind : {"reselect", "release"}, dev : {d}]
      /\ UNCHANGED <<devVars, newLink, adminVars, monVars, oops>>
  BY <1>0 DEF ReleaseDetach, Doing, FieldTypes
<1>6. FieldTypes'
  BY <1>0, <1>2, <1>3, <1>4, <1>5 DEF FieldTypes, devVars, adminVars, monVars, Removing
<1>7. RolesListed' /\ ListedOnce' /\ (~SymlinkMayFail => ListedAttached)'
  BY <1>2, <1>3, <1>4, <1>5 DEF PointersCore, RolesListed, ListedOnce, ListedAttached, devVars
<1>8. QED BY <1>2, <1>6, <1>7 DEF PointersCore

(* The handler goes on with a slave that is off the list.                  *)
LEMMA ReleaseDetachStep ==
  ASSUME PointersInv, NEW d \in Dev, ReleaseDetach(d)
  PROVE  PointersInv'
<1>0. HandlersInv /\ op = Idle /\ op.kind = "none" /\ master[d]
  BY OpFacts DEF PointersInv, PointersCore, ReleaseDetach, WriterFree, RtnlFree
<1>1. d \in Listed
  BY <1>0 DEF HandlersInv, Removing
<1>2. PointersCore' /\ Listed' = Listed \ {d}
  BY <1>1, ReleaseDetachCore DEF PointersInv
<1>3. /\ op' \in [kind : {"reselect", "release"}, dev : {d}]
      /\ UNCHANGED <<devVars, newLink, adminVars, monVars, oops>>
  BY DEF ReleaseDetach, Doing
<1>4. HandlersInv'
  BY <1>0, <1>2, <1>3
     DEF HandlersInv, Adding, Removing, Committing, Idle, devVars, monVars
<1>5. QED BY <1>2, <1>4 DEF PointersInv

(* The successor is found on the list.                                     *)
LEMMA ReleaseReselectStep ==
  ASSUME PointersInv, ReleaseReselect
  PROVE  PointersInv'
<1>0. /\ FieldTypes /\ RolesListed /\ ListedOnce /\ HandlersInv
      /\ op.kind = "reselect" /\ op.dev \in Dev /\ op' = Doing("release", op.dev)
      /\ UNCHANGED <<devVars, newLink, slaves, primary, adminVars, monVars, oops>>
  BY OpFacts DEF PointersInv, PointersCore, ReleaseReselect, Removing
<1>1. /\ active' \in Listed \cup {NoSlave} /\ active' \in Dev \cup {NoSlave}
      /\ link' \in [Dev -> Link] /\ delay' \in [Dev -> Nat] /\ state' \in [Dev -> State]
      /\ bondCarrier' \in BOOLEAN /\ gap' \in Rest
  <2>0. link \in [Dev -> Link] /\ delay \in [Dev -> Nat] /\ state \in [Dev -> State]
    BY <1>0 DEF FieldTypes
  <2>1. CASE HasSlaves
    <3>1. SelectActive(link, delay, state)
      BY <2>1 DEF ReleaseReselect
    <3>2. QED BY <1>0, <2>0, <3>1, SelectActiveTypes
  <2>2. CASE ~HasSlaves
    BY <1>0, <2>2 DEF ReleaseReselect, FieldTypes, RolesListed
  <2>3. QED BY <2>1, <2>2
<1>2. FieldTypes'
  BY <1>0, <1>1 DEF FieldTypes, devVars, adminVars, monVars, Removing, Doing
<1>3. Listed' = Listed
  BY <1>0 DEF Listed
<1>4. RolesListed' /\ ListedOnce' /\ (~SymlinkMayFail => ListedAttached)'
  BY <1>0, <1>1, <1>3 DEF PointersInv, PointersCore, RolesListed, ListedOnce, ListedAttached, devVars
<1>5. HandlersInv'
  BY <1>0, <1>3 DEF HandlersInv, Adding, Removing, Committing, Doing, devVars, monVars
<1>6. QED BY <1>2, <1>4, <1>5 DEF PointersInv, PointersCore

(* The freed slave is off the list already.                                *)
LEMMA ReleaseFinishCore ==
  ASSUME PointersCore, op.dev \notin Listed, ReleaseFinish
  PROVE  PointersCore' /\ Listed' = Listed
<1>0. FieldTypes /\ RolesListed /\ ListedOnce /\ op.dev \in Dev /\ op' = Idle
  BY OpFacts DEF PointersCore, ReleaseFinish, Removing
<1>1. FieldTypes'
  BY <1>0 DEF FieldTypes, ReleaseFinish, Discard, bondVars, adminVars, monVars, Link, State
<1>2. Listed' = Listed /\ RolesListed' /\ ListedOnce'
  BY <1>0 DEF Listed, RolesListed, ListedOnce, ReleaseFinish, bondVars
<1>3. (~SymlinkMayFail => ListedAttached)'
  BY <1>0, <1>2 DEF PointersCore, ListedAttached, ReleaseFinish, Discard
<1>4. QED BY <1>1, <1>2, <1>3 DEF PointersCore

(* No handler is at work afterwards.                                       *)
LEMMA ReleaseFinishStep ==
  ASSUME PointersInv, ReleaseFinish
  PROVE  PointersInv'
<1>0. /\ FieldTypes /\ HandlersInv
      /\ op.kind = "release" /\ op.dev \notin Listed /\ op' = Idle
  BY DEF PointersInv, PointersCore, ReleaseFinish, HandlersInv, Removing
<1>1. PointersCore' /\ Listed' = Listed
  BY <1>0, ReleaseFinishCore DEF PointersInv
<1>2. HandlersInv'
  BY <1>0, <1>1
     DEF HandlersInv, FieldTypes, ReleaseFinish, Discard, Idle, Committing, Adding, Removing, monVars
<1>3. QED BY <1>1, <1>2 DEF PointersInv

(* The sections of bond_free_all.                                          *)
LEMMA FreeAllBeginCore ==
  ASSUME PointersCore, FreeAllBegin
  PROVE  /\ PointersCore'
         /\ \/ /\ op' = Destroyed /\ Listed' = Listed /\ active' = active
            \/ /\ op' = Doing("freeall", slaves[1]) /\ Listed' = Listed \ {slaves[1]}
               /\ active' = NoSlave /\ primary' = NoSlave
<1>0. FieldTypes /\ RolesListed /\ ListedOnce
  BY DEF PointersCore
<1>1. CASE HasSlaves
  <2>1. /\ slaves' \in Seq(Dev) /\ Listed' = Listed \ {slaves[1]} /\ Once(slaves')
        /\ slaves[1] \in Dev
    BY <1>0, <1>1, TailMembers DEF FieldTypes, ListedOnce, Listed, HasSlaves, FreeAllBegin
  <2>2. /\ active' = NoSlave /\ primary' = NoSlave /\ gap' \in Rest
        /\ link' \in [Dev -> Link] /\ delay' \in [Dev -> Nat] /\ state' \in [Dev -> State]
    <3>1. /\ link \in [Dev -> Link] /\ delay \in [Dev -> Nat] /\ state \in [Dev -> State]
          /\ ChangeActive(NoSlave, link, delay, state, "none") /\ primary' = NoSlave
      BY <1>0, <1>1 DEF FieldTypes, FreeAllBegin
    <3>2. QED BY <1>0, <3>1, ChangeActiveTypes DEF Rest
  <2>3. /\ op' = Doing("freeall", slaves[1]) /\ killTimers' = TRUE /\ work' = FALSE
        /\ bondCarrier' = FALSE
        /\ UNCHANGED <<devVars, newLink, bondUp, bufferMode, leaked, mon, pos, oops>>
    BY <1>1 DEF FreeAllBegin
  <2>4. FieldTypes'
    BY <1>0, <2>1, <2>2, <2>3 DEF FieldTypes, devVars, Removing, Doing
  <2>5. RolesListed' /\ ListedOnce' /\ (~SymlinkMayFail => ListedAttached)'
    BY <2>1, <2>2, <2>3 DEF PointersCore, RolesListed, ListedOnce, ListedAttached, devVars
  <2>6. QED BY <2>1, <2>2, <2>3, <2>4, <2>5 DEF PointersCore
<1>2. CASE ~HasSlaves
  <2>1. /\ op' = Destroyed /\ killTimers' = TRUE /\ work' = FALSE /\ bondCarrier' = FALSE
        /\ UNCHANGED <<primary, active, gap, link, delay, state, slaves>>
        /\ UNCHANGED <<devVars, newLink, bondUp, bufferMode, leaked, mon, pos, oops>>
    BY <1>2 DEF FreeAllBegin
  <2>2. FieldTypes'
    BY <1>0, <2>1 DEF FieldTypes, devVars
  <2>3. Listed' = Listed /\ RolesListed' /\ ListedOnce' /\ (~SymlinkMayFail => ListedAttached)'
    BY <1>0, <2>1 DEF PointersCore, Listed, RolesListed, ListedOnce, ListedAttached, devVars
  <2>4. QED BY <2>1, <2>2, <2>3 DEF PointersCore
<1>3. QED BY <1>1, <1>2

(* No pointer is left to the slaves that are freed one after the other.    *)
LEMMA FreeAllBeginStep ==
  ASSUME PointersInv, FreeAllBegin
  PROVE  PointersInv'
<1>0. HandlersInv /\ op = Idle /\ op.kind = "none"
  BY OpFacts DEF PointersInv, PointersCore, FreeAllBegin, WriterFree, RtnlFree
<1>1. /\ PointersCore'
      /\ \/ op' = Destroyed /\ Listed' = Listed
         \/ /\ op' = Doing("freeall", slaves[1]) /\ Listed' = Listed \ {slaves[1]}
            /\ active' = NoSlave /\ primary' = NoSlave
  BY FreeAllBeginCore DEF PointersInv
<1>2. UNCHANGED <<devVars, mon, pos>>
  BY DEF FreeAllBegin
<1>3. HandlersInv'
  BY <1>0, <1>1, <1>2 DEF HandlersInv, Adding, Removing, Committing, Idle, Destroyed, Doing, devVars
<1>4. QED BY <1>1, <1>3 DEF PointersInv

(* The next slave leaves the list, the last one has been freed.            *)
LEMMA FreeAllNextCore ==
  ASSUME PointersCore, op.dev \notin Listed, active = NoSlave, primary = NoSlave, FreeAllNext
  PROVE  /\ PointersCore'
         /\ \/ op' = Destroyed /\ Listed' = Listed
            \/ op' = Doing("freeall", slaves[1]) /\ Listed' = Listed \ {slaves[1]}
<1> DEFINE d == op.dev
<1>0. FieldTypes /\ RolesListed /\ ListedOnce /\ d \in Dev /\ d \notin Listed
  BY OpFacts DEF PointersCore, FreeAllNext, Removing
<1>1. /\ slaves' \in Seq(Dev) /\ Once(slaves')
      /\ \/ HasSlaves /\ Listed' = Listed \ {slaves[1]} /\ op' = Doing("freeall", slaves[1])
         \/ Listed' = Listed /\ op' = Destroyed
      /\ HasSlaves => slaves[1] \in Dev
  BY <1>0, TailMembers, SeqFacts DEF FieldTypes, ListedOnce, Listed, HasSlaves, FreeAllNext
<1>2. /\ Discard(d)
      /\ UNCHANGED <<carrier, active, primary, bondCarrier, gap, adminVars, monVars, oops>>
  BY DEF FreeAllNext
<1> HIDE DEF d
<1>3. FieldTypes'
  BY <1>0, <1>1, <1>2 DEF FieldTypes, Discard, adminVars, monVars, Removing, Doing, Link, State
<1>4. RolesListed' /\ ListedOnce' /\ (~SymlinkMayFail => ListedAttached)'
  BY <1>0, <1>1, <1>2 DEF PointersCore, RolesListed, ListedOnce, ListedAttached, Discard
<1>5. QED BY <1>1, <1>3, <1>4 DEF PointersCore

(* Until the list is empty.                                                *)
LEMMA FreeAllNextStep ==
  ASSUME PointersInv, FreeAllNext
  PROVE  PointersInv'
<1> DEFINE d == op.dev
<1>0. /\ FieldTypes /\ HandlersInv
      /\ op.kind = "freeall" /\ d \in Dev /\ d \notin Listed /\ active = NoSlave /\ primary = NoSlave
  BY OpFacts DEF PointersInv, PointersCore, FreeAllNext, HandlersInv, Removing
<1>1. /\ PointersCore'
      /\ \/ op' = Destroyed /\ Listed' = Listed
         \/ op' = Doing("freeall", slaves[1]) /\ Listed' = Listed \ {slaves[1]}
  BY <1>0, FreeAllNextCore DEF PointersInv
<1>2. /\ Discard(d)
      /\ UNCHANGED <<carrier, active, primary, bondCarrier, gap, adminVars, monVars, oops>>
  BY DEF FreeAllNext
<1> HIDE DEF d
<1>3. HandlersInv'
  <2>1. \A e \in Dev : master[e] /\ e # d => e \in Listed
    BY <1>0 DEF HandlersInv, d
  <2>2. \A e \in Dev : master'[e] => master[e] /\ e # d
    BY <1>0, <1>2 DEF Discard, FieldTypes
  <2>3. mon' # "committing"
    BY <1>0, <1>2 DEF HandlersInv, Committing, monVars
  <2>4. QED BY <1>0, <1>1, <1>2, <2>1, <2>2, <2>3
            DEF HandlersInv, Adding, Removing, Destroyed, Doing
<1>4. QED BY <1>1, <1>3 DEF PointersInv

(* The link monitor.                                                       *)
LEMMA MiiInspectStep ==
  ASSUME PointersInv, MiiInspect
  PROVE  PointersInv'
<1>0. FieldTypes /\ RolesListed
  BY DEF PointersInv, PointersCore
<1>1. \A s \in Dev : /\ Inspected(s).link \in Link /\ Inspected(s).delay \in Nat
                     /\ Inspected(s).new \in {"UP", "DOWN", "NOCHANGE"}
  BY <1>0, ParamAssumption
     DEF Inspected, InspectedUp, InspectedDown, Keep, CountDown, FieldTypes, Link
<1>2. /\ link' \in [Dev -> Link] /\ delay' \in [Dev -> Nat]
      /\ newLink' \in [Dev -> {"UP", "DOWN", "NOCHANGE"}]
  <2>1. /\ link'    = [d \in Dev |-> IF d \in Listed THEN Inspected(d).link ELSE link[d]]
        /\ delay'   = [d \in Dev |-> IF d \in Listed THEN Inspected(d).delay ELSE delay[d]]
        /\ newLink' = [d \in Dev |-> IF d \in Listed THEN Inspected(d).new ELSE newLink[d]]
    BY DEF MiiInspect, Listed
  <2>2. QED BY <1>0, <1>1, <2>1 DEF FieldTypes
<1>3. /\ mon' \in {"waiting", mon} /\ work' \in BOOLEAN /\ mon = "idle"
      /\ UNCHANGED <<devVars, state, bondVars, adminVars, pos, op, oops>>
  BY <1>0 DEF MiiInspect, FieldTypes
<1>4. FieldTypes'
  BY <1>0, <1>2, <1>3 DEF FieldTypes, devVars, bondVars, adminVars
<1>5. QED BY <1>0, <1>3, <1>4, SameListStep DEF RolesListed, devVars, bondVars

(* The monitor has got rtnl.                                               *)
LEMMA MiiCommitBeginCore ==
  ASSUME PointersCore, MiiCommitBegin
  PROVE  PointersCore' /\ Listed' = Listed
<1>1. FieldTypes'
  BY DEF PointersCore, FieldTypes, MiiCommitBegin, devVars, slaveVars, bondVars, adminVars
<1>2. active' \in Listed \cup {NoSlave}
  BY DEF PointersCore, RolesListed, MiiCommitBegin, bondVars
<1>3. QED BY <1>1, <1>2, SameListCore DEF MiiCommitBegin, devVars, bondVars

(* It is the handler that holds rtnl now.                                  *)
LEMMA MiiCommitBeginStep ==
  ASSUME PointersInv, MiiCommitBegin
  PROVE  PointersInv'
<1>0. HandlersInv /\ op = Idle /\ op.kind = "none"
  BY OpFacts DEF PointersInv, PointersCore, MiiCommitBegin
<1>1. PointersCore' /\ Listed' = Listed
  BY MiiCommitBeginCore DEF PointersInv
<1>2. HandlersInv'
  BY <1>0, <1>1 DEF HandlersInv, MiiCommitBegin, Committing, Adding, Removing, devVars, bondVars
<1>3. QED BY <1>1, <1>2 DEF PointersInv

(* The slave the commit loop is at is on the list.                         *)
LEMMA CommitCursor ==
  ASSUME PointersInv, MiiCommitSlave
  PROVE  slaves[pos] \in Listed /\ slaves[pos] \in Dev
<1>1. slaves \in Seq(Dev) /\ pos \in 1..Len(slaves)
  BY DEF PointersInv, PointersCore, FieldTypes, HandlersInv, MiiCommitSlave
<1>2. QED BY <1>1, SeqFacts DEF Listed

(* The active slave is chosen on the list, if it is.                       *)
LEMMA MiiCommitSlaveStep ==
  ASSUME PointersInv, MiiCommitSlave
  PROVE  PointersInv'
<1> DEFINE s   == slaves[pos]
           lnk == [link EXCEPT ![s] = newLink[s]]
           st  == [state EXCEPT ![s] = CommittedState(s)]
<1>0. FieldTypes /\ RolesListed /\ HandlersInv /\ mon = "committing" /\ s \in Dev
  BY CommitCursor DEF PointersInv, PointersCore, MiiCommitSlave
<1>1. newLink[s] # "NOCHANGE" => lnk \in [Dev -> Link]
  BY <1>0 DEF FieldTypes, Link
<1>2. st \in [Dev -> State] /\ delay \in [Dev -> Nat]
  BY <1>0 DEF FieldTypes, CommittedState, State
<1>3. /\ \/ UNCHANGED <<link, delay, state, active, bondCarrier, gap>>
         \/ /\ newLink[s] # "NOCHANGE" /\ link' = lnk /\ state' = st
            /\ UNCHANGED <<delay, active, bondCarrier, gap>>
         \/ newLink[s] # "NOCHANGE" /\ SelectActive(lnk, delay, st)
      /\ pos' = pos + 1
      /\ UNCHANGED <<devVars, newLink, slaves, primary, adminVars, work, mon, op, oops>>
  BY DEF MiiCommitSlave
<1> HIDE DEF s, lnk, st
<1>4. /\ active' \in Listed \cup {NoSlave} /\ active' \in Dev \cup {NoSlave}
      /\ link' \in [Dev -> Link] /\ delay' \in [Dev -> Nat] /\ state' \in [Dev -> State]
      /\ bondCarrier' \in BOOLEAN /\ gap' \in Rest
  <2>1. CASE UNCHANGED <<link, delay, state, active, bondCarrier, gap>>
    BY <1>0, <2>1 DEF FieldTypes, RolesListed
  <2>2. CASE /\ newLink[s] # "NOCHANGE" /\ link' = lnk /\ state' = st
             /\ UNCHANGED <<delay, active, bondCarrier, gap>>
    BY <1>0, <1>1, <1>2, <2>2 DEF FieldTypes, RolesListed
  <2>3. CASE newLink[s] # "NOCHANGE" /\ SelectActive(lnk, delay, st)
    BY <1>0, <1>1, <1>2, <2>3, SelectActiveTypes
  <2>4. QED BY <1>3, <2>1, <2>2, <2>3
<1>5. FieldTypes'
  BY <1>0, <1>3, <1>4 DEF FieldTypes, devVars, adminVars
<1>6. pos' > 0
  BY <1>0, <1>3 DEF FieldTypes
<1>7. op.kind # "freeall"
  BY <1>0 DEF HandlersInv, Committing
<1>8. QED BY <1>0, <1>3, <1>4, <1>5, <1>6, <1>7, SameListStep DEF devVars

(* The monitor releases rtnl.                                              *)
LEMMA MiiCommitEndStep ==
  ASSUME PointersInv, MiiCommitEnd
  PROVE  PointersInv'
<1>0. FieldTypes /\ RolesListed /\ ListedOnce /\ HandlersInv /\ op.kind = "commit"
  BY DEF PointersInv, PointersCore, MiiCommitEnd, HandlersInv, Committing
<1>1. bondCarrier' \in BOOLEAN /\ work' = TRUE /\ mon' = "idle" /\ pos' = 0 /\ op' = Idle
  BY DEF MiiCommitEnd, CarrierOf
<1>2. UNCHANGED <<devVars, slaveVars, slaves, active, primary, gap, adminVars, oops>>
  BY DEF MiiCommitEnd
<1>3. FieldTypes'
  BY <1>0, <1>1, <1>2 DEF FieldTypes, devVars, slaveVars, adminVars
<1>4. Listed' = Listed /\ RolesListed' /\ ListedOnce' /\ (~SymlinkMayFail => ListedAttached)'
  BY <1>0, <1>2 DEF PointersInv, PointersCore, Listed, RolesListed, ListedOnce, ListedAttached, devVars
<1>5. HandlersInv'
  BY <1>0, <1>1, <1>2, <1>4 DEF HandlersInv, Adding, Removing, Idle, devVars
<1>6. QED BY <1>3, <1>4, <1>5 DEF PointersInv, PointersCore

(* The ioctls that switch the active slave choose it on the list.          *)
LEMMA SwitchCore ==
  ASSUME PointersCore, NEW new \in Listed \cup {NoSlave},
         NEW rest \in Rest, ChangeActive(new, link, delay, state, rest), bufferMode' \in BOOLEAN,
         UNCHANGED <<devVars, newLink, slaves, primary, bondCarrier, bondUp, killTimers,
                     leaked, monVars, op, oops>>
  PROVE  PointersCore' /\ Listed' = Listed /\ active' = new
<1>1. FieldTypes /\ slaves \in Seq(Dev) /\ link \in [Dev -> Link] /\ delay \in [Dev -> Nat] /\ state \in [Dev -> State]
  BY DEF PointersCore, FieldTypes
<1>2. Listed \subseteq Dev
  BY <1>1, SeqFacts DEF Listed
<1>3. /\ active' = new /\ gap' \in Rest
      /\ link' \in [Dev -> Link] /\ delay' \in [Dev -> Nat] /\ state' \in [Dev -> State]
  BY <1>1, <1>2, ChangeActiveTypes
<1>4. FieldTypes'
  BY <1>1, <1>2, <1>3 DEF FieldTypes, devVars, monVars
<1>5. QED BY <1>3, <1>4, SameListCore DEF devVars

(* While no handler is at work.                                            *)
LEMMA SwitchStep ==
  ASSUME PointersInv, op = Idle, NEW new \in Listed \cup {NoSlave},
         NEW rest \in Rest, ChangeActive(new, link, delay, state, rest), bufferMode' \in BOOLEAN,
         UNCHANGED <<devVars, newLink, slaves, primary, bondCarrier, bondUp, killTimers,
                     leaked, monVars, op, oops>>
  PROVE  PointersInv'
<1>1. op.kind = "none"
  BY OpFacts DEF PointersInv, PointersCore
<1>2. PointersCore' /\ Listed' = Listed /\ active' = new
  BY SwitchCore DEF PointersInv
<1>3. HandlersInv'
  BY <1>1, <1>2 DEF PointersInv, HandlersInv, Adding, Removing, devVars, monVars
<1>4. QED BY <1>2, <1>3 DEF PointersInv

(* The four ioctls, each with the slave its search finds.                  *)
LEMMA IoctlStep ==
  ASSUME PointersInv,
         IoctlMake \/ \E d \in Dev : IoctlChangeActive(d) \/ IoctlHoolockTest(d)
  PROVE  PointersInv'
<1>0. /\ FieldTypes /\ RolesListed /\ op = Idle /\ slaves \in Seq(Dev) /\ HandlersInv
      /\ bufferMode \in BOOLEAN
  BY DEF PointersInv, PointersCore, FieldTypes, IoctlChangeActive, IoctlHoolockTest, IoctlMake, WriterFree, RtnlFree
<1>1. ASSUME NEW d \in Dev, IoctlChangeActive(d) PROVE PointersInv'
  <2>1. d \in Listed
    BY <1>0, <1>1 DEF HandlersInv, IoctlChangeActive, Removing, Idle
  <2>2. QED BY <1>0, <1>1, <2>1, SwitchStep DEF IoctlChangeActive, adminVars, Rest
<1>2. ASSUME NEW d \in Dev, IoctlHoolockTest(d) PROVE PointersInv'
  <2>1. SlaveByDev(slaves, d) \in Listed
    BY <1>0, <1>2, SlaveByDevMember DEF IoctlHoolockTest, HasSlaves, Listed
  <2>2. QED BY <1>0, <1>2, <2>1, SwitchStep DEF IoctlHoolockTest, adminVars, Rest
<1>3. CASE IoctlMake
  <2>1. Passive(slaves, active) \in Listed \cup {NoSlave}
    BY <1>0, PassiveMember DEF Listed
  <2>2. (IF Passive(slaves, active) = NoSlave THEN active ELSE Passive(slaves, active))
          \in Listed \cup {NoSlave}
    BY <1>0, <2>1 DEF RolesListed
  <2>3. bufferMode' \in BOOLEAN
    BY <1>0, <1>3 DEF IoctlMake
  <2>4. QED BY <1>0, <1>3, <2>2, <2>3, SwitchStep DEF IoctlMake, Rest
<1>4. QED BY <1>1, <1>2, <1>3

(* The rest of a handler that has notified a change of the active slave.   *)
LEMMA AfterNotifyStep ==
  ASSUME PointersInv, AfterNotify
  PROVE  PointersInv'
<1>0. FieldTypes /\ RolesListed /\ HandlersInv
  BY DEF PointersInv, PointersCore
<1>1. bondCarrier' \in BOOLEAN /\ bufferMode' \in BOOLEAN /\ gap' = "none"
  BY <1>0 DEF AfterNotify, CarrierOf, FieldTypes
<1>2. UNCHANGED <<devVars, slaveVars, slaves, active, primary, bondUp, killTimers, leaked, monVars, op, oops>>
  BY DEF AfterNotify
<1>3. FieldTypes'
  BY <1>0, <1>1, <1>2 DEF FieldTypes, devVars, slaveVars, monVars, Rest
<1>4. QED BY <1>0, <1>2, <1>3, SameListStep DEF RolesListed, HandlersInv, devVars, monVars

(* Steps that touch neither the list nor the roles nor the handlers.       *)
LEMMA OtherCore ==
  ASSUME PointersCore,
         \/ Open \/ Close \/ IoctlBreak \/ IoctlGetActive \/ XmitHoolock \/ MiiQuit \/ UNCHANGED vars
         \/ \E d \in Dev : CarrierChange(d) \/ SlaveUpDown(d)
  PROVE  /\ PointersCore' /\ Listed' = Listed
         /\ UNCHANGED <<slaves, primary, master, op, active, mon, pos>>
<1>0. FieldTypes /\ RolesListed
  BY DEF PointersCore
<1>1. UNCHANGED <<slaves, primary, master, op, active, gap, mon, pos, bondCarrier, link, newLink, delay, state>>
  BY DEF Open, Close, IoctlBreak, IoctlGetActive, XmitHoolock, MiiQuit, CarrierChange, SlaveUpDown, vars,
         devVars, slaveVars, bondVars, adminVars, monVars
<1>2. carrier' \in [Dev -> BOOLEAN] /\ running' \in [Dev -> BOOLEAN]
  BY <1>0 DEF FieldTypes, Open, Close, IoctlBreak, IoctlGetActive, XmitHoolock, MiiQuit, CarrierChange, SlaveUpDown,
         vars, devVars
<1>3. {bondUp', bufferMode', killTimers', work', leaked', oops'} \subseteq BOOLEAN
  BY <1>0 DEF FieldTypes, Open, Close, IoctlBreak, IoctlGetActive, XmitHoolock, MiiQuit, CarrierChange, SlaveUpDown,
         vars, adminVars, monVars
<1>4. FieldTypes'
  BY <1>0, <1>1, <1>2, <1>3 DEF FieldTypes
<1>5. QED BY <1>0, <1>1, <1>4, SameListCore DEF RolesListed

(* What changes neither the list nor a pointer.                            *)
LEMMA OtherStep ==
  ASSUME PointersInv,
         \/ Open \/ Close \/ IoctlBreak \/ IoctlGetActive \/ XmitHoolock \/ MiiQuit \/ UNCHANGED vars
         \/ \E d \in Dev : CarrierChange(d) \/ SlaveUpDown(d)
  PROVE  PointersInv'
<1>1. /\ PointersCore' /\ Listed' = Listed
      /\ UNCHANGED <<slaves, primary, master, op, active, mon, pos>>
  BY OtherCore DEF PointersInv
<1>2. QED BY <1>1 DEF PointersInv, HandlersInv

(* A handler that spins on the leaked locks.                               *)
LEMMA SpinCore ==
  ASSUME PointersCore, op' = Spinning,
         UNCHANGED <<devVars, slaveVars, bondVars, adminVars, monVars, oops>>
  PROVE  PointersCore' /\ Listed' = Listed
<1>1. FieldTypes'
  BY DEF PointersCore, FieldTypes, devVars, slaveVars, bondVars, adminVars, monVars
<1>2. active' \in Listed \cup {NoSlave}
  BY DEF PointersCore, RolesListed, bondVars
<1>3. QED BY <1>1, <1>2, SameListCore DEF devVars, bondVars

(* A handler that spins keeps rtnl for ever.                               *)
LEMMA SpinStep ==
  ASSUME PointersInv, Spin
  PROVE  PointersInv'
<1>0. HandlersInv /\ op = Idle /\ op.kind = "none" /\ op' = Spinning
  BY OpFacts DEF PointersInv, PointersCore, Spin, RtnlFree
<1>1. UNCHANGED <<devVars, slaveVars, bondVars, adminVars, monVars, oops>>
  BY DEF Spin
<1>2. PointersCore' /\ Listed' = Listed
  BY <1>0, <1>1, SpinCore DEF PointersInv
<1>3. HandlersInv'
  BY <1>0, <1>1, <1>2
     DEF HandlersInv, Spinning, Adding, Removing, Committing, Idle, devVars, monVars
<1>4. QED BY <1>2, <1>3 DEF PointersInv

(* Every step keeps the invariant.                                         *)
LEMMA PointersNext == PointersInv /\ [Next]_vars => PointersInv'
<1> SUFFICES ASSUME PointersInv, [Next]_vars PROVE PointersInv'
  OBVIOUS
<1>1. CASE HandlerStep
  BY <1>1, EnslaveSetupStep, EnslaveEndStep, ReleaseReselectStep, ReleaseFinishStep, FreeAllNextStep,
         AfterNotifyStep
     DEF HandlerStep
<1>2. CASE MonitorStep /\ ~MiiQuit
  BY <1>2, MiiInspectStep, MiiCommitSlaveStep, MiiCommitEndStep DEF MonitorStep
<1>3. CASE MiiCommitBegin
  BY <1>3, MiiCommitBeginStep
<1>4. CASE \E d \in Dev : AdminStep(d) \/ CarrierChange(d)
  BY <1>4, EnslaveAttachStep, ReleaseDetachStep, IoctlStep, OtherStep DEF AdminStep
<1>5. CASE FreeAllBegin
  BY <1>5, FreeAllBeginStep
<1>6. CASE MiiQuit \/ Open \/ Close \/ IoctlMake \/ IoctlBreak \/ IoctlGetActive \/ XmitHoolock \/ UNCHANGED vars
  BY <1>6, IoctlStep, OtherStep
<1>7. CASE Spin
  BY <1>7, SpinStep
<1>8. QED BY <1>1, <1>2, <1>3, <1>4, <1>5, <1>6, <1>7
          DEF Next, MonitorStep, AdminBond, Stopped

(* The inductive invariant holds in every reachable state.                 *)
LEMMA PointersAlways == Spec => []PointersInv
<1>1. QED BY PointersInit, PointersNext, PTL DEF Spec

(* The running instance of the monitor is in one of its three places.      *)
LEMMA PlacesStep ==
  ASSUME mon \in {"idle", "waiting", "committing"}, [Next]_vars
  PROVE  mon' \in {"idle", "waiting", "committing"}
<1>1. HandlerStep => mon' = mon
  BY DEF HandlerStep, EnslaveSetup, EnslaveDone, EnslaveFails, ReleaseReselect, ReleaseFinish, FreeAllNext,
         AfterNotify, monVars
<1>2. MonitorStep \/ MiiCommitBegin => mon' \in {mon, "idle", "waiting", "committing"}
  BY DEF MonitorStep, MiiInspect, MiiQuit, MiiCommitSlave, MiiCommitEnd, MiiCommitBegin
<1>3. AdminBond \/ XmitHoolock => mon' = mon
  BY DEF AdminBond, FreeAllBegin, Open, Close, IoctlMake, IoctlBreak, IoctlGetActive, Spin, XmitHoolock, monVars
<1>4. \A d \in Dev : AdminStep(d) \/ CarrierChange(d) => mon' = mon
  BY DEF AdminStep, EnslaveAttach, ReleaseDetach, SlaveUpDown, IoctlChangeActive, IoctlHoolockTest, CarrierChange,
         monVars
<1>5. UNCHANGED vars => mon' = mon
  BY DEF vars, monVars
<1>6. QED BY <1>1, <1>2, <1>3, <1>4, <1>5 DEF Next, Stopped

(* So it is in one of them in every reachable state.                       *)
LEMMA MonitorPlaces == Spec => [](mon \in {"idle", "waiting", "committing"})
<1>1. Init => mon \in {"idle", "waiting", "committing"}
  BY DEF Init
<1>2. mon \in {"idle", "waiting", "committing"} /\ [Next]_vars => (mon \in {"idle", "waiting", "committing"})'
  BY PlacesStep
<1>3. QED BY <1>1, <1>2, PTL DEF Spec

(* The driver keeps every variable in its type, whatever the devices, the  *)
(* mode and the delays: the delay of a slave never underflows, the slaves  *)
(* chosen by the searches are devices.                                     *)
THEOREM TypeCorrect == Spec => []TypeOK
<1>1. PointersInv /\ mon \in {"idle", "waiting", "committing"} => TypeOK
  BY DEF PointersInv, PointersCore, TypeOK
<1>2. QED BY <1>1, PointersAlways, MonitorPlaces, PTL

(* Unless bond_create_slave_symlinks fails, curr_active_slave and          *)
(* primary_slave are NULL or slaves of the list, which holds each slave    *)
(* once and only slaves that are not freed, through every interleaving of  *)
(* bond_enslave, bond_release, bond_free_all, the ioctls and the monitor.  *)
THEOREM PointersSafe ==
  ASSUME ~SymlinkMayFail
  PROVE  Spec => []PointersValid
<1>1. PointersInv => PointersValid
  BY DEF PointersInv, PointersCore, PointersValid
<1>2. QED BY <1>1, PointersAlways, PTL

(* The search is content with the slave it starts at if that one is up.    *)
LEMMA BestSlaveStart ==
  ASSUME NEW list \in Seq(Dev), NEW prim, NEW lnk, NEW dly, NEW start \in ToSet(list),
         SearchStart(list, prim) = start, IsUp(start), lnk[start] = "UP"
  PROVE  BestSlave(list, prim, lnk, dly) = start
<1> DEFINE turn == TurnFrom(list, start)
           Ready(s) == IsUp(s) /\ lnk[s] = "UP"
           Hit(k)   == Ready(turn[k]) /\ \A j \in 1..(k - 1) : ~Ready(turn[j])
           first    == CHOOSE k \in 1..Len(turn) : Hit(k)
<1>1. turn \in Seq(Dev) /\ 1 \in 1..Len(turn) /\ turn[1] = start
  BY TurnHead
<1>2. start \in Dev /\ start # NoSlave /\ list # <<>>
  BY SeqFacts, NoSlaveAssumption
<1> HIDE DEF turn
<1>3. Hit(1)
  BY <1>1
<1>4. first = 1
  <2>1. first \in 1..Len(turn) /\ Hit(first)
    BY <1>1, <1>3
  <2>2. first > 1 => ~Ready(turn[1])
    BY <2>1
  <2>3. QED BY <1>1, <2>1, <2>2
<1>5. FirstSuch(turn, Ready) = IF \E k \in 1..Len(turn) : Hit(k) THEN turn[first] ELSE NoSlave
  BY DEF FirstSuch
<1> HIDE DEF Hit, first
<1>6. FirstSuch(turn, Ready) = start
  BY <1>1, <1>3, <1>4, <1>5
<1>7. BestSlave(list, prim, lnk, dly) = IF FirstSuch(turn, Ready) # NoSlave
                                          THEN FirstSuch(turn, Ready)
                                          ELSE BestSlave(list, prim, lnk, dly)
  BY <1>2 DEF BestSlave, turn
<1>8. QED BY <1>2, <1>6, <1>7

(* A step of the commit loop moves the active slave for cause only.        *)
LEMMA CommitSlaveCause ==
  ASSUME PointersInv, MiiCommitSlave, active # NoSlave, active' # active
  PROVE  newLink[active] = "DOWN" \/ ~IsUp(active) \/ link[active] # "UP" \/ active' = primary
<1> DEFINE s    == slaves[pos]
           lnk  == [link EXCEPT ![s] = newLink[s]]
           st   == [state EXCEPT ![s] = CommittedState(s)]
           best == BestSlave(slaves, primary, lnk, delay)
<1> SUFFICES ASSUME newLink[active] # "DOWN", IsUp(active), link[active] = "UP"
             PROVE  active' = primary
  OBVIOUS
<1>1. /\ slaves \in Seq(Dev) /\ s \in Listed /\ s \in Dev /\ link \in [Dev -> Link]
      /\ active \in Listed /\ primary \in Listed \cup {NoSlave} /\ active \in Dev
  BY CommitCursor, SeqFacts DEF PointersInv, PointersCore, FieldTypes, RolesListed, Listed
<1>2. /\ newLink[s] # "NOCHANGE" /\ FailoverNeeded(s) /\ active' = best
  BY DEF MiiCommitSlave, SelectActive, ChangeActive
<1>3. newLink[s] = "UP" /\ s = primary
  BY <1>2 DEF FailoverNeeded
<1>4. lnk[primary] = "UP" /\ lnk[active] = "UP"
  BY <1>1, <1>3
<1>5. CASE IsUp(primary)
  <2>1. SearchStart(slaves, primary) = primary
    BY <1>1, <1>3, <1>5, NoSlaveAssumption DEF SearchStart
  <2>2. primary \in ToSet(slaves)
    BY <1>1, <1>3 DEF Listed
  <2>3. best = primary
    BY <1>1, <1>4, <1>5, <2>1, <2>2, BestSlaveStart
  <2>4. QED BY <1>2, <2>3
<1>6. CASE ~IsUp(primary)
  <2>1. SearchStart(slaves, primary) = active
    BY <1>6 DEF SearchStart
  <2>2. best = active
    BY <1>1, <1>4, <2>1, BestSlaveStart DEF Listed
  <2>3. QED BY <1>2, <2>2
<1>7. QED BY <1>5, <1>6

(* No other step moves it while the monitor holds rtnl.                    *)
LEMMA NextCause ==
  ASSUME PointersInv, Next
  PROVE  op.kind = "commit" /\ active # NoSlave /\ active' # active =>
           newLink[active] = "DOWN" \/ ~IsUp(active) \/ link[active] # "UP" \/ active' = primary
<1> SUFFICES ASSUME op.kind = "commit", active # NoSlave, active' # active
             PROVE  MiiCommitSlave
  BY CommitSlaveCause
<1>1. ~RtnlFree /\ ~WriterFree /\ op # Idle
  BY DEF WriterFree, RtnlFree, Idle
<1>2. ~HandlerStep
  BY <1>1 DEF HandlerStep, EnslaveSetup, EnslaveDone, EnslaveFails, ReleaseReselect,
              ReleaseFinish, FreeAllNext, AfterNotify
<1>3. ~AdminBond /\ ~MiiCommitBegin
  BY <1>1 DEF AdminBond, FreeAllBegin, Open, Close, IoctlMake, IoctlBreak, IoctlGetActive,
              Spin, bondVars, MiiCommitBegin
<1>4. ~XmitHoolock /\ ~Stopped
  BY DEF XmitHoolock, Stopped, bondVars, vars
<1>5. ASSUME NEW d \in Dev PROVE ~AdminStep(d) /\ ~CarrierChange(d)
  BY <1>1 DEF AdminStep, EnslaveAttach, ReleaseDetach, SlaveUpDown, IoctlChangeActive,
              IoctlHoolockTest, CarrierChange, bondVars
<1>6. MonitorStep => MiiCommitSlave
  BY DEF MonitorStep, MiiInspect, MiiQuit, MiiCommitEnd, bondVars
<1>7. QED BY <1>2, <1>3, <1>4, <1>5, <1>6 DEF Next

(* For every number of slaves and all delays, in every mode: the link      *)
(* monitor takes the active role from a slave only if that slave has lost  *)
(* its link or its carrier, or to give it to the primary slave.  So a      *)
(* handover made by a client survives every pass of the monitor otherwise. *)
THEOREM FailoverCaused == Spec => FailoverOnlyForCause
<1> DEFINE Moved == op.kind = "commit" /\ active # NoSlave /\ active' # active =>
                      newLink[active] = "DOWN" \/ ~IsUp(active) \/ link[active] # "UP" \/ active' = primary
<1>1. PointersInv /\ [Next]_vars => [Moved]_vars
  BY NextCause
<1>2. QED BY <1>1, PointersAlways, PTL DEF Spec, FailoverOnlyForCause
-------------------------------------------------------------------------------
(***************************************************************************)
(* The links of the slaves and the proposals of the link monitor.          *)
(***************************************************************************)

(* What the search for the best slave finds is up, or about to be.         *)
LEMMA BestSlaveReady ==
  ASSUME NEW list \in Seq(Dev), NEW prim \in ToSet(list) \cup {NoSlave}, NEW lnk, NEW dly,
         active \in ToSet(list) \cup {NoSlave}, BestSlave(list, prim, lnk, dly) # NoSlave
  PROVE  /\ BestSlave(list, prim, lnk, dly) \in ToSet(list)
         /\ IsUp(BestSlave(list, prim, lnk, dly))
         /\ \/ lnk[BestSlave(list, prim, lnk, dly)] = "UP"
            \/ /\ lnk[BestSlave(list, prim, lnk, dly)] = "BACK"
               /\ dly[BestSlave(list, prim, lnk, dly)] < UpDelay
<1> DEFINE start == SearchStart(list, prim)
           turn  == TurnFrom(list, start)
           best  == BestSlave(list, prim, lnk, dly)
           Ready(s)   == IsUp(s) /\ lnk[s] = "UP"
           Waiting(s) == IsUp(s) /\ lnk[s] = "BACK" /\ dly[s] < UpDelay
           Soonest(s) == /\ Waiting(s)
                         /\ \A t \in ToSet(turn) : Waiting(t) => dly[s] <= dly[t]
<1>1. best \in ToSet(list) /\ list # <<>>
  <2>1. best \in ToSet(list)
    BY BestSlaveListed
  <2>2. QED BY <2>1, SeqFacts
<1>2. best = IF FirstSuch(turn, Ready) # NoSlave THEN FirstSuch(turn, Ready)
             ELSE FirstSuch(turn, Soonest)
  BY <1>1 DEF BestSlave
<1> HIDE DEF start, turn
<1>3. FirstSuch(turn, Ready) # NoSlave => Ready(FirstSuch(turn, Ready))
  <2> DEFINE Hit(k) == Ready(turn[k]) /\ \A j \in 1..(k - 1) : ~Ready(turn[j])
  <2>1. FirstSuch(turn, Ready) = IF \E k \in 1..Len(turn) : Hit(k)
                                   THEN turn[CHOOSE k \in 1..Len(turn) : Hit(k)]
                                   ELSE NoSlave
    BY DEF FirstSuch
  <2>2. \A k \in 1..Len(turn) : Hit(k) => Ready(turn[k])
    OBVIOUS
  <2> HIDE DEF Hit, Ready
  <2>3. QED BY <2>1, <2>2
<1>4. FirstSuch(turn, Soonest) # NoSlave => Waiting(FirstSuch(turn, Soonest))
  <2> DEFINE Hit(k) == Soonest(turn[k]) /\ \A j \in 1..(k - 1) : ~Soonest(turn[j])
  <2>1. FirstSuch(turn, Soonest) = IF \E k \in 1..Len(turn) : Hit(k)
                                     THEN turn[CHOOSE k \in 1..Len(turn) : Hit(k)]
                                     ELSE NoSlave
    BY DEF FirstSuch
  <2>2. \A k \in 1..Len(turn) : Hit(k) => Waiting(turn[k])
    OBVIOUS
  <2> HIDE DEF Hit, Soonest, Waiting
  <2>3. QED BY <2>1, <2>2
<1>5. IsUp(best) /\ (lnk[best] = "UP" \/ (lnk[best] = "BACK" /\ dly[best] < UpDelay))
  <2> HIDE DEF best
  <2>1. CASE FirstSuch(turn, Ready) # NoSlave
    BY <1>2, <1>3, <2>1
  <2>2. CASE FirstSuch(turn, Ready) = NoSlave
    <3>1. best = FirstSuch(turn, Soonest) /\ best # NoSlave
      BY <1>2, <2>2 DEF best
    <3>2. Waiting(best)
      <4> HIDE DEF Waiting, Soonest, Ready
      <4>1. QED BY <1>4, <3>1
    <3>3. QED BY <3>2
  <2>3. QED BY <2>1, <2>2
<1>6. QED BY <1>1, <1>5

(* The search finds a slave that is up if there is one.                    *)
LEMMA BestSlaveFound ==
  ASSUME NEW list \in Seq(Dev), NEW prim \in ToSet(list) \cup {NoSlave}, NEW lnk, NEW dly,
         active \in ToSet(list) \cup {NoSlave},
         NEW s \in ToSet(list), IsUp(s), lnk[s] = "UP"
  PROVE  /\ BestSlave(list, prim, lnk, dly) \in ToSet(list)
         /\ lnk[BestSlave(list, prim, lnk, dly)] = "UP"
<1> DEFINE start == SearchStart(list, prim)
           turn  == TurnFrom(list, start)
           Ready(t) == IsUp(t) /\ lnk[t] = "UP"
           Hit(k)   == Ready(turn[k]) /\ \A j \in 1..(k - 1) : ~Ready(turn[j])
           first    == CHOOSE k \in 1..Len(turn) : Hit(k)
           T        == {k \in 1..Len(turn) : Ready(turn[k])}
<1>1. list # <<>> /\ start \in ToSet(list)
  BY SeqFacts DEF SearchStart
<1>2. turn \in Seq(Dev) /\ ToSet(turn) = ToSet(list)
  BY <1>1, TurnMembers, TurnVisits
<1> HIDE DEF start, turn
<1>3. T # {} /\ T \in SUBSET (1..Len(turn)) /\ Len(turn) \in Nat
  <2>1. PICK k \in 1..Len(turn) : turn[k] = s
    BY <1>2, SeqFacts
  <2>2. k \in T
    BY <2>1
  <2>3. Len(turn) \in Nat
    BY <1>2, SeqFacts
  <2>4. QED BY <2>2, <2>3
<1>4. \E k \in 1..Len(turn) : Hit(k)
  <2>1. PICK k \in T : \A j \in 1..(k - 1) : j \notin T
    <3> HIDE DEF T
    <3>1. QED BY <1>3, FirstHit
  <2>2. \A j \in 1..(k - 1) : j \in 1..Len(turn)
    BY <1>3
  <2>3. QED BY <2>1, <2>2
<1>5. first \in 1..Len(turn) /\ Ready(turn[first])
  BY <1>4
<1>6. FirstSuch(turn, Ready) = IF \E k \in 1..Len(turn) : Hit(k) THEN turn[first] ELSE NoSlave
  BY DEF FirstSuch
<1> HIDE DEF Hit, first
<1>7. FirstSuch(turn, Ready) = turn[first] /\ turn[first] \in ToSet(list)
  BY <1>2, <1>4, <1>5, <1>6, SeqFacts
<1>8. turn[first] # NoSlave
  BY <1>7, SeqFacts, NoSlaveAssumption
<1>9. BestSlave(list, prim, lnk, dly) = IF FirstSuch(turn, Ready) # NoSlave
                                          THEN FirstSuch(turn, Ready)
                                          ELSE BestSlave(list, prim, lnk, dly)
  BY <1>1 DEF BestSlave, turn, start
<1>10. QED BY <1>5, <1>7, <1>8, <1>9

(* A change of the active slave touches no link but that of a slave whose  *)
(* updelay it cuts short, and a selection without an updelay touches none. *)
LEMMA ChangeLinks ==
  ASSUME NEW new \in Dev \cup {NoSlave}, NEW lnk \in [Dev -> Link], NEW dly, NEW st, NEW rest,
         ChangeActive(new, lnk, dly, st, rest)
  PROVE  /\ \A s \in Dev : link'[s] = lnk[s] \/ (lnk[s] = "BACK" /\ link'[s] = "UP")
         /\ new = NoSlave \/ lnk[new] # "BACK" => link' = lnk
BY DEF ChangeActive

Moves(lnk) == \A s \in Dev : link'[s] = lnk[s] \/ (UpDelay > 0 /\ lnk[s] = "BACK" /\ link'[s] = "UP")

(* Whom a selection finds has its link up, or its updelay was cut short.   *)
LEMMA SelectLinks ==
  ASSUME NEW list \in Seq(Dev), NEW prim \in ToSet(list) \cup {NoSlave}, active \in ToSet(list) \cup {NoSlave},
         NEW lnk \in [Dev -> Link], NEW dly \in [Dev -> Nat], NEW st, NEW rest,
         ChangeActive(BestSlave(list, prim, lnk, dly), lnk, dly, st, rest)
  PROVE  /\ Moves(lnk)
         /\ UpDelay = 0 /\ active' # NoSlave => lnk[active'] = "UP"
<1> DEFINE best == BestSlave(list, prim, lnk, dly)
<1>1. /\ best \in ToSet(list) \cup {NoSlave}
      /\ best # NoSlave => lnk[best] = "UP" \/ (lnk[best] = "BACK" /\ dly[best] < UpDelay)
  BY BestSlaveListed, BestSlaveReady
<1>2. best \in Dev \cup {NoSlave}
  BY <1>1, SeqFacts
<1>3. ChangeActive(best, lnk, dly, st, rest) /\ active' = best
  BY DEF ChangeActive
<1> HIDE DEF best
<1>4. best # NoSlave /\ UpDelay = 0 => lnk[best] = "UP"
  BY <1>1, <1>2
<1>5. CASE UpDelay = 0
  <2>1. link' = lnk
    BY <1>2, <1>3, <1>4, <1>5, ChangeLinks
  <2>2. QED BY <1>3, <1>4, <2>1 DEF Moves
<1>6. CASE UpDelay > 0
  <2>1. \A s \in Dev : link'[s] = lnk[s] \/ (lnk[s] = "BACK" /\ link'[s] = "UP")
    BY <1>2, <1>3, ChangeLinks
  <2>2. QED BY <1>6, <2>1 DEF Moves
<1>7. QED BY <1>5, <1>6, ParamAssumption

(* A link jumps when it goes from down to up without bond_enslave.         *)
NoJump == \A s \in Listed : link[s] = "DOWN" /\ link'[s] = "UP" => op = Doing("enslave", s)

(* A step keeps the proposals if it leaves alone those of the slaves that  *)
(* are still to be committed and moves the links as a selection does.      *)
LEMMA ProposalsKept ==
  ASSUME FieldTypes, ProposalsInv, ListedOnce, HandlersInv,
         \A k \in Pending' : \E j \in Pending : slaves'[k] = slaves[j],
         \A s \in Listed : newLink'[s] = newLink[s],
         \A s \in Listed : op # Doing("enslave", s) =>
            link'[s] = link[s] \/ (UpDelay > 0 /\ link[s] = "BACK" /\ link'[s] = "UP"),
         mon = "committing" => op = Committing,
         op'.kind = "enslave" => op' = op /\ link' = link /\ newLink' = newLink /\ mon' = mon
  PROVE  ProposalsInv' /\ NoJump
<1>1. NoJump
  BY DEF NoJump
<1>2. \A s \in Listed : (\E j \in Pending : s = slaves[j]) => Proposed(s)'
  <2> SUFFICES ASSUME NEW s \in Listed, NEW j \in Pending, s = slaves[j] PROVE Proposed(s)'
    OBVIOUS
  <2>1. Proposed(s) /\ (mon = "waiting" \/ mon = "committing")
    BY DEF Pending, ProposalsInv
  <2>2. op = Doing("enslave", s) => newLink[s] # "UP"
    BY <2>1 DEF ProposalsInv, Doing, Committing
  <2>3. QED BY <2>1, <2>2 DEF Proposed
<1>3. \A j \in Pending : slaves[j] \in Listed
  BY SeqFacts DEF Listed, FieldTypes, Pending
<1>4. \A k \in Pending' : newLink'[slaves'[k]] = "UP" =>
         link'[slaves'[k]] = "BACK" \/ (UpDelay > 0 /\ link'[slaves'[k]] = "UP")
  BY <1>2, <1>3 DEF Proposed
<1>5. (\A k \in Pending : Proposed(slaves[k]))'
  BY <1>4 DEF Proposed
<1>6. QED BY <1>1, <1>5 DEF ProposalsInv

(* The slaves are devices.                                                 *)
LEMMA ListedDevices == FieldTypes => Listed \subseteq Dev
<1>1. FieldTypes => slaves \in Seq(Dev)
  BY DEF FieldTypes
<1>2. QED BY <1>1, SeqFacts DEF Listed

(* A step that leaves nothing to be committed, or ends an enslaving.       *)
LEMMA ProposalsNone ==
  ASSUME mon' \notin {"waiting", "committing"}, op'.kind # "enslave"
  PROVE  ProposalsInv'
<1>1. Pending' = {}
  BY DEF Pending
<1>2. (op.kind = "enslave" => link[op.dev] \in {"UP", "FAIL"})' /\ (op.kind = "enslave" /\ mon = "waiting" => newLink[op.dev] # "UP")'
  OBVIOUS
<1>3. (\A k \in Pending : Proposed(slaves[k]))'
  BY <1>1
<1>4. QED BY <1>2, <1>3 DEF ProposalsInv

(* When rtnl is free and no monitor may be overtaken, none waits.          *)
LEMMA FreeMeansIdle ==
  ASSUME PointersInv, ~RtnlOvertake, mon \in {"idle", "waiting", "committing"}, RtnlFree
  PROVE  mon = "idle" /\ op = Idle
<1>1. op = Idle /\ mon # "waiting"
  BY DEF RtnlFree
<1>2. mon = "committing" => op = Committing
  BY DEF PointersInv, HandlersInv
<1>3. QED BY <1>1, <1>2 DEF Idle, Committing

(* The sections of bond_enslave.                                           *)
LEMMA EnslaveAttachProposals ==
  ASSUME PointersInv, ~RtnlOvertake, mon \in {"idle", "waiting", "committing"}, NEW d \in Dev, EnslaveAttach(d)
  PROVE  ProposalsInv' /\ NoJump
<1>1. /\ mon = "idle" /\ mon' = mon /\ op' = [kind |-> "enslave", dev |-> d]
      /\ link \in [Dev -> Link] /\ link' = [link EXCEPT ![d] = "UP"] /\ d \notin Listed
  BY FreeMeansIdle DEF EnslaveAttach, WriterFree, monVars, Doing, Listed, PointersInv, PointersCore, FieldTypes
<1>2. Pending' = {}
  BY <1>1 DEF Pending
<1>3. (\A k \in Pending : Proposed(slaves[k]))'
  BY <1>2
<1>4. link'[op'.dev] = "UP" /\ NoJump
  <2>1. Listed \subseteq Dev
    BY ListedDevices DEF PointersInv, PointersCore
  <2>2. link'[d] = "UP" /\ op'.dev = d /\ \A s \in Listed : link'[s] = link[s]
    BY <1>1, <2>1
  <2>3. QED BY <2>2 DEF NoJump
<1>5. QED BY <1>1, <1>3, <1>4 DEF ProposalsInv

(* No proposal "up" waits for the slave that gets its first link here.     *)
LEMMA EnslaveSetupProposals ==
  ASSUME PointersInv, ProposalsInv, EnslaveSetup
  PROVE  ProposalsInv' /\ NoJump
<1> DEFINE d   == op.dev
           lnk == [link EXCEPT ![d] = InitialLink(d)]
           dly == [delay EXCEPT ![d] = IF carrier[d] /\ UpDelay > 0 THEN UpDelay ELSE @]
           prm == IF Mode # "trunk" /\ Primary = d THEN d ELSE primary
           st  == [state EXCEPT ![d] = NewSlaveState]
           first == IF active = NoSlave THEN d ELSE active
<1>0. /\ FieldTypes /\ RolesListed /\ ListedOnce /\ HandlersInv /\ d \in Dev /\ d \in Listed /\ op.kind = "enslave"
      /\ slaves \in Seq(Dev) /\ active \in Dev \cup {NoSlave}
      /\ link \in [Dev -> Link] /\ delay \in [Dev -> Nat]
  BY OpFacts DEF PointersInv, PointersCore, EnslaveSetup, HandlersInv, Adding, FieldTypes
<1>1. active \in ToSet(slaves) \cup {NoSlave} /\ prm \in ToSet(slaves) \cup {NoSlave} /\ Listed \subseteq Dev
  BY <1>0, ListedDevices DEF RolesListed, Listed
<1>2. InitialLink(d) \in Link /\ (InitialLink(d) = "BACK" => UpDelay > 0)
  BY DEF InitialLink, Link
<1>3. /\ lnk \in [Dev -> Link] /\ dly \in [Dev -> Nat]
      /\ \A s \in Dev : s # d => lnk[s] = link[s]
      /\ lnk[d] = InitialLink(d)
  BY <1>0, <1>2, ParamAssumption
<1>4. /\ \/ ChangeActive(BestSlave(slaves, prm, lnk, dly), lnk, dly, st, "carrier")
         \/ ChangeActive(first, lnk, dly, st, "carrier")
         \/ link' = lnk
      /\ op' = [kind |-> "symlinks", dev |-> d]
      /\ UNCHANGED <<newLink, slaves, mon, pos>>
  BY DEF EnslaveSetup, Doing, monVars
<1> HIDE DEF lnk, dly, prm, st
<1>5. Moves(lnk)
  <2>1. CASE ChangeActive(BestSlave(slaves, prm, lnk, dly), lnk, dly, st, "carrier")
    BY <1>0, <1>1, <1>3, <2>1, SelectLinks
  <2>2. CASE ChangeActive(first, lnk, dly, st, "carrier")
    <3>1. CASE active = NoSlave
      <4>1. \A s \in Dev : link'[s] = lnk[s] \/ (lnk[s] = "BACK" /\ link'[s] = "UP")
        BY <1>0, <1>3, <2>2, ChangeLinks
      <4>2. lnk[d] # "BACK" => link' = lnk
        BY <1>0, <1>3, <2>2, <3>1, ChangeLinks
      <4>3. QED BY <1>2, <1>3, <4>1, <4>2 DEF Moves
    <3>2. CASE active # NoSlave
      BY <2>2, <3>2 DEF ChangeActive, Moves
    <3>3. QED BY <3>1, <3>2
  <2>3. CASE link' = lnk
    BY <2>3 DEF Moves
  <2>4. QED BY <1>4, <2>1, <2>2, <2>3
<1>6. \A s \in Listed : op # Doing("enslave", s) =>
         link'[s] = link[s] \/ (UpDelay > 0 /\ link[s] = "BACK" /\ link'[s] = "UP")
  <2> SUFFICES ASSUME NEW s \in Listed, op # Doing("enslave", s)
               PROVE  link'[s] = link[s] \/ (UpDelay > 0 /\ link[s] = "BACK" /\ link'[s] = "UP")
    OBVIOUS
  <2>1. s # d
    <3>1. op = [kind |-> op.kind, dev |-> op.dev]
      BY <1>0 DEF FieldTypes, Idle, Destroyed, Committing, Spinning
    <3>2. QED BY <1>0, <3>1 DEF Doing
  <2>2. QED BY <1>1, <1>3, <1>5, <2>1 DEF Moves
<1>7. Pending' = Pending
  BY <1>4 DEF Pending
<1>8. op'.kind # "enslave" /\ (mon = "committing" => op = Committing)
  BY <1>0, <1>4 DEF HandlersInv
<1>9. QED BY <1>0, <1>4, <1>6, <1>7, <1>8, ProposalsKept

(* The handlers that start when rtnl is free find nothing to be committed, *)
(* and change links as an active slave is changed.                         *)
LEMMA StartProposals ==
  ASSUME PointersInv, ~RtnlOvertake, mon \in {"idle", "waiting", "committing"}, RtnlFree,
         NEW new \in Dev \cup {NoSlave}, NEW rest,
         ChangeActive(new, link, delay, state, rest) \/ link' = link,
         mon' = mon, op'.kind # "enslave"
  PROVE  ProposalsInv' /\ NoJump
<1>1. mon = "idle"
  BY FreeMeansIdle
<1>2. FieldTypes /\ link \in [Dev -> Link] /\ Listed \subseteq Dev
  BY ListedDevices DEF PointersInv, PointersCore, FieldTypes
<1>3. \A s \in Dev : link'[s] = link[s] \/ (link[s] = "BACK" /\ link'[s] = "UP")
  BY <1>2, ChangeLinks
<1>4. NoJump
  BY <1>2, <1>3 DEF NoJump
<1>5. QED BY <1>1, <1>4, ProposalsNone

(* The handlers of the administrator.                                      *)
LEMMA AdminProposals ==
  ASSUME PointersInv, ~RtnlOvertake, mon \in {"idle", "waiting", "committing"},
         \/ \E d \in Dev : ReleaseDetach(d) \/ IoctlChangeActive(d) \/ IoctlHoolockTest(d)
         \/ FreeAllBegin \/ Open \/ Close \/ IoctlMake \/ IoctlBreak \/ IoctlGetActive \/ Spin
  PROVE  ProposalsInv' /\ NoJump
<1>0. /\ FieldTypes /\ RolesListed /\ slaves \in Seq(Dev) /\ active \in Dev \cup {NoSlave} /\ Listed \subseteq Dev
      /\ NoSlave \in Dev \cup {NoSlave} /\ op = Idle => op.kind = "none"
  BY ListedDevices, OpFacts DEF PointersInv, PointersCore, FieldTypes
<1>1. ASSUME NEW d \in Dev, ReleaseDetach(d) PROVE ProposalsInv' /\ NoJump
  <2>1. /\ RtnlFree /\ ChangeActive(ActiveWithout(d), link, delay, state, "none") /\ mon' = mon
        /\ op' = [kind |-> IF active = d THEN "reselect" ELSE "release", dev |-> d]
    BY <1>1 DEF ReleaseDetach, WriterFree, Doing, monVars
  <2>2. ActiveWithout(d) \in Dev \cup {NoSlave} /\ op'.kind # "enslave"
    BY <1>0, <2>1 DEF ActiveWithout
  <2>3. QED BY <2>1, <2>2, StartProposals
<1>2. ASSUME NEW d \in Dev, IoctlChangeActive(d) PROVE ProposalsInv' /\ NoJump
  <2>1. RtnlFree /\ ChangeActive(d, link, delay, state, "end") /\ mon' = mon /\ op' = op
    BY <1>2 DEF IoctlChangeActive, WriterFree, monVars
  <2>2. op'.kind # "enslave" /\ d \in Dev \cup {NoSlave}
    BY <1>0, <2>1 DEF RtnlFree
  <2>3. QED BY <2>1, <2>2, StartProposals
<1>3. ASSUME NEW d \in Dev, IoctlHoolockTest(d) PROVE ProposalsInv' /\ NoJump
  <2>1. RtnlFree /\ ChangeActive(SlaveByDev(slaves, d), link, delay, state, "end") /\ mon' = mon /\ op' = op
    BY <1>3 DEF IoctlHoolockTest, WriterFree, monVars
  <2>2. op'.kind # "enslave"
    BY <1>0, <2>1 DEF RtnlFree
  <2>3. SlaveByDev(slaves, d) \in Dev \cup {NoSlave}
    <3>1. slaves # <<>>
      BY <1>3 DEF IoctlHoolockTest, HasSlaves
    <3>2. QED BY <1>0, <3>1, SlaveByDevMember DEF Listed
  <2>4. QED BY <2>1, <2>2, <2>3, StartProposals
<1>4. CASE FreeAllBegin
  <2>1. /\ RtnlFree /\ mon' = mon
        /\ ChangeActive(NoSlave, link, delay, state, "none") \/ link' = link
    BY <1>4 DEF FreeAllBegin, WriterFree
  <2>2. op' = Destroyed \/ op' = [kind |-> "freeall", dev |-> slaves[1]]
    BY <1>4 DEF FreeAllBegin, Doing
  <2>3. op'.kind # "enslave"
    BY <2>2 DEF Destroyed
  <2>4. QED BY <1>0, <2>1, <2>3, StartProposals
<1>5. CASE IoctlMake
  <2> DEFINE new == IF Passive(slaves, active) = NoSlave THEN active ELSE Passive(slaves, active)
  <2>1. RtnlFree /\ ChangeActive(new, link, delay, state, "buffer") /\ mon' = mon /\ op' = op
    BY <1>5 DEF IoctlMake, WriterFree, monVars
  <2>2. op'.kind # "enslave"
    BY <1>0, <2>1 DEF RtnlFree
  <2>3. new \in Dev \cup {NoSlave}
    BY <1>0, PassiveMember DEF Listed
  <2> HIDE DEF new
  <2>4. QED BY <2>1, <2>2, <2>3, StartProposals
<1>6. CASE Open \/ Close \/ IoctlBreak \/ IoctlGetActive
  <2>1. RtnlFree /\ link' = link /\ mon' = mon /\ op' = op
    BY <1>6 DEF Open, Close, IoctlBreak, IoctlGetActive, WriterFree, slaveVars, monVars
  <2>2. op'.kind # "enslave"
    BY <1>0, <2>1 DEF RtnlFree
  <2>3. QED BY <1>0, <2>1, <2>2, StartProposals
<1>7. CASE Spin
  <2>1. RtnlFree /\ link' = link /\ mon' = mon /\ op'.kind # "enslave"
    BY <1>7 DEF Spin, Spinning, slaveVars, monVars
  <2>2. QED BY <1>0, <2>1, StartProposals
<1>8. QED BY <1>1, <1>2, <1>3, <1>4, <1>5, <1>6, <1>7

(* The sections of bond_release and bond_free_all, and what needs no lock. *)
LEMMA OtherProposals ==
  ASSUME PointersInv, ProposalsInv,
         \/ EnslaveDone \/ EnslaveFails \/ AfterNotify \/ MiiQuit \/ XmitHoolock \/ UNCHANGED vars
         \/ \E d \in Dev : SlaveUpDown(d) \/ CarrierChange(d)
  PROVE  ProposalsInv' /\ NoJump
<1>1. /\ UNCHANGED <<link, newLink, slaves, mon, pos>>
      /\ op' = op \/ op' = Idle
  BY DEF EnslaveDone, EnslaveFails, AfterNotify, MiiQuit, XmitHoolock, vars, SlaveUpDown, CarrierChange,
         slaveVars, bondVars, monVars
<1>2. (op' = Idle => op'.kind # "enslave") /\ Pending' = Pending
  BY <1>1 DEF Pending, Idle
<1>3. QED BY <1>1, <1>2, ProposalsKept DEF PointersInv, PointersCore, HandlersInv

(* The reselection may run while the monitor waits for rtnl.               *)
LEMMA ReleaseReselectProposals ==
  ASSUME PointersInv, ProposalsInv, ReleaseReselect
  PROVE  ProposalsInv' /\ NoJump
<1>0. /\ FieldTypes /\ RolesListed /\ ListedOnce /\ HandlersInv /\ slaves \in Seq(Dev) /\ Listed \subseteq Dev
      /\ link \in [Dev -> Link] /\ delay \in [Dev -> Nat]
  BY ListedDevices DEF PointersInv, PointersCore, FieldTypes
<1>1. active \in ToSet(slaves) \cup {NoSlave} /\ primary \in ToSet(slaves) \cup {NoSlave}
  BY <1>0 DEF RolesListed, Listed
<1>2. \/ ChangeActive(BestSlave(slaves, primary, link, delay), link, delay, state, "carrier")
      \/ link' = link
  BY DEF ReleaseReselect, SelectActive
<1>3. Moves(link)
  <2>1. CASE link' = link
    BY <2>1 DEF Moves
  <2>2. QED BY <1>0, <1>1, <1>2, <2>1, SelectLinks
<1>4. op.kind = "reselect" /\ op' = [kind |-> "release", dev |-> op.dev] /\ UNCHANGED <<newLink, slaves, mon, pos>>
  BY DEF ReleaseReselect, Doing, monVars
<1>5. op'.kind # "enslave" /\ Pending' = Pending
  BY <1>4 DEF Pending
<1>6. \A s \in Listed : link'[s] = link[s] \/ (UpDelay > 0 /\ link[s] = "BACK" /\ link'[s] = "UP")
  BY <1>0, <1>3 DEF Moves
<1>7. mon = "committing" => op = Committing
  BY <1>0 DEF HandlersInv
<1>8. QED BY <1>0, <1>4, <1>5, <1>6, <1>7, ProposalsKept

(* The freed slave is off the list, and with it its proposal.              *)
LEMMA DiscardProposals ==
  ASSUME PointersInv, ProposalsInv, ReleaseFinish \/ FreeAllNext
  PROVE  ProposalsInv' /\ NoJump
<1>0. /\ FieldTypes /\ ListedOnce /\ HandlersInv /\ slaves \in Seq(Dev) /\ Listed \subseteq Dev
      /\ link \in [Dev -> Link] /\ newLink \in [Dev -> {"UP", "DOWN", "NOCHANGE"}]
  BY ListedDevices DEF PointersInv, PointersCore, FieldTypes
<1>1. Discard(op.dev) /\ op.kind \in Removing /\ mon' = mon /\ pos' = pos
  BY DEF ReleaseFinish, FreeAllNext, Removing, monVars
<1>2. op.dev \in Dev /\ op.dev \notin Listed
  BY <1>0, <1>1, OpFacts DEF HandlersInv
<1>3. \A s \in Listed : link'[s] = link[s] /\ newLink'[s] = newLink[s]
  BY <1>0, <1>1, <1>2 DEF Discard
<1>4. op' = Idle \/ op' = Destroyed \/ op' = [kind |-> "freeall", dev |-> slaves[1]]
  BY DEF ReleaseFinish, FreeAllNext, Doing
<1>5. op'.kind # "enslave"
  BY <1>4 DEF Idle, Destroyed
<1>6. mon # "committing"
  BY <1>0, <1>1 DEF HandlersInv, Committing, Removing
<1>7. slaves' = slaves \/ (slaves # <<>> /\ slaves' = Tail(slaves))
  BY DEF ReleaseFinish, FreeAllNext, HasSlaves, bondVars
<1>8. \A k \in Pending' : \E j \in Pending : slaves'[k] = slaves[j]
  <2>1. CASE slaves' = slaves
    BY <1>1, <2>1 DEF Pending
  <2>2. CASE slaves # <<>> /\ slaves' = Tail(slaves)
    <3>1. Len(slaves') = Len(slaves) - 1 /\ \A k \in 1..Len(slaves') : slaves'[k] = slaves[k + 1]
      BY <1>0, <2>2
    <3>2. Len(slaves) \in Nat /\ \A k \in 1..Len(slaves') : k + 1 \in 1..Len(slaves)
      BY <1>0, <3>1
    <3>3. QED BY <1>1, <1>6, <3>1, <3>2 DEF Pending
  <2>3. QED BY <1>7, <2>1, <2>2
<1>9. QED BY <1>0, <1>3, <1>5, <1>6, <1>8, ProposalsKept

(* The link monitor proposes "up" only for a link that is coming back.     *)
LEMMA InspectProposals ==
  ASSUME PointersInv, ProposalsInv, MiiInspect
  PROVE  ProposalsInv' /\ NoJump
<1>0. /\ FieldTypes /\ HandlersInv /\ slaves \in Seq(Dev) /\ Listed \subseteq Dev
      /\ link \in [Dev -> Link]
      /\ op.kind \in Adding => op.dev \in Dev /\ op.dev \in Listed
  BY ListedDevices, OpFacts DEF PointersInv, PointersCore, FieldTypes, HandlersInv
<1>1. /\ link'    = [d \in Dev |-> IF d \in Listed THEN Inspected(d).link ELSE link[d]]
      /\ newLink' = [d \in Dev |-> IF d \in Listed THEN Inspected(d).new ELSE newLink[d]]
      /\ UNCHANGED <<slaves, op>>
  BY DEF MiiInspect, Listed, bondVars
<1>2. \A s \in Listed : link'[s] = Inspected(s).link /\ newLink'[s] = Inspected(s).new
  BY <1>0, <1>1
<1>3. \A s \in Listed : /\ link[s] \in {"UP", "FAIL"} => link'[s] \in {"UP", "FAIL"} /\ newLink'[s] # "UP"
                        /\ link[s] \in {"DOWN", "BACK"} => link'[s] \in {"DOWN", "BACK"}
                        /\ newLink'[s] = "UP" => link'[s] = "BACK"
  BY <1>0, <1>2 DEF Inspected, InspectedUp, InspectedDown, Keep, CountDown
<1>4. NoJump
  BY <1>3 DEF NoJump
<1>5. \A k \in Pending' : slaves'[k] \in Listed
  BY <1>0, <1>1, SeqFacts DEF Pending, Listed
<1>6. (\A k \in Pending : Proposed(slaves[k]))'
  BY <1>3, <1>5 DEF Proposed
<1>7. op.kind = "enslave" => link[op.dev] \in {"UP", "FAIL"} /\ op.dev \in Listed
  BY <1>0 DEF ProposalsInv, Adding
<1>8. (op.kind = "enslave" => link[op.dev] \in {"UP", "FAIL"})' /\ (op.kind = "enslave" /\ mon = "waiting" => newLink[op.dev] # "UP")'
  BY <1>1, <1>3, <1>7
<1>9. QED BY <1>4, <1>6, <1>8 DEF ProposalsInv

(* The monitor that gets rtnl starts at the first slave.                   *)
LEMMA CommitBeginProposals ==
  ASSUME PointersInv, ProposalsInv, MiiCommitBegin
  PROVE  ProposalsInv' /\ NoJump
<1>1. /\ mon = "waiting" /\ mon' = "committing" /\ pos' = 1 /\ op' = [kind |-> "commit", dev |-> NoSlave]
      /\ UNCHANGED <<link, newLink, slaves>>
  BY DEF MiiCommitBegin, slaveVars, bondVars, Committing
<1>2. op'.kind # "enslave" /\ Pending' \subseteq Pending
  BY <1>1 DEF Pending
<1>3. QED BY <1>1, <1>2, ProposalsKept DEF PointersInv, PointersCore, HandlersInv

(* A turn of the commit loop takes the proposal of one slave.              *)
LEMMA CommitSlaveProposals ==
  ASSUME PointersInv, ProposalsInv, MiiCommitSlave
  PROVE  ProposalsInv' /\ NoJump
<1> DEFINE s   == slaves[pos]
           lnk == [link EXCEPT ![s] = newLink[s]]
           st  == [state EXCEPT ![s] = CommittedState(s)]
<1>0. /\ FieldTypes /\ RolesListed /\ ListedOnce /\ HandlersInv /\ slaves \in Seq(Dev) /\ Listed \subseteq Dev
      /\ link \in [Dev -> Link] /\ newLink \in [Dev -> {"UP", "DOWN", "NOCHANGE"}] /\ delay \in [Dev -> Nat]
      /\ mon = "committing" /\ op = Committing /\ pos \in Nat /\ pos \in 1..Len(slaves)
  BY ListedDevices DEF PointersInv, PointersCore, FieldTypes, HandlersInv, MiiCommitSlave
<1>1. s \in Listed /\ s \in Dev
  BY CommitCursor
<1>2. active \in ToSet(slaves) \cup {NoSlave} /\ primary \in ToSet(slaves) \cup {NoSlave}
  BY <1>0 DEF RolesListed, Listed
<1>3. /\ \/ newLink[s] = "NOCHANGE" /\ link' = link
         \/ newLink[s] # "NOCHANGE" /\ link' = lnk
         \/ newLink[s] # "NOCHANGE" /\ ChangeActive(BestSlave(slaves, primary, lnk, delay), lnk, delay, st, "carrier")
      /\ pos' = pos + 1
      /\ UNCHANGED <<newLink, slaves, mon, op>>
  BY DEF MiiCommitSlave, SelectActive
<1>4. newLink[s] # "NOCHANGE" => lnk \in [Dev -> Link] /\ lnk[s] = newLink[s]
  BY <1>0, <1>1 DEF Link
<1>5. \A t \in Dev : t # s => lnk[t] = link[t]
  BY <1>0
<1>6. pos \in Pending /\ Proposed(s)
  BY <1>0 DEF ProposalsInv, Pending
<1> HIDE DEF s, lnk, st
<1>7. newLink[s] # "NOCHANGE" => Moves(lnk)
  <2>1. CASE link' = lnk
    BY <2>1 DEF Moves
  <2>2. CASE newLink[s] # "NOCHANGE" /\ ChangeActive(BestSlave(slaves, primary, lnk, delay), lnk, delay, st, "carrier")
    BY <1>0, <1>2, <1>4, <2>2, SelectLinks
  <2>3. QED BY <1>3, <2>1, <2>2
<1>8. \A t \in Listed : t # s => link'[t] = link[t] \/ (UpDelay > 0 /\ link[t] = "BACK" /\ link'[t] = "UP")
  BY <1>0, <1>3, <1>5, <1>7 DEF Moves
<1>9. NoJump
  <2>1. CASE newLink[s] = "NOCHANGE"
    BY <1>3, <2>1 DEF NoJump
  <2>2. CASE newLink[s] = "UP"
    BY <1>6, <1>8, <2>2 DEF NoJump, Proposed
  <2>3. CASE newLink[s] = "DOWN"
    <3>1. link'[s] # "UP"
      BY <1>1, <1>4, <1>7, <2>3 DEF Moves
    <3>2. QED BY <1>8, <3>1 DEF NoJump
  <2>4. QED BY <1>0, <1>1, <2>1, <2>2, <2>3
<1>10. \A k \in Pending' : k \in Pending /\ slaves[k] # s /\ slaves[k] \in Listed
  <2>1. \A k \in Pending' : k \in Pending /\ k \in 1..Len(slaves) /\ k # pos
    BY <1>0, <1>3 DEF Pending
  <2>2. \A k \in 1..Len(slaves) : slaves[k] \in Listed
    BY <1>0, SeqFacts DEF Listed
  <2>3. QED BY <1>0, <2>1, <2>2 DEF ListedOnce, Once, s
<1>11. \A k \in Pending' : Proposed(slaves[k])
  BY <1>10 DEF ProposalsInv
<1>12. \A k \in Pending' : newLink'[slaves'[k]] = "UP" =>
          link'[slaves'[k]] = "BACK" \/ (UpDelay > 0 /\ link'[slaves'[k]] = "UP")
  BY <1>3, <1>8, <1>10, <1>11 DEF Proposed
<1>13. (\A k \in Pending : Proposed(slaves[k]))'
  BY <1>12 DEF Proposed
<1>14. op'.kind # "enslave"
  BY <1>0, <1>3 DEF Committing
<1>15. QED BY <1>9, <1>13, <1>14 DEF ProposalsInv

(* Nothing is left to be committed.                                        *)
LEMMA CommitEndProposals ==
  ASSUME MiiCommitEnd
  PROVE  ProposalsInv' /\ NoJump
<1>1. mon' = "idle" /\ op' = [kind |-> "none", dev |-> NoSlave] /\ link' = link
  BY DEF MiiCommitEnd, Idle, slaveVars
<1>2. QED BY <1>1, ProposalsNone DEF NoJump

(* Every step keeps the proposals true to the links, and none makes a link *)
(* jump from down to up.                                                   *)
LEMMA ProposalsNext ==
  ASSUME PointersInv, ProposalsInv, ~RtnlOvertake, mon \in {"idle", "waiting", "committing"}, [Next]_vars
  PROVE  ProposalsInv' /\ NoJump
<1>1. CASE HandlerStep
  BY <1>1, EnslaveSetupProposals, OtherProposals, ReleaseReselectProposals, DiscardProposals DEF HandlerStep
<1>2. CASE MonitorStep
  BY <1>2, InspectProposals, CommitSlaveProposals, CommitEndProposals, OtherProposals DEF MonitorStep
<1>3. CASE MiiCommitBegin
  BY <1>3, CommitBeginProposals
<1>4. CASE AdminBond
  BY <1>4, AdminProposals DEF AdminBond
<1>5. CASE \E d \in Dev : AdminStep(d) \/ CarrierChange(d)
  BY <1>5, EnslaveAttachProposals, AdminProposals, OtherProposals DEF AdminStep
<1>6. CASE XmitHoolock \/ UNCHANGED vars
  BY <1>6, OtherProposals
<1>7. QED BY <1>1, <1>2, <1>3, <1>4, <1>5, <1>6 DEF Next, Stopped

(* A link that was down never comes up without the monitor having seen its *)
(* carrier in an earlier pass, whatever the mode, the delays and the       *)
(* ioctls, if no administrator overtakes the monitor that waits for rtnl.  *)
THEOREM LinksComeBack ==
  ASSUME ~RtnlOvertake
  PROVE  Spec => UpOnlyFromBack
<1> DEFINE Inv == PointersInv /\ mon \in {"idle", "waiting", "committing"} /\ ProposalsInv
           Jump == \A s \in Listed : link[s] = "DOWN" /\ link'[s] = "UP" => op = Doing("enslave", s)
<1>1. Init => Inv
  <2>1. Init => mon = "idle" /\ op.kind = "none"
    BY DEF Init, Idle
  <2>2. Init => ProposalsInv
    BY <2>1 DEF ProposalsInv, Pending
  <2>3. QED BY <2>1, <2>2, PointersInit
<1>2. Inv /\ [Next]_vars => Inv'
  BY PointersNext, PlacesStep, ProposalsNext
<1>3. Inv /\ [Next]_vars => [Jump]_vars
  BY ProposalsNext DEF NoJump
<1>4. QED BY <1>1, <1>2, <1>3, PTL DEF Spec, UpOnlyFromBack
-------------------------------------------------------------------------------
(***************************************************************************)
(* The state of the slaves.                                                *)
(***************************************************************************)

(* The states of the slaves of a set, and the link of the active slave.    *)
Follows(S, a, st) == \A s \in S : st[s] = "ACTIVE" <=> (Mode = "activebackup" => s = a)

Settled(a, lnk) == Mode = "activebackup" /\ a # NoSlave => lnk[a] \in {"UP", "FAIL"}

Finished == {s \in Listed : op # Doing("enslave", s)}

(* The invariant in the parts the following lemmas are about.              *)
LEMMA StateParts ==
  StateInv <=> /\ Follows(Finished, active, state) /\ Settled(active, link)
               /\ Mode = "activebackup" /\ op.kind = "enslave" => op.dev # active
BY DEF StateInv, StateFollowsActive, Follows, Settled, Finished

(* A change of the active slave hands the state over with the role.        *)
LEMMA ChangeFollows ==
  ASSUME NEW new \in Dev \cup {NoSlave}, NEW lnk \in [Dev -> Link], NEW dly, NEW st \in [Dev -> State],
         NEW rest, ChangeActive(new, lnk, dly, st, rest),
         NEW S \in SUBSET Dev, Follows(S, active, st), Settled(new, lnk)
  PROVE  Follows(S, active', state') /\ Settled(active', link')
<1>1. active' = new
  BY DEF ChangeActive
<1>2. CASE Mode = "activebackup" /\ new # active
  <2>1. \A s \in S : state'[s] = CASE s = new -> "ACTIVE" [] s = active -> "BACKUP" [] OTHER -> st[s]
    BY <1>2 DEF ChangeActive
  <2>2. Follows(S, active', state')
    BY <1>1, <1>2, <2>1 DEF Follows
  <2>3. Settled(active', link')
    BY <1>1 DEF Settled, ChangeActive
  <2>4. QED BY <2>2, <2>3
<1>3. CASE ~(Mode = "activebackup" /\ new # active)
  <2>1. state' = st
    BY <1>3 DEF ChangeActive
  <2>2. Follows(S, active', state')
    BY <1>1, <1>3, <2>1 DEF Follows
  <2>3. Settled(active', link')
    BY <1>1, <1>3 DEF Settled, ChangeActive
  <2>4. QED BY <2>2, <2>3
<1>4. QED BY <1>2, <1>3

(* So does a selection, which in active-backup mode and without an updelay *)
(* finds a slave whose link is up.                                         *)
LEMMA SelectFollows ==
  ASSUME NEW list \in Seq(Dev), NEW prim \in ToSet(list) \cup {NoSlave}, active \in ToSet(list) \cup {NoSlave},
         NEW lnk \in [Dev -> Link], NEW dly \in [Dev -> Nat], NEW st \in [Dev -> State], NEW rest,
         ChangeActive(BestSlave(list, prim, lnk, dly), lnk, dly, st, rest),
         Mode = "activebackup" => UpDelay = 0,
         NEW S \in SUBSET Dev, Follows(S, active, st)
  PROVE  Follows(S, active', state') /\ Settled(active', link')
<1> DEFINE best == BestSlave(list, prim, lnk, dly)
<1>1. best \in ToSet(list) \cup {NoSlave}
  BY BestSlaveListed
<1>2. best \in Dev \cup {NoSlave}
  BY <1>1, SeqFacts
<1>3. ChangeActive(best, lnk, dly, st, rest) /\ active' = best
  BY DEF ChangeActive
<1>4. UpDelay = 0 /\ best # NoSlave => lnk[best] = "UP"
  BY <1>3, SelectLinks
<1> HIDE DEF best
<1>5. Settled(best, lnk)
  BY <1>4 DEF Settled
<1>6. QED BY <1>2, <1>3, <1>5, ChangeFollows

(* An active slave whose link is found down loses the role with the state. *)
LEMMA DeposedFollows ==
  ASSUME NEW list \in Seq(Dev), NEW prim \in ToSet(list) \cup {NoSlave}, active \in ToSet(list) \cup {NoSlave},
         NEW lnk \in [Dev -> Link], NEW dly \in [Dev -> Nat], NEW st \in [Dev -> State], NEW rest,
         ChangeActive(BestSlave(list, prim, lnk, dly), lnk, dly, st, rest),
         Mode = "activebackup", UpDelay = 0, active \in Dev, lnk[active] = "DOWN",
         \A t \in ToSet(list) : t # active => st[t] # "ACTIVE"
  PROVE  Follows(ToSet(list), active', state') /\ Settled(active', link')
<1> DEFINE best == BestSlave(list, prim, lnk, dly)
<1>1. best \in ToSet(list) \cup {NoSlave}
  BY BestSlaveListed
<1>2. active' = best /\ ChangeActive(best, lnk, dly, st, rest)
  BY DEF ChangeActive
<1>3. Moves(lnk) /\ (active' # NoSlave => lnk[active'] = "UP")
  BY SelectLinks
<1>4. ToSet(list) \subseteq Dev
  BY SeqFacts
<1> HIDE DEF best
<1>5. best # active
  BY <1>2, <1>3, NoSlaveAssumption
<1>6. \A t \in Dev : state'[t] = CASE t = best -> "ACTIVE" [] t = active -> "BACKUP" [] OTHER -> st[t]
  BY <1>2, <1>5 DEF ChangeActive
<1>7. \A t \in ToSet(list) : state'[t] = "ACTIVE" <=> t = best
  <2> SUFFICES ASSUME NEW t \in ToSet(list) PROVE state'[t] = "ACTIVE" <=> t = best
    OBVIOUS
  <2>1. CASE t = best
    BY <1>4, <1>5, <1>6, <2>1
  <2>2. CASE t # best /\ t = active
    BY <1>4, <1>6, <2>2
  <2>3. CASE t # best /\ t # active
    <3>1. state'[t] = st[t]
      BY <1>4, <1>6, <2>3
    <3>2. QED BY <2>3, <3>1
  <2>4. QED BY <2>1, <2>2, <2>3
<1>8. Follows(ToSet(list), active', state')
  BY <1>2, <1>7 DEF Follows
<1>9. Settled(active', link')
  BY <1>1, <1>2, <1>3, <1>4 DEF Settled, Moves
<1>10. QED BY <1>8, <1>9

(* The active slave keeps its link and state if nothing touches them.      *)
LEMMA FollowsSame ==
  ASSUME NEW S, NEW T \in SUBSET S, Follows(S, active, state), Settled(active, link),
         active' = active, \A s \in T : state'[s] = state[s],
         Mode = "activebackup" /\ active # NoSlave => link'[active] = link[active]
  PROVE  Follows(T, active', state') /\ Settled(active', link')
BY DEF Follows, Settled

(* Who is done with bond_enslave.                                          *)
LEMMA FinishedFacts ==
  ASSUME FieldTypes
  PROVE  /\ Finished \subseteq Listed /\ Finished \in SUBSET Dev
         /\ op.kind # "enslave" => Finished = Listed
         /\ op'.kind # "enslave" => Finished' = Listed'
         /\ op.kind = "enslave" => Finished = Listed \ {op.dev}
<1>1. Listed \subseteq Dev
  BY ListedDevices
<1>2. Finished \subseteq Listed
  BY DEF Finished
<1>3. (op.kind # "enslave" => Finished = Listed) /\ (op'.kind # "enslave" => Finished' = Listed')
  BY DEF Finished, Doing
<1>4. op.kind = "enslave" => Finished = Listed \ {op.dev}
  <2>1. op = [kind |-> op.kind, dev |-> op.dev]
    BY DEF FieldTypes, Idle, Destroyed, Committing, Spinning
  <2>2. op.kind = "enslave" => \A s \in Listed : op = Doing("enslave", s) <=> s = op.dev
    BY <2>1 DEF Doing
  <2>3. QED BY <2>2 DEF Finished
<1>5. QED BY <1>1, <1>2, <1>3, <1>4

(* The sections of bond_enslave.                                           *)
LEMMA EnslaveAttachState ==
  ASSUME PointersInv, StateInv, NEW d \in Dev, EnslaveAttach(d)
  PROVE  StateInv'
<1>0. /\ FieldTypes /\ RolesListed /\ slaves \in Seq(Dev) /\ Listed \subseteq Dev /\ active \in Listed \cup {NoSlave}
      /\ link \in [Dev -> Link] /\ state \in [Dev -> State] /\ op.kind = "none"
  BY ListedDevices, OpFacts DEF PointersInv, PointersCore, FieldTypes, RolesListed, EnslaveAttach, WriterFree, RtnlFree
<1>1. /\ d \notin Listed /\ slaves' = Attach(slaves, d) /\ op' = [kind |-> "enslave", dev |-> d] /\ active' = active
      /\ link' = [link EXCEPT ![d] = "UP"] /\ state' = [state EXCEPT ![d] = "ACTIVE"]
  BY DEF EnslaveAttach, Doing, Listed
<1>2. Finished = Listed
  BY <1>0, FinishedFacts
<1>3. Finished' = Listed
  <2>1. Listed' = Listed \cup {d}
    <3>1. slaves \in Seq(Dev) /\ slaves' = Attach(slaves, d) /\ d \notin ToSet(slaves) /\ Once(slaves)
      BY <1>0, <1>1 DEF PointersInv, PointersCore, ListedOnce, Listed
    <3>2. QED BY <3>1, AttachMembers DEF Listed
  <2>2. \A s : op' = [kind |-> "enslave", dev |-> s] <=> s = d
    BY <1>1
  <2>3. QED BY <1>1, <2>1, <2>2 DEF Finished, Doing
<1>4. active # d
  BY <1>0, <1>1, NoSlaveAssumption
<1>5. /\ \A s \in Listed : state'[s] = state[s]
      /\ active # NoSlave => link'[active] = link[active]
  BY <1>0, <1>1, <1>4
<1>6. Follows(Listed, active', state') /\ Settled(active', link')
  BY <1>1, <1>2, <1>5, FollowsSame, StateParts
<1>7. op'.dev # active'
  BY <1>1, <1>4
<1>8. QED BY <1>3, <1>6, <1>7 DEF StateInv, StateFollowsActive, Follows, Settled, Finished

(* The new slave gets the state of a backup, and the role only from the    *)
(* search.                                                                 *)
LEMMA EnslaveSetupState ==
  ASSUME PointersInv, StateInv, EnslaveSetup, Mode = "activebackup" => UpDelay = 0
  PROVE  StateInv'
<1> DEFINE d   == op.dev
           lnk == [link EXCEPT ![d] = InitialLink(d)]
           dly == [delay EXCEPT ![d] = IF carrier[d] /\ UpDelay > 0 THEN UpDelay ELSE @]
           prm == IF Mode # "trunk" /\ Primary = d THEN d ELSE primary
           st  == [state EXCEPT ![d] = NewSlaveState]
           first == IF active = NoSlave THEN d ELSE active
<1>0. /\ FieldTypes /\ RolesListed /\ d \in Dev /\ d \in Listed /\ op.kind = "enslave"
      /\ slaves \in Seq(Dev) /\ active \in Dev \cup {NoSlave}
      /\ link \in [Dev -> Link] /\ delay \in [Dev -> Nat] /\ state \in [Dev -> State]
  BY OpFacts DEF PointersInv, PointersCore, EnslaveSetup, HandlersInv, Adding, FieldTypes
<1>1. active \in ToSet(slaves) \cup {NoSlave} /\ prm \in ToSet(slaves) \cup {NoSlave} /\ Listed \in SUBSET Dev
  BY <1>0, ListedDevices DEF RolesListed, Listed
<1>2. InitialLink(d) \in Link /\ NewSlaveState \in State
  BY DEF InitialLink, Link, NewSlaveState, State
<1>3. /\ lnk \in [Dev -> Link] /\ dly \in [Dev -> Nat] /\ st \in [Dev -> State]
      /\ st[d] = NewSlaveState /\ \A s \in Dev : s # d => st[s] = state[s]
  BY <1>0, <1>2, ParamAssumption
<1>4. Follows(Listed, active, st)
  <2>1. Finished = Listed \ {d}
    BY <1>0, FinishedFacts
  <2>2. st[d] = "ACTIVE" <=> (Mode = "activebackup" => d = active)
    BY <1>0, <1>3 DEF NewSlaveState, StateInv
  <2>3. QED BY <1>1, <1>3, <2>1, <2>2, StateParts DEF Follows
<1>5. /\ \/ Mode = "activebackup" /\ ChangeActive(BestSlave(slaves, prm, lnk, dly), lnk, dly, st, "carrier")
         \/ Mode # "activebackup" /\ ChangeActive(first, lnk, dly, st, "carrier")
         \/ Mode # "activebackup" /\ state' = st
      /\ op' = [kind |-> "symlinks", dev |-> d] /\ slaves' = slaves
  BY DEF EnslaveSetup, Doing
<1> HIDE DEF lnk, dly, prm, st
<1>6. Follows(Listed, active', state') /\ Settled(active', link')
  <2>1. CASE Mode = "activebackup" /\ ChangeActive(BestSlave(slaves, prm, lnk, dly), lnk, dly, st, "carrier")
    BY <1>0, <1>1, <1>3, <1>4, <2>1, SelectFollows
  <2>2. CASE Mode # "activebackup" /\ ChangeActive(first, lnk, dly, st, "carrier")
    BY <1>4, <2>2 DEF ChangeActive, Follows, Settled
  <2>3. CASE Mode # "activebackup" /\ state' = st
    BY <1>4, <2>3 DEF Follows, Settled
  <2>4. QED BY <1>5, <2>1, <2>2, <2>3
<1>7. Finished' = Listed /\ op'.kind # "enslave"
  <2>1. op'.kind # "enslave" /\ Listed' = Listed
    BY <1>5 DEF Listed
  <2>2. QED BY <1>0, <2>1, FinishedFacts
<1>8. QED BY <1>6, <1>7 DEF StateInv, StateFollowsActive, Follows, Settled, Finished

(* The handlers that change the active slave under the locks and leave the *)
(* list alone or shorten it.                                               *)
LEMMA RoleState ==
  ASSUME FieldTypes, StateInv, op.kind # "enslave", op'.kind # "enslave", Listed' \subseteq Listed,
         NEW new \in Dev \cup {NoSlave}, NEW rest,
         \/ ChangeActive(new, link, delay, state, rest)
         \/ UNCHANGED <<active, link, state>>,
         Mode = "activebackup" => new \in {active, NoSlave} \/ link[new] = "UP"
  PROVE  StateInv'
<1>1. /\ link \in [Dev -> Link] /\ state \in [Dev -> State] /\ active \in Dev \cup {NoSlave}
      /\ Finished = Listed /\ Finished' = Listed' /\ Listed \in SUBSET Dev
  BY FinishedFacts, ListedDevices DEF FieldTypes
<1>2. Follows(Listed, active, state) /\ Settled(active, link)
  BY <1>1, StateParts
<1>3. Settled(new, link)
  BY <1>2 DEF Settled
<1>4. Follows(Listed, active', state') /\ Settled(active', link')
  <2>1. CASE ChangeActive(new, link, delay, state, rest)
    BY <1>1, <1>2, <1>3, <2>1, ChangeFollows
  <2>2. CASE UNCHANGED <<active, link, state>>
    BY <1>2, <2>2
  <2>3. QED BY <2>1, <2>2
<1>5. Follows(Listed', active', state')
  BY <1>4 DEF Follows
<1>6. QED BY <1>1, <1>4, <1>5 DEF StateInv, StateFollowsActive, Follows, Settled, Finished

(* The handlers of the administrator.                                      *)
LEMMA AdminState ==
  ASSUME PointersInv, StateInv, Mode = "activebackup" => ~HoolockIoctls,
         \/ \E d \in Dev : ReleaseDetach(d) \/ IoctlChangeActive(d) \/ IoctlHoolockTest(d)
         \/ FreeAllBegin \/ Open \/ Close \/ IoctlMake \/ IoctlBreak \/ IoctlGetActive \/ Spin
  PROVE  StateInv'
<1>0. /\ FieldTypes /\ slaves \in Seq(Dev) /\ active \in Dev \cup {NoSlave} /\ Listed \subseteq Dev
      /\ op.kind = "none" /\ op = Idle /\ Once(slaves)
  BY ListedDevices, OpFacts
     DEF PointersInv, PointersCore, FieldTypes, ReleaseDetach, IoctlChangeActive, IoctlHoolockTest, FreeAllBegin,
         Open, Close, IoctlMake, IoctlBreak, IoctlGetActive, Spin, WriterFree, RtnlFree, ListedOnce
<1>1. ASSUME NEW d \in Dev, ReleaseDetach(d) PROVE StateInv'
  <2>1. /\ ChangeActive(ActiveWithout(d), link, delay, state, "none") /\ slaves' = Detach(slaves, d)
        /\ op' = [kind |-> IF active = d THEN "reselect" ELSE "release", dev |-> d]
    BY <1>1 DEF ReleaseDetach, Doing
  <2>2. ActiveWithout(d) \in Dev \cup {NoSlave} /\ ActiveWithout(d) \in {active, NoSlave} /\ op'.kind # "enslave"
    BY <1>0, <2>1 DEF ActiveWithout
  <2>3. Listed' \subseteq Listed
    <3>1. d \in ToSet(slaves)
      BY <1>0, <1>1 DEF PointersInv, HandlersInv, ReleaseDetach, Listed, Removing
    <3>2. QED BY <1>0, <2>1, <3>1, DetachMembers DEF Listed
  <2>4. QED BY <1>0, <2>1, <2>2, <2>3, RoleState
<1>2. ASSUME NEW d \in Dev, IoctlChangeActive(d) PROVE StateInv'
  <2>1. ChangeActive(d, link, delay, state, "end") /\ link[d] = "UP" /\ op' = op /\ slaves' = slaves
    BY <1>2 DEF IoctlChangeActive
  <2>2. QED BY <1>0, <2>1, RoleState DEF Listed
<1>3. ASSUME NEW d \in Dev, IoctlHoolockTest(d) PROVE StateInv'
  <2>1. /\ ChangeActive(SlaveByDev(slaves, d), link, delay, state, "end") /\ op' = op /\ slaves' = slaves
        /\ slaves # <<>> /\ HoolockIoctls
    BY <1>3 DEF IoctlHoolockTest, HasSlaves
  <2>2. SlaveByDev(slaves, d) \in Dev \cup {NoSlave}
    BY <1>0, <2>1, SlaveByDevMember DEF Listed
  <2>3. QED BY <1>0, <2>1, <2>2, RoleState DEF Listed
<1>4. CASE FreeAllBegin
  <2>1. /\ ChangeActive(NoSlave, link, delay, state, "none") \/ UNCHANGED <<active, link, state>>
        /\ op' = Destroyed \/ op' = [kind |-> "freeall", dev |-> slaves[1]]
        /\ slaves' = slaves \/ (slaves # <<>> /\ slaves' = Tail(slaves))
    BY <1>4 DEF FreeAllBegin, Doing, HasSlaves
  <2>2. op'.kind # "enslave"
    BY <2>1 DEF Destroyed
  <2>3. Listed' \subseteq Listed
    BY <1>0, <2>1, TailMembers DEF Listed
  <2>4. QED BY <1>0, <2>1, <2>2, <2>3, RoleState
<1>5. CASE IoctlMake
  <2> DEFINE new == IF Passive(slaves, active) = NoSlave THEN active ELSE Passive(slaves, active)
  <2>1. /\ ChangeActive(new, link, delay, state, "buffer") /\ op' = op /\ slaves' = slaves /\ HoolockIoctls
    BY <1>5 DEF IoctlMake
  <2>2. new \in Dev \cup {NoSlave}
    BY <1>0, PassiveMember DEF Listed
  <2> HIDE DEF new
  <2>3. QED BY <1>0, <2>1, <2>2, RoleState DEF Listed
<1>6. CASE Open \/ Close \/ IoctlBreak \/ IoctlGetActive \/ Spin
  <2>1. UNCHANGED <<active, link, state, slaves>> /\ (op' = op \/ op' = Spinning)
    BY <1>6 DEF Open, Close, IoctlBreak, IoctlGetActive, Spin, bondVars, slaveVars
  <2>2. op'.kind # "enslave"
    BY <1>0, <2>1 DEF Spinning
  <2>3. QED BY <1>0, <2>1, <2>2, RoleState DEF Listed
<1>7. QED BY <1>1, <1>2, <1>3, <1>4, <1>5, <1>6

(* The steps that touch neither the links nor the states, or those of a    *)
(* slave off the list.                                                     *)
LEMMA OtherState ==
  ASSUME PointersInv, StateInv,
         \/ EnslaveDone \/ EnslaveFails \/ AfterNotify \/ MiiQuit \/ XmitHoolock \/ UNCHANGED vars
         \/ MiiCommitBegin \/ MiiCommitEnd
         \/ \E d \in Dev : SlaveUpDown(d) \/ CarrierChange(d)
  PROVE  StateInv'
<1>1. /\ UNCHANGED <<active, link, state, slaves>>
      /\ op' = op \/ (op.kind # "enslave" /\ op' \in {Idle, Committing})
  BY OpFacts DEF EnslaveDone, EnslaveFails, AfterNotify, MiiQuit, XmitHoolock, vars, SlaveUpDown, CarrierChange,
         slaveVars, bondVars, monVars, MiiCommitBegin, MiiCommitEnd, PointersInv, PointersCore, HandlersInv,
         Committing, Idle
<1>2. CASE op' = op
  BY <1>1, <1>2 DEF StateInv, StateFollowsActive, Listed
<1>3. CASE op.kind # "enslave" /\ op' \in {Idle, Committing}
  <2>1. op'.kind # "enslave" /\ Listed' = Listed /\ NoSlave \in Dev \cup {NoSlave}
    BY <1>1, <1>3 DEF Listed, Idle, Committing
  <2>2. QED BY <1>1, <1>3, <2>1, RoleState DEF PointersInv, PointersCore
<1>4. QED BY <1>1, <1>2, <1>3

(* The successor gets the state with the role.                             *)
LEMMA ReleaseReselectState ==
  ASSUME PointersInv, StateInv, ReleaseReselect, Mode = "activebackup" => UpDelay = 0
  PROVE  StateInv'
<1>0. /\ FieldTypes /\ RolesListed /\ slaves \in Seq(Dev) /\ Listed \in SUBSET Dev
      /\ link \in [Dev -> Link] /\ delay \in [Dev -> Nat] /\ state \in [Dev -> State]
  BY ListedDevices DEF PointersInv, PointersCore, FieldTypes
<1>1. active \in ToSet(slaves) \cup {NoSlave} /\ primary \in ToSet(slaves) \cup {NoSlave}
  BY <1>0 DEF RolesListed, Listed
<1>2. /\ \/ ChangeActive(BestSlave(slaves, primary, link, delay), link, delay, state, "carrier")
         \/ UNCHANGED <<active, link, state>>
      /\ op.kind = "reselect" /\ op' = [kind |-> "release", dev |-> op.dev] /\ slaves' = slaves
  BY DEF ReleaseReselect, SelectActive, Doing
<1>3. Finished = Listed /\ Finished' = Listed' /\ Listed' = Listed /\ op'.kind # "enslave"
  <2>1. op.kind # "enslave" /\ op'.kind # "enslave" /\ Listed' = Listed
    BY <1>2 DEF Listed
  <2>2. QED BY <1>0, <2>1, FinishedFacts
<1>4. Follows(Listed, active, state) /\ Settled(active, link)
  BY <1>3, StateParts
<1>5. Follows(Listed, active', state') /\ Settled(active', link')
  <2>1. CASE ChangeActive(BestSlave(slaves, primary, link, delay), link, delay, state, "carrier")
    BY <1>0, <1>1, <1>4, <2>1, SelectFollows
  <2>2. QED BY <1>2, <1>4, <2>1
<1>6. QED BY <1>3, <1>5 DEF StateInv, StateFollowsActive, Follows, Settled, Finished

(* The freed slave is off the list; 2.6.24 frees it likewise.              *)
LEMMA DiscardState ==
  ASSUME PointersCore, op.dev \notin Listed, StateInv, ReleaseFinish \/ FreeAllNext
  PROVE  StateInv'
<1>0. /\ FieldTypes /\ RolesListed /\ slaves \in Seq(Dev) /\ Listed \in SUBSET Dev
      /\ link \in [Dev -> Link] /\ state \in [Dev -> State] /\ Once(slaves)
  BY ListedDevices DEF PointersCore, FieldTypes, ListedOnce
<1>1. /\ Discard(op.dev) /\ op.kind \in Removing /\ active' = active
      /\ op' = Idle \/ op' = Destroyed \/ op' = [kind |-> "freeall", dev |-> slaves[1]]
      /\ slaves' = slaves \/ (slaves # <<>> /\ slaves' = Tail(slaves))
  BY DEF ReleaseFinish, FreeAllNext, Removing, Doing, HasSlaves, bondVars
<1>2. op.dev \in Dev /\ op.dev \notin Listed /\ op.dev # NoSlave
  BY <1>0, <1>1, OpFacts, NoSlaveAssumption
<1>3. \A s \in Dev : s # op.dev => link'[s] = link[s] /\ state'[s] = state[s]
  BY <1>0, <1>1, <1>2 DEF Discard
<1>4. active \in Listed \cup {NoSlave}
  BY <1>0 DEF RolesListed
<1>5. Listed' \subseteq Listed
  BY <1>0, <1>1, TailMembers DEF Listed
<1>6. op.kind # "enslave" /\ op'.kind # "enslave"
  BY <1>1 DEF Removing, Idle, Destroyed
<1>7. Finished = Listed /\ Finished' = Listed'
  BY <1>0, <1>6, FinishedFacts
<1>8. Follows(Listed', active', state') /\ Settled(active', link')
  <2>1. Follows(Listed, active, state) /\ Settled(active, link)
    BY <1>7, StateParts
  <2>2. \A s \in Listed' : state'[s] = state[s]
    BY <1>0, <1>2, <1>3, <1>5
  <2>3. active # NoSlave => link'[active] = link[active]
    BY <1>0, <1>2, <1>3, <1>4
  <2>4. QED BY <1>1, <1>5, <2>1, <2>2, <2>3, FollowsSame
<1>9. QED BY <1>6, <1>7, <1>8 DEF StateInv, StateFollowsActive, Follows, Settled, Finished

(* The inspection does not take a link from up or fail to another one.     *)
LEMMA InspectState ==
  ASSUME PointersInv, StateInv, MiiInspect
  PROVE  StateInv'
<1>0. /\ FieldTypes /\ active \in Listed \cup {NoSlave} /\ Listed \subseteq Dev
      /\ link \in [Dev -> Link]
  BY ListedDevices DEF PointersInv, PointersCore, FieldTypes, RolesListed
<1>1. /\ link' = [d \in Dev |-> IF d \in Listed THEN Inspected(d).link ELSE link[d]]
      /\ UNCHANGED <<slaves, op, active, state>>
  BY DEF MiiInspect, Listed, bondVars
<1>2. \A s \in Listed : link'[s] = Inspected(s).link
  BY <1>0, <1>1
<1>3. \A s \in Listed : link[s] \in {"UP", "FAIL"} => link'[s] \in {"UP", "FAIL"}
  BY <1>2 DEF Inspected, InspectedUp, Keep, CountDown
<1>4. Settled(active, link) /\ Settled(active, link')
  BY <1>0, <1>3, StateParts DEF Settled
<1>5. QED BY <1>1, <1>4 DEF StateInv, StateFollowsActive, Settled, Listed

(* A turn of the commit loop: the slave it is at becomes the active one,   *)
(* or gets the state of the others, or loses the role with its link.       *)
LEMMA CommitSlaveState ==
  ASSUME PointersInv, StateInv, MiiCommitSlave, Mode = "activebackup" => ProposalsInv /\ UpDelay = 0
  PROVE  StateInv'
<1> DEFINE s   == slaves[pos]
           lnk == [link EXCEPT ![s] = newLink[s]]
           st  == [state EXCEPT ![s] = CommittedState(s)]
<1>0. /\ FieldTypes /\ RolesListed /\ HandlersInv /\ slaves \in Seq(Dev) /\ Listed \in SUBSET Dev
      /\ link \in [Dev -> Link] /\ newLink \in [Dev -> {"UP", "DOWN", "NOCHANGE"}] /\ delay \in [Dev -> Nat]
      /\ state \in [Dev -> State]
      /\ mon = "committing" /\ op = Committing /\ pos \in 1..Len(slaves)
  BY ListedDevices DEF PointersInv, PointersCore, FieldTypes, HandlersInv, MiiCommitSlave
<1>1. s \in Listed /\ s \in Dev
  BY CommitCursor
<1>2. active \in ToSet(slaves) \cup {NoSlave} /\ primary \in ToSet(slaves) \cup {NoSlave}
  BY <1>0 DEF RolesListed, Listed
<1>3. op.kind # "enslave" /\ Finished = Listed
  <2>1. op.kind # "enslave"
    BY <1>0 DEF Committing
  <2>2. QED BY <1>0, <2>1, FinishedFacts
<1>4. Follows(Listed, active, state) /\ Settled(active, link)
  BY <1>3, StateParts
<1>5. /\ \/ UNCHANGED <<active, link, state>>
         \/ /\ newLink[s] # "NOCHANGE" /\ ~FailoverNeeded(s)
            /\ link' = lnk /\ state' = st /\ active' = active
         \/ /\ newLink[s] # "NOCHANGE" /\ FailoverNeeded(s)
            /\ ChangeActive(BestSlave(slaves, primary, lnk, delay), lnk, delay, st, "carrier")
      /\ UNCHANGED <<slaves, op>>
  BY DEF MiiCommitSlave, SelectActive
<1>6. newLink[s] # "NOCHANGE" => lnk \in [Dev -> Link] /\ lnk[s] = newLink[s]
  BY <1>0, <1>1 DEF Link
<1>7. /\ \A t \in Dev : t # s => lnk[t] = link[t]
      /\ st \in [Dev -> State] /\ st[s] = CommittedState(s) /\ \A t \in Dev : t # s => st[t] = state[t]
  <2>1. CommittedState(s) \in State
    BY <1>0, <1>1 DEF CommittedState, State
  <2>2. QED BY <1>0, <1>1, <2>1
<1>8. Mode = "activebackup" /\ newLink[s] = "UP" => s # active
  <2> SUFFICES ASSUME Mode = "activebackup", newLink[s] = "UP" PROVE s # active
    OBVIOUS
  <2>1. Proposed(s) /\ UpDelay = 0
    BY <1>0 DEF ProposalsInv, Pending
  <2>2. link[s] = "BACK"
    BY <2>1 DEF Proposed
  <2>3. s # NoSlave
    BY <1>1, NoSlaveAssumption
  <2>4. QED BY <1>4, <2>2, <2>3 DEF Settled
<1> HIDE DEF s, lnk, st
<1>9. Follows(Listed, active', state') /\ Settled(active', link')
  <2>1. CASE UNCHANGED <<active, link, state>>
    BY <1>4, <2>1
  <2>2. CASE /\ newLink[s] # "NOCHANGE" /\ ~FailoverNeeded(s)
             /\ link' = lnk /\ state' = st /\ active' = active
    <3>1. Mode = "activebackup" => s # active /\ (newLink[s] = "UP" => s # primary)
      BY <1>0, <1>1, <1>8, <2>2 DEF FailoverNeeded
    <3>2. Mode = "activebackup" => st[s] = "BACKUP"
      BY <1>0, <1>1, <1>7, <2>2, <3>1 DEF CommittedState
    <3>3. Mode # "activebackup" => st[s] = "ACTIVE"
      BY <1>1, <1>4, <1>7 DEF CommittedState, Follows
    <3>4. Follows(Listed, active, st)
      BY <1>0, <1>4, <1>7, <3>1, <3>2, <3>3 DEF Follows
    <3>5. Settled(active, lnk)
      BY <1>0, <1>2, <1>4, <1>7, <3>1 DEF Settled, Listed
    <3>6. QED BY <2>2, <3>4, <3>5
  <2>3. CASE /\ newLink[s] # "NOCHANGE" /\ FailoverNeeded(s)
             /\ ChangeActive(BestSlave(slaves, primary, lnk, delay), lnk, delay, st, "carrier")
    <3>1. CASE Follows(Listed, active, st)
      BY <1>0, <1>2, <1>6, <1>7, <2>3, <3>1, SelectFollows
    <3>2. CASE ~Follows(Listed, active, st)
      <4>1. Mode = "activebackup"
        BY <1>0, <1>4, <1>7, <3>2 DEF Follows, CommittedState
      <4>2. newLink[s] = "DOWN" /\ s = active
        <5>1. CASE newLink[s] = "UP"
          <6>1. s # active
            BY <1>8, <4>1, <5>1
          <6>2. st[s] # "ACTIVE"
            BY <1>1, <1>4, <1>7, <4>1, <5>1, <6>1 DEF CommittedState, Follows
          <6>3. QED BY <1>0, <1>4, <1>7, <3>2, <4>1, <6>1, <6>2 DEF Follows
        <5>2. QED BY <2>3, <5>1 DEF FailoverNeeded
      <4>3. lnk[active] = "DOWN" /\ active \in Dev
        BY <1>1, <1>6, <4>2
      <4>4. \A t \in Listed : t # active => st[t] # "ACTIVE"
        BY <1>0, <1>4, <1>7, <4>1, <4>2 DEF Follows
      <4>5. /\ \A t \in ToSet(slaves) : t # active => st[t] # "ACTIVE"
            /\ lnk \in [Dev -> Link] /\ UpDelay = 0 /\ delay \in [Dev -> Nat] /\ slaves \in Seq(Dev)
            /\ ChangeActive(BestSlave(slaves, primary, lnk, delay), lnk, delay, st, "carrier")
        BY <1>0, <1>6, <2>3, <4>1, <4>4 DEF Listed
      <4>6. Follows(ToSet(slaves), active', state') /\ Settled(active', link')
        BY <1>2, <1>7, <4>1, <4>3, <4>5, DeposedFollows
      <4>7. QED BY <4>6 DEF Listed
    <3>3. QED BY <3>1, <3>2
  <2>4. QED BY <1>5, <2>1, <2>2, <2>3
<1>10. op'.kind # "enslave" /\ Finished' = Listed
  <2>1. op'.kind # "enslave" /\ Listed' = Listed
    BY <1>3, <1>5 DEF Listed
  <2>2. QED BY <1>0, <2>1, FinishedFacts
<1>11. QED BY <1>9, <1>10 DEF StateInv, StateFollowsActive, Follows, Settled, Finished

(* What StateFollowsActive needs in active-backup mode.                    *)
StateAssumption == Mode = "activebackup" => UpDelay = 0 /\ ~RtnlOvertake /\ ~HoolockIoctls

(* Every step keeps the states.                                            *)
LEMMA StateNext ==
  ASSUME PointersInv, StateInv, StateAssumption, Mode = "activebackup" => ProposalsInv, [Next]_vars
  PROVE  StateInv'
<1>0. Mode = "activebackup" => UpDelay = 0 /\ ProposalsInv /\ ~HoolockIoctls
  BY DEF StateAssumption
<1>1. CASE HandlerStep
  <2>1. ReleaseFinish \/ FreeAllNext => PointersCore /\ op.dev \notin Listed
    BY DEF ReleaseFinish, FreeAllNext, PointersInv, HandlersInv, Removing
  <2>2. QED BY <1>0, <1>1, <2>1, EnslaveSetupState, OtherState, ReleaseReselectState, DiscardState DEF HandlerStep
<1>2. CASE MonitorStep
  BY <1>0, <1>2, InspectState, CommitSlaveState, OtherState DEF MonitorStep
<1>3. CASE MiiCommitBegin
  BY <1>3, OtherState
<1>4. CASE AdminBond
  BY <1>0, <1>4, AdminState DEF AdminBond
<1>5. CASE \E d \in Dev : AdminStep(d) \/ CarrierChange(d)
  BY <1>0, <1>5, EnslaveAttachState, AdminState, OtherState DEF AdminStep
<1>6. CASE XmitHoolock \/ UNCHANGED vars
  BY <1>6, OtherState
<1>7. QED BY <1>1, <1>2, <1>3, <1>4, <1>5, <1>6 DEF Next, Stopped

(* Every slave that bond_enslave has finished with has state ACTIVE in the *)
(* modes where all the slaves receive; in active-backup mode the active    *)
(* slave, and it alone, has it.  There the driver has to be without an     *)
(* updelay and without the hoolock ioctls, which may make a slave active   *)
(* whose link is not up, and nobody may overtake the monitor: the commit   *)
(* of an old proposal would turn the active slave into a backup.           *)
THEOREM StatesFollow ==
  ASSUME StateAssumption
  PROVE  Spec => []StateFollowsActive
<1> DEFINE Inv == /\ PointersInv /\ mon \in {"idle", "waiting", "committing"} /\ StateInv
                  /\ Mode = "activebackup" => ProposalsInv
<1>1. Init => Inv
  <2> SUFFICES ASSUME Init PROVE Inv
    OBVIOUS
  <2>1. mon = "idle" /\ op.kind = "none" /\ active = NoSlave /\ Listed = {}
    BY DEF Init, Idle, Listed, ToSet
  <2>2. ProposalsInv
    BY <2>1 DEF ProposalsInv, Pending
  <2>3. StateInv
    BY <2>1 DEF StateInv, StateFollowsActive
  <2>4. QED BY <2>1, <2>2, <2>3, PointersInit
<1>2. Inv /\ [Next]_vars => Inv'
  <2> SUFFICES ASSUME Inv, [Next]_vars PROVE Inv'
    OBVIOUS
  <2>1. PointersInv' /\ StateInv' /\ mon' \in {"idle", "waiting", "committing"}
    BY PointersNext, PlacesStep, StateNext
  <2>2. Mode = "activebackup" => ProposalsInv'
    BY ProposalsNext DEF StateAssumption
  <2>3. QED BY <2>1, <2>2
<1>3. Inv => StateFollowsActive
  BY DEF StateInv
<1>4. QED BY <1>1, <1>2, <1>3, PTL DEF Spec
============================================================================
