--------------------------- MODULE HandoverProofs ----------------------------
(***************************************************************************)
(* Theorems about the handover, for every list of slaves and any number of *)
(* packets.  LosslessInv is inductive if the timing assumptions hold; its  *)
(* proof has one lemma per action, with one step per conjunct.             *)
(***************************************************************************)
EXTENDS Handover, SlaveListProofs

(* A connection carries one message at a time.                            *)
LEMMA OneMessage ==
  ASSUME NEW m
  PROVE  /\ <<m>> # <<>> /\ Head(<<m>>) = m /\ Tail(<<m>>) = <<>>
         /\ Append(<<>>, m) = <<m>>
  OBVIOUS

(* A request is a command of the client, its answer or nothing.            *)
LEMMA RequestKinds ==
  /\ NoRequest # Answer /\ NoRequest.verb = "none" /\ Answer.verb = "executed"
  /\ \A v, d : [verb |-> v, dev |-> d].verb = v /\ [verb |-> v, dev |-> d].dev = d
  BY DEF NoRequest, Answer

(* What taking, adding and joining do to the type of a sequence.           *)
LEMMA SequenceTypes ==
  ASSUME NEW S, NEW s \in Seq(S)
  PROVE  /\ s # <<>> => Head(s) \in S /\ Tail(s) \in Seq(S)
         /\ \A x \in S : Append(s, x) \in Seq(S)
         /\ \A t \in Seq(S) : s \o t \in Seq(S)
  OBVIOUS

(* The client connects its active slave.                                   *)
LEMMA FirstMakeProgram ==
  ASSUME ProgramInv, FirstMake
  PROVE  ProgramInv'
<1> USE DEF ProgramInv, FirstMake
<1>1. TypeOK'
  BY DEF TypeOK, PlumberTypeOK, Command, Place, bondVars, noxVars, netVars, Ask
<1>2. RequestInv'
  BY DEF RequestInv, Ask
<1>3. MessagesInv'
  BY DEF MessagesInv, noxVars
<1>4. KnownInv'
  BY DEF KnownInv, TypeOK
<1>5. QuietInv'
  BY DEF QuietInv, bondVars, noxVars
<1>6. QED BY <1>1, <1>2, <1>3, <1>4, <1>5

(* The client asks for the active slave,                                   *)
LEMMA GetActiveProgram ==
  ASSUME ProgramInv, GetActive
  PROVE  ProgramInv'
<1> USE DEF ProgramInv, GetActive
<1>1. TypeOK'
  BY DEF TypeOK, PlumberTypeOK, Place, bondVars, plumberVars, noxVars, netVars
<1>2. RequestInv'
  BY DEF RequestInv, plumberVars
<1>3. MessagesInv'
  BY DEF MessagesInv, noxVars
<1>4. KnownInv'
  BY DEF KnownInv, TypeOK
<1>5. QuietInv'
  BY DEF QuietInv, bondVars, noxVars
<1>6. QED BY <1>1, <1>2, <1>3, <1>4, <1>5

(* and for the other one.                                                  *)
LEMMA GetPassiveProgram ==
  ASSUME ProgramInv, GetPassive
  PROVE  ProgramInv'
<1> USE DEF ProgramInv, GetPassive
<1>1. TypeOK'
  <2>1. pas' \in Dev \cup {NoSlave} /\ pc' \in Place
    BY PassiveMember, SlavesAssumption DEF Place, ToSet
  <2> QED BY <2>1 DEF TypeOK, PlumberTypeOK, bondVars, plumberVars, noxVars, netVars
<1>2. RequestInv'
  BY DEF RequestInv, plumberVars
<1>3. MessagesInv'
  BY DEF MessagesInv, noxVars
<1>4. KnownInv'
  <2>1. pas' # NoSlave => pas' \in Dev
    BY PassiveMember, SlavesAssumption DEF ToSet
  <2>2. QED BY <2>1 DEF KnownInv
<1>5. QuietInv'
  BY DEF QuietInv, bondVars, noxVars
<1>6. QED BY <1>1, <1>2, <1>3, <1>4, <1>5

(* The user starts a handover, or quits.                                   *)
LEMMA MakeReqProgram ==
  ASSUME ProgramInv, MakeReq
  PROVE  ProgramInv'
<1> USE DEF ProgramInv, MakeReq
<1>1. TypeOK'
  BY DEF TypeOK, PlumberTypeOK, Place, bondVars, plumberVars, netVars
<1>2. RequestInv'
  BY DEF RequestInv, plumberVars
<1>3. MessagesInv'
  BY DEF MessagesInv
<1>4. KnownInv'
  BY DEF KnownInv
<1>5. QuietInv'
  BY DEF QuietInv, bondVars
<1>6. QED BY <1>1, <1>2, <1>3, <1>4, <1>5

(* No message is on its way when the client quits.                         *)
LEMMA QuitProgram ==
  ASSUME ProgramInv, Quit
  PROVE  ProgramInv'
<1> USE DEF ProgramInv, Quit
<1>1. TypeOK'
  BY DEF TypeOK, PlumberTypeOK, Place, bondVars, plumberVars, noxVars, netVars
<1>2. RequestInv'
  BY DEF RequestInv, plumberVars
<1>3. MessagesInv'
  BY DEF MessagesInv, noxVars
<1>4. KnownInv'
  BY DEF KnownInv
<1>5. QuietInv'
  BY DEF QuietInv, bondVars, noxVars
<1>6. QED BY <1>1, <1>2, <1>3, <1>4, <1>5

(* The new slave is connected.                                             *)
LEMMA MakeAckProgram ==
  ASSUME ProgramInv, MakeAck
  PROVE  ProgramInv'
<1> USE DEF ProgramInv, MakeAck
<1>1. TypeOK'
  BY DEF TypeOK, PlumberTypeOK, KnownInv, Command, Place, bondVars, netVars, Ask
<1>2. RequestInv'
  BY DEF RequestInv, Ask
<1>3. MessagesInv'
  <2>1. toNox = <<>> /\ toClient = <<"MAKE_ACK">> /\ nox # "flushing"
    BY DEF MessagesInv
  <2>2. toNox' = <<>> /\ toClient' = <<>> /\ nox' # "flushing" /\ pc' = "plumb_make"
    BY <2>1
  <2> QED BY <2>2 DEF MessagesInv
<1>4. KnownInv'
  BY DEF KnownInv
<1>5. QuietInv'
  BY DEF QuietInv, bondVars
<1>6. QED BY <1>1, <1>2, <1>3, <1>4, <1>5

(* The plumber answers only a client that waits for it.                    *)
LEMMA PlumberAnswersProgram ==
  ASSUME ProgramInv, PlumberAnswers
  PROVE  ProgramInv'
<1> USE DEF ProgramInv, PlumberAnswers
<1>0. \/ pc = "plumb_make" /\ pc' = "make"
      \/ pc \in {"plumb_first", "plumb_break"} /\ pc' = "loop"
  BY RequestKinds DEF RequestInv
<1>1. TypeOK'
  BY <1>0 DEF TypeOK, PlumberTypeOK, Place, bondVars, noxVars, netVars
<1>2. RequestInv'
  BY RequestKinds DEF RequestInv
<1>3. MessagesInv'
  <2>1. toNox = <<>> /\ toClient = <<>> /\ nox # "flushing"
    BY <1>0 DEF MessagesInv
  <2>2. QED BY <1>0, <2>1 DEF MessagesInv, noxVars
<1>4. KnownInv'
  BY <1>0 DEF KnownInv
<1>5. QuietInv'
  BY <1>0 DEF QuietInv, bondVars, noxVars
<1>6. QED BY <1>1, <1>2, <1>3, <1>4, <1>5

(* MAKE exchanges the roles: the old active slave is act, the new one pas. *)
LEMMA BondMakeProgram ==
  ASSUME ProgramInv, BondMake
  PROVE  ProgramInv'
<1> USE DEF ProgramInv, BondMake
<1>1. TypeOK'
  <2>1. active' \in Dev
    BY PassiveMember, SlavesAssumption DEF TypeOK, ToSet
  <2>2. QED BY <2>1 DEF TypeOK, PlumberTypeOK, Place, plumberVars, noxVars, netVars
<1>2. RequestInv'
  BY DEF RequestInv, plumberVars
<1>3. MessagesInv'
  BY DEF MessagesInv, noxVars
<1>4. KnownInv'
  BY DEF KnownInv
<1>5. QuietInv'
  BY DEF QuietInv
<1>6. QED BY <1>1, <1>2, <1>3, <1>4, <1>5

(* The flow is rerouted when BREAK_REQ is sent.                            *)
LEMMA BreakReqProgram ==
  ASSUME ProgramInv, BreakReq
  PROVE  ProgramInv'
<1> USE DEF ProgramInv, BreakReq
<1>1. TypeOK'
  BY DEF TypeOK, PlumberTypeOK, Place, bondVars, plumberVars, netVars
<1>2. RequestInv'
  BY DEF RequestInv, plumberVars
<1>3. MessagesInv'
  BY DEF MessagesInv
<1>4. KnownInv'
  BY DEF KnownInv
<1>5. QuietInv'
  <2>1. toNox' = <<"BREAK_REQ">>
    BY DEF MessagesInv
  <2>2. QED BY <2>1 DEF QuietInv, bondVars
<1>6. QED BY <1>1, <1>2, <1>3, <1>4, <1>5

(* BREAK_ACK comes after the flush.                                        *)
LEMMA BondBreakProgram ==
  ASSUME ProgramInv, BondBreak
  PROVE  ProgramInv'
<1> USE DEF ProgramInv, BondBreak
<1>1. TypeOK'
  <2>1. received' \in Seq(Packet) /\ buffer' \in Seq(Packet)
    BY DEF TypeOK
  <2>2. toClient' \in Seq({"MAKE_ACK", "BREAK_ACK"})
    BY DEF TypeOK
  <2> QED BY <2>1, <2>2 DEF TypeOK, PlumberTypeOK, Place, plumberVars
<1>2. RequestInv'
  BY DEF RequestInv, plumberVars
<1>3. MessagesInv'
  <2>1. toNox = <<>> /\ toClient = <<"BREAK_ACK">> /\ nox # "flushing"
    BY DEF MessagesInv
  <2>2. toNox' = <<>> /\ toClient' = <<>> /\ nox' # "flushing" /\ pc' = "break"
    BY <2>1
  <2> QED BY <2>2 DEF MessagesInv
<1>4. KnownInv'
  BY DEF KnownInv
<1>5. QuietInv'
  BY DEF QuietInv, MessagesInv
<1>6. QED BY <1>1, <1>2, <1>3, <1>4, <1>5

(* The old slave is disconnected.                                          *)
LEMMA PlumbBreakProgram ==
  ASSUME ProgramInv, PlumbBreak
  PROVE  ProgramInv'
<1> USE DEF ProgramInv, PlumbBreak
<1>1. TypeOK'
  BY DEF TypeOK, PlumberTypeOK, KnownInv, Command, Place, bondVars, noxVars, netVars, Ask
<1>2. RequestInv'
  BY DEF RequestInv, Ask
<1>3. MessagesInv'
  BY DEF MessagesInv, noxVars
<1>4. KnownInv'
  BY DEF KnownInv
<1>5. QuietInv'
  BY DEF QuietInv, bondVars, noxVars
<1>6. QED BY <1>1, <1>2, <1>3, <1>4, <1>5

(* A make forks where there was no process; a break hits an unused path.   *)
LEMMA PlumberServesProgram ==
  ASSUME ProgramInv, PlumberServes
  PROVE  ProgramInv'
<1> USE DEF ProgramInv, PlumberServes
<1>1. TypeOK'
  BY DEF TypeOK, PlumberTypeOK, clientVars, bondVars, noxVars, netVars, ServeMake, Fork, ServeBreak,
      DpipeConnects
<1>2. RequestInv'
  BY RequestKinds DEF RequestInv, clientVars, ServeMake, Fork, ServeBreak, DpipeConnects
<1>3. MessagesInv'
  BY DEF MessagesInv, clientVars, noxVars
<1>4. KnownInv'
  BY DEF KnownInv, clientVars
<1>5. QuietInv'
  BY DEF QuietInv, clientVars, bondVars, noxVars
<1>6. QED BY <1>1, <1>2, <1>3, <1>4, <1>5

(* The controller puts the client in transition,                           *)
LEMMA NoxMakeReqProgram ==
  ASSUME ProgramInv, NoxMakeReq
  PROVE  ProgramInv'
<1> USE DEF ProgramInv, NoxMakeReq
<1>1. TypeOK'
  BY DEF TypeOK, PlumberTypeOK, clientVars, bondVars, plumberVars, netVars
<1>2. RequestInv'
  BY DEF RequestInv, clientVars, plumberVars
<1>3. MessagesInv'
  BY OneMessage DEF MessagesInv, clientVars
<1>4. KnownInv'
  BY DEF KnownInv, clientVars
<1>5. QuietInv'
  BY DEF QuietInv, MessagesInv, clientVars, bondVars
<1>6. QED BY <1>1, <1>2, <1>3, <1>4, <1>5

(* takes it out of transition                                              *)
LEMMA NoxBreakReqProgram ==
  ASSUME ProgramInv, NoxBreakReq
  PROVE  ProgramInv'
<1> USE DEF ProgramInv, NoxBreakReq
<1>1. TypeOK'
  <2>1. toNox' \in Seq({"MAKE_REQ", "BREAK_REQ"})
    BY DEF TypeOK
  <2> QED BY <2>1 DEF TypeOK, PlumberTypeOK, clientVars, bondVars, plumberVars, netVars
<1>2. RequestInv'
  BY DEF RequestInv, clientVars, plumberVars
<1>3. MessagesInv'
  BY DEF MessagesInv, clientVars
<1>4. KnownInv'
  BY DEF KnownInv, clientVars
<1>5. QuietInv'
  BY DEF QuietInv, clientVars, bondVars
<1>6. QED BY <1>1, <1>2, <1>3, <1>4, <1>5

(* and acknowledges when the old path has been flushed.                    *)
LEMMA NoxBreakAckProgram ==
  ASSUME ProgramInv, NoxBreakAck
  PROVE  ProgramInv'
<1> USE DEF ProgramInv, NoxBreakAck
<1>1. TypeOK'
  BY DEF TypeOK, PlumberTypeOK, clientVars, bondVars, plumberVars, netVars
<1>2. RequestInv'
  BY DEF RequestInv, clientVars, plumberVars
<1>3. MessagesInv'
  BY OneMessage DEF MessagesInv, clientVars
<1>4. KnownInv'
  BY DEF KnownInv, clientVars
<1>5. QuietInv'
  BY DEF QuietInv, clientVars, bondVars
<1>6. QED BY <1>1, <1>2, <1>3, <1>4, <1>5

(* If the controller dies what it has sent still counts.                   *)
LEMMA ControllerDiesProgram ==
  ASSUME ProgramInv, ControllerDies, UNCHANGED <<clientVars, netVars>>
  PROVE  ProgramInv'
<1> USE DEF ProgramInv, ControllerDies
<1>1. TypeOK'
  BY DEF TypeOK, PlumberTypeOK, clientVars, bondVars, plumberVars, netVars
<1>2. RequestInv'
  BY DEF RequestInv, clientVars, plumberVars
<1>3. MessagesInv'
  BY DEF MessagesInv, clientVars
<1>4. KnownInv'
  BY DEF KnownInv, clientVars
<1>5. QuietInv'
  BY DEF QuietInv, clientVars, bondVars
<1>6. QED BY <1>1, <1>2, <1>3, <1>4, <1>5

(* A packet is sent on the path in use.                                    *)
LEMMA SendProgram ==
  ASSUME ProgramInv, Send
  PROVE  ProgramInv'
<1> USE DEF ProgramInv, Send
<1>1. TypeOK'
  BY BoundAssumption DEF TypeOK, PlumberTypeOK, Packet, clientVars, bondVars, plumberVars,
      noxVars
<1>2. RequestInv'
  BY DEF RequestInv, clientVars, plumberVars
<1>3. MessagesInv'
  BY DEF MessagesInv, clientVars, noxVars
<1>4. KnownInv'
  BY DEF KnownInv, clientVars
<1>5. QuietInv'
  BY DEF QuietInv, clientVars, bondVars, noxVars
<1>6. QED BY <1>1, <1>2, <1>3, <1>4, <1>5

(* A packet arrives at a connected pipe.                                   *)
LEMMA ArriveProgram ==
  ASSUME ProgramInv, NEW d \in Dev, Arrive(d)
  PROVE  ProgramInv'
<1> USE DEF ProgramInv, Arrive
<1>1. TypeOK'
  <2>1. path[d] \in Seq(Packet) /\ Head(path[d]) \in Packet /\ Tail(path[d]) \in Seq(Packet)
    BY DEF TypeOK
  <2>2. path' \in [Dev -> Seq(Packet)] /\ lost' \subseteq Packet
    BY <2>1 DEF TypeOK
  <2>3. buffer' \in Seq(Packet) /\ received' \in Seq(Packet)
    BY <2>1 DEF TypeOK
  <2> QED BY <2>2, <2>3 DEF TypeOK, PlumberTypeOK, clientVars, plumberVars, noxVars
<1>2. RequestInv'
  BY DEF RequestInv, clientVars, plumberVars
<1>3. MessagesInv'
  BY DEF MessagesInv, clientVars, noxVars
<1>4. KnownInv'
  BY DEF KnownInv, clientVars
<1>5. QuietInv'
  BY DEF QuietInv, HeldBack, DevAddress, SlaveAddress, clientVars, noxVars
<1>6. QED BY <1>1, <1>2, <1>3, <1>4, <1>5

(* The flow is rerouted to a connected pipe.                               *)
LEMMA UplinkProgram ==
  ASSUME ProgramInv, Uplink
  PROVE  ProgramInv'
<1> USE DEF ProgramInv, Uplink
<1>1. TypeOK'
  BY DEF TypeOK, PlumberTypeOK, clientVars, bondVars, plumberVars, noxVars
<1>2. RequestInv'
  BY DEF RequestInv, clientVars, plumberVars
<1>3. MessagesInv'
  BY DEF MessagesInv, clientVars, noxVars
<1>4. KnownInv'
  BY DEF KnownInv, clientVars
<1>5. QuietInv'
  BY DEF QuietInv, clientVars, bondVars, noxVars
<1>6. QED BY <1>1, <1>2, <1>3, <1>4, <1>5

(* A dpipe that dies and a link that fails: the client notices later.      *)
LEMMA PipeFailsProgram ==
  ASSUME ProgramInv, PipeFails, UNCHANGED <<clientVars, netVars>>
  PROVE  ProgramInv'
<1> USE DEF ProgramInv, PipeFails, DpipeDies, clientVars, bondVars, noxVars, netVars
<1>1. TypeOK'
  BY DEF TypeOK, PlumberTypeOK
<1>2. RequestInv' /\ MessagesInv' /\ KnownInv' /\ QuietInv'
  BY DEF RequestInv, MessagesInv, KnownInv, QuietInv
<1>3. QED BY <1>1, <1>2

LEMMA FailoverProgram ==
  ASSUME ProgramInv, NEW d \in Dev, Failover(d), UNCHANGED <<clientVars, netVars>>
  PROVE  ProgramInv'
<1> USE DEF ProgramInv, Failover, clientVars, plumberVars, noxVars, netVars
<1>1. TypeOK'
  BY DEF TypeOK, PlumberTypeOK
<1>2. RequestInv' /\ MessagesInv' /\ KnownInv' /\ QuietInv'
  BY DEF RequestInv, MessagesInv, KnownInv, QuietInv
<1>3. QED BY <1>1, <1>2

(* Nothing is connected and nothing is sent before the first make.         *)
LEMMA InitiallyProgram ==
  ASSUME Init
  PROVE  ProgramInv
<1> USE DEF Init
<1>1. active \in Dev
  BY SlavesAssumption
<1>2. \A S : <<>> \in Seq(S)
  OBVIOUS
<1>3. TypeOK
  <2>1. path \in [Dev -> Seq(Packet)] /\ received \in Seq(Packet) /\ buffer \in Seq(Packet)
    BY <1>2
  <2>2. toNox \in Seq({"MAKE_REQ", "BREAK_REQ"}) /\ toClient \in Seq({"MAKE_ACK", "BREAK_ACK"})
    BY <1>2
  <2>3. PlumberTypeOK
    BY DEF PlumberTypeOK, PlumberInit
  <2>4. pc \in Place /\ {act, pas} \subseteq Dev \cup {NoSlave} /\ route \in Dev \cup {NoSlave}
    BY DEF Place
  <2>5. sent \in 0..MaxPackets /\ lost \subseteq Packet
    BY BoundAssumption
  <2>6. QED BY <1>1, <2>1, <2>2, <2>3, <2>4, <2>5 DEF TypeOK
<1>4. RequestInv
  BY RequestKinds DEF RequestInv, PlumberInit
<1>5. MessagesInv /\ KnownInv /\ QuietInv
  BY DEF MessagesInv, KnownInv, QuietInv
<1>6. QED BY <1>3, <1>4, <1>5 DEF ProgramInv

(* Every step keeps the program's invariant, whatever the timing and       *)
(* whatever fails.                                                         *)
LEMMA StepProgram ==
  ASSUME ProgramInv, [Next]_vars
  PROVE  ProgramInv'
<1>1. CASE UNCHANGED vars
  BY <1>1 DEF ProgramInv, vars, clientVars, bondVars, plumberVars, noxVars, netVars, TypeOK,
      PlumberTypeOK, RequestInv, MessagesInv, KnownInv, QuietInv
<1>2. CASE ClientStep
  BY <1>2, FirstMakeProgram, GetActiveProgram, GetPassiveProgram, MakeAckProgram,
      PlumberAnswersProgram, BondMakeProgram, BreakReqProgram, BondBreakProgram,
      PlumbBreakProgram DEF ClientStep
<1>3. CASE MakeReq \/ Quit \/ PlumberServes
  BY <1>3, MakeReqProgram, QuitProgram, PlumberServesProgram
<1>4. CASE NoxStep
  BY <1>4, NoxMakeReqProgram, NoxBreakReqProgram, NoxBreakAckProgram DEF NoxStep
<1>5. CASE NetStep \/ Send
  BY <1>5, UplinkProgram, ArriveProgram, SendProgram DEF NetStep
<1>6. CASE Failure
  BY <1>6, PipeFailsProgram, FailoverProgram, ControllerDiesProgram DEF Failure
<1>7. QED BY <1>1, <1>2, <1>3, <1>4, <1>5, <1>6 DEF Next

(* The invariant of the client program, for all values of the constants.   *)
THEOREM ProgramInvariant == Spec => []ProgramInv
<1>1. Init => ProgramInv
  BY InitiallyProgram
<1>2. ProgramInv /\ [Next]_vars => ProgramInv'
  BY StepProgram
<1>3. QED BY <1>1, <1>2, PTL DEF Spec

(* Every variable has its type.                                            *)
THEOREM HandoverTypes == Spec => []TypeOK
<1>1. ProgramInv => TypeOK
  BY DEF ProgramInv
<1>2. QED BY <1>1, ProgramInvariant, PTL

(* The invariant leaves nothing of the last handover.                      *)
LEMMA ProgramQuiet == ProgramInv => QuietBetween
  BY DEF ProgramInv, QuietBetween, RequestInv, MessagesInv, QuietInv

(* Between two handovers nothing is left of the last one, whatever fails   *)
(* (main of hoolock_client.cc, bond_ioctl_break).                          *)
THEOREM Quiet == Spec => []QuietBetween
  BY ProgramQuiet, ProgramInvariant, PTL

-------------------------------------------------------------------------------
(* The client connects its active slave.                                   *)
LEMMA FirstMakeLossless ==
  ASSUME LosslessInv, Reliable, FirstMake
  PROVE  LosslessInv'
<1> USE DEF LosslessInv, ProgramInv, FirstMake
<1>1. ProgramInv'
  BY FirstMakeProgram
<1>2. NothingLost'
  BY DEF NothingLost, netVars
<1>3. PipesInv'
  BY DEF PipesInv, netVars, Ask
<1>4. RolesInv'
  BY DEF RolesInv, Chosen, After, bondVars
<1>5. RouteInv'
  BY DEF RouteInv
<1>6. PlumbedInv'
  BY DEF PlumbedInv, Ask, bondVars
<1>7. QED BY <1>1, <1>2, <1>3, <1>4, <1>5, <1>6

(* The client asks for the active slave,                                   *)
LEMMA GetActiveLossless ==
  ASSUME LosslessInv, Reliable, GetActive
  PROVE  LosslessInv'
<1> USE DEF LosslessInv, ProgramInv, GetActive
<1>1. ProgramInv'
  BY GetActiveProgram
<1>2. NothingLost'
  BY DEF NothingLost, netVars
<1>3. PipesInv'
  BY DEF PipesInv, netVars, plumberVars
<1>4. RolesInv'
  BY DEF RolesInv, Chosen, After, bondVars
<1>5. RouteInv'
  BY DEF RouteInv
<1>6. PlumbedInv'
  BY DEF PlumbedInv, bondVars, plumberVars
<1>7. QED BY <1>1, <1>2, <1>3, <1>4, <1>5, <1>6

(* and for the other one.                                                  *)
LEMMA GetPassiveLossless ==
  ASSUME LosslessInv, Reliable, GetPassive
  PROVE  LosslessInv'
<1> USE DEF LosslessInv, ProgramInv, GetPassive
<1>1. ProgramInv'
  BY GetPassiveProgram
<1>2. NothingLost'
  BY DEF NothingLost, netVars
<1>3. PipesInv'
  BY DEF PipesInv, netVars, plumberVars
<1>4. RolesInv'
  BY DEF RolesInv, Before, Chosen, After, bondVars
<1>5. RouteInv'
  BY DEF RouteInv
<1>6. PlumbedInv'
  BY DEF PlumbedInv, bondVars, plumberVars
<1>7. QED BY <1>1, <1>2, <1>3, <1>4, <1>5, <1>6

(* The user starts a handover, or quits.                                   *)
LEMMA MakeReqLossless ==
  ASSUME LosslessInv, Reliable, MakeReq
  PROVE  LosslessInv'
<1> USE DEF LosslessInv, ProgramInv, MakeReq
<1>1. ProgramInv'
  BY MakeReqProgram
<1>2. NothingLost'
  BY DEF NothingLost, netVars
<1>3. PipesInv'
  BY DEF PipesInv, netVars, plumberVars
<1>4. RolesInv'
  BY DEF RolesInv, Before, Chosen, After, bondVars
<1>5. RouteInv'
  BY DEF RouteInv
<1>6. PlumbedInv'
  BY DEF PlumbedInv, bondVars, plumberVars
<1>7. QED BY <1>1, <1>2, <1>3, <1>4, <1>5, <1>6

(* No message is on its way when the client quits.                         *)
LEMMA QuitLossless ==
  ASSUME LosslessInv, Reliable, Quit
  PROVE  LosslessInv'
<1> USE DEF LosslessInv, ProgramInv, Quit
<1>1. ProgramInv'
  BY QuitProgram
<1>2. NothingLost'
  BY DEF NothingLost, netVars
<1>3. PipesInv'
  BY DEF PipesInv, netVars, plumberVars
<1>4. RolesInv'
  BY DEF RolesInv, Before, Chosen, After
<1>5. RouteInv'
  BY DEF RouteInv
<1>6. PlumbedInv'
  BY DEF PlumbedInv, bondVars, plumberVars
<1>7. QED BY <1>1, <1>2, <1>3, <1>4, <1>5, <1>6

(* The new slave is connected.                                             *)
LEMMA MakeAckLossless ==
  ASSUME LosslessInv, Reliable, MakeAck
  PROVE  LosslessInv'
<1> USE DEF LosslessInv, ProgramInv, MakeAck
<1>1. ProgramInv'
  BY MakeAckProgram
<1>2. NothingLost'
  BY DEF NothingLost, netVars
<1>3. PipesInv'
  BY DEF PipesInv, netVars, Ask
<1>4. RolesInv'
  BY DEF RolesInv, Before, Chosen, After, bondVars
<1>5. RouteInv'
  BY DEF RouteInv
<1>6. PlumbedInv'
  <2>1. pas \in Served
    BY PassiveMember, SlavesAssumption DEF RolesInv, Chosen, Reliable
  <2>2. QED BY <2>1 DEF PlumbedInv, Ask, bondVars
<1>7. QED BY <1>1, <1>2, <1>3, <1>4, <1>5, <1>6

(* The plumber answers only a client that waits for it.                    *)
LEMMA PlumberAnswersLossless ==
  ASSUME LosslessInv, Reliable, PlumberAnswers
  PROVE  LosslessInv'
<1> USE DEF LosslessInv, ProgramInv, PlumberAnswers
<1>0. \/ pc = "plumb_make" /\ pc' = "make"
      \/ pc \in {"plumb_first", "plumb_break"} /\ pc' = "loop"
  BY RequestKinds DEF RequestInv
<1>1. ProgramInv'
  BY PlumberAnswersProgram
<1>2. NothingLost'
  BY DEF NothingLost, netVars
<1>3. PipesInv'
  BY DEF PipesInv, netVars
<1>4. RolesInv'
  BY <1>0 DEF RolesInv, Before, Chosen, After, bondVars
<1>5. RouteInv'
  BY <1>0 DEF RouteInv
<1>6. PlumbedInv'
  <2>1. request.verb # "make"
    BY RequestKinds
  <2>2. request # [verb |-> "make", dev |-> active] /\ request # [verb |-> "make", dev |-> pas]
    BY <2>1
  <2>3. request'.verb # "make"
    BY RequestKinds
  <2>4. QED BY <1>0, <2>2, <2>3 DEF PlumbedInv, bondVars
<1>7. QED BY <1>1, <1>2, <1>3, <1>4, <1>5, <1>6

(* MAKE exchanges the roles: the old active slave is act, the new one pas. *)
LEMMA BondMakeLossless ==
  ASSUME LosslessInv, Reliable, BondMake
  PROVE  LosslessInv'
<1> USE DEF LosslessInv, ProgramInv, BondMake
<1>1. ProgramInv'
  BY BondMakeProgram
<1>2. NothingLost'
  BY DEF NothingLost, netVars
<1>3. PipesInv'
  BY DEF PipesInv, netVars, plumberVars
<1>4. RolesInv'
  BY PassiveMember, SlavesAssumption DEF RolesInv, TypeOK, Before, Chosen
<1>5. RouteInv'
  BY DEF RouteInv
<1>6. PlumbedInv'
  <2>1. active' = pas
    BY DEF RolesInv, Before, Chosen
  <2>2. pas \in Served
    BY PassiveMember, SlavesAssumption DEF RolesInv, Chosen, Reliable
  <2>3. QED BY <2>1, <2>2 DEF PlumbedInv, plumberVars
<1>7. QED BY <1>1, <1>2, <1>3, <1>4, <1>5, <1>6

(* The flow is rerouted when BREAK_REQ is sent.                            *)
LEMMA BreakReqLossless ==
  ASSUME LosslessInv, Reliable, BreakReq
  PROVE  LosslessInv'
<1> USE DEF LosslessInv, ProgramInv, BreakReq
<1>1. ProgramInv'
  BY BreakReqProgram
<1>2. NothingLost'
  BY DEF NothingLost, netVars
<1>3. PipesInv'
  BY DEF PipesInv, netVars, plumberVars
<1>4. RolesInv'
  BY DEF RolesInv, Before, Chosen, After, bondVars
<1>5. RouteInv'
  BY DEF RouteInv, MessagesInv, netVars, bondVars, Reliable
<1>6. PlumbedInv'
  BY DEF PlumbedInv, bondVars, plumberVars
<1>7. QED BY <1>1, <1>2, <1>3, <1>4, <1>5, <1>6

(* BREAK_ACK comes after the flush.                                        *)
LEMMA BondBreakLossless ==
  ASSUME LosslessInv, Reliable, BondBreak
  PROVE  LosslessInv'
<1> USE DEF LosslessInv, ProgramInv, BondBreak
<1>1. ProgramInv'
  BY BondBreakProgram
<1>2. NothingLost'
  BY DEF NothingLost
<1>3. PipesInv'
  BY DEF PipesInv, plumberVars
<1>4. RolesInv'
  BY DEF RolesInv, Before, Chosen, After
<1>5. RouteInv'
  BY DEF RouteInv, Flushed
<1>6. PlumbedInv'
  BY DEF PlumbedInv, plumberVars
<1>7. QED BY <1>1, <1>2, <1>3, <1>4, <1>5, <1>6

(* The old slave is disconnected.                                          *)
LEMMA PlumbBreakLossless ==
  ASSUME LosslessInv, Reliable, PlumbBreak
  PROVE  LosslessInv'
<1> USE DEF LosslessInv, ProgramInv, PlumbBreak
<1>1. ProgramInv'
  BY PlumbBreakProgram
<1>2. NothingLost'
  BY DEF NothingLost, netVars
<1>3. PipesInv'
  BY DEF PipesInv, netVars, Ask
<1>4. RolesInv'
  BY DEF RolesInv, Before, Chosen, After, bondVars
<1>5. RouteInv'
  BY DEF RouteInv, Flushed, netVars, bondVars
<1>6. PlumbedInv'
  BY DEF PlumbedInv, Ask, bondVars
<1>7. QED BY <1>1, <1>2, <1>3, <1>4, <1>5, <1>6

(* A make forks where there was no process; a break hits an unused path.   *)
LEMMA PlumberServesLossless ==
  ASSUME LosslessInv, Reliable, PlumberServes
  PROVE  LosslessInv'
<1> USE DEF LosslessInv, ProgramInv, PlumberServes
<1>1. ProgramInv'
  BY PlumberServesProgram
<1>2. NothingLost'
  BY DEF NothingLost, netVars
<1>3. PipesInv'
  <2>1. CASE ServeMake
    <3>1. request.dev \in Dev
      BY <2>1, RequestKinds DEF TypeOK, PlumberTypeOK, Command, ServeMake
    <3> QED BY <2>1, <3>1 DEF PipesInv, TypeOK, PlumberTypeOK, netVars, ServeMake, Fork, Forks
  <2>2. CASE ServeBreak
    <3>1. request.dev = act /\ act \in Dev /\ act # route /\ path[act] = <<>>
      BY <2>2 DEF RequestInv, RolesInv, RouteInv, Flushed, After, ServeBreak
    <3> QED BY <2>2, <3>1 DEF PipesInv, TypeOK, PlumberTypeOK, netVars, ServeBreak
  <2>3. CASE \E d \in Dev : DpipeConnects(d)
    BY <2>3 DEF PipesInv, netVars, DpipeConnects
  <2> QED BY <2>1, <2>2, <2>3
<1>4. RolesInv'
  BY DEF RolesInv, clientVars, bondVars
<1>5. RouteInv'
  BY DEF RouteInv, Flushed, netVars, bondVars, clientVars, noxVars
<1>6. PlumbedInv'
  <2>1. CASE ServeMake
    <3>1. request.dev \in Dev /\ request.dev \in Served /\ request'.verb # "make"
      BY <2>1, RequestKinds DEF TypeOK, PlumberTypeOK, Command, PlumbedInv, ServeMake
    <3>2. pid'[request.dev] /\ \A d \in Dev : pid[d] => pid'[d]
      BY <2>1, <3>1 DEF TypeOK, PlumberTypeOK, ServeMake, Fork, Forks
    <3>3. \A d \in Dev : pipe'[d] # "dead"
      BY <2>1, <3>1 DEF PlumbedInv, ServeMake, Fork
    <3>4. pc = "plumb_first" => pid'[active]
      <4>1. CASE request = [verb |-> "make", dev |-> active]
        <5>1. request.dev = active
          BY <4>1
        <5>2. QED BY <3>2, <5>1
      <4>2. CASE request # [verb |-> "make", dev |-> active]
        BY <3>2, <4>2 DEF PlumbedInv, TypeOK
      <4>3. QED BY <4>1, <4>2
    <3>5. pc = "plumb_make" => pid'[pas]
      <4>1. CASE request = [verb |-> "make", dev |-> pas]
        <5>1. request.dev = pas
          BY <4>1
        <5>2. QED BY <3>2, <5>1
      <4>2. CASE request # [verb |-> "make", dev |-> pas]
        BY <3>2, <4>2 DEF PlumbedInv, KnownInv
      <4>3. QED BY <4>1, <4>2
    <3>6. pc = "make" => pid'[pas]
      BY <3>2 DEF PlumbedInv, KnownInv
    <3>7. pc \notin {"start", "plumb_first"} => pid'[active]
      BY <3>2 DEF PlumbedInv, TypeOK
    <3>8. QED BY <2>1, <3>1, <3>3, <3>4, <3>5, <3>6, <3>7 DEF PlumbedInv, clientVars, bondVars
  <2>2. CASE ServeBreak
    <3>1. request.dev = act /\ act \in Dev /\ pc = "plumb_break" /\ act # active
      BY <2>2 DEF RequestInv, RolesInv, After, ServeBreak
    <3>2. pid'[active] = pid[active]
      BY <2>2, <3>1 DEF TypeOK, PlumberTypeOK, ServeBreak
    <3>3. \A d \in Dev : pipe'[d] # "dead"
      BY <2>2, <3>1 DEF PlumbedInv, ServeBreak
    <3>4. request'.verb # "make"
      BY <2>2, RequestKinds DEF ServeBreak
    <3>5. QED BY <3>1, <3>2, <3>3, <3>4 DEF PlumbedInv, clientVars, bondVars
  <2>3. CASE \E d \in Dev : DpipeConnects(d)
    BY <2>3 DEF PlumbedInv, clientVars, bondVars, DpipeConnects
  <2>4. QED BY <2>1, <2>2, <2>3
<1>7. QED BY <1>1, <1>2, <1>3, <1>4, <1>5, <1>6

(* The controller puts the client in transition,                           *)
LEMMA NoxMakeReqLossless ==
  ASSUME LosslessInv, Reliable, NoxMakeReq
  PROVE  LosslessInv'
<1> USE DEF LosslessInv, ProgramInv, NoxMakeReq
<1>1. ProgramInv'
  BY NoxMakeReqProgram
<1>2. NothingLost'
  BY DEF NothingLost, netVars
<1>3. PipesInv'
  BY DEF PipesInv, netVars, plumberVars
<1>4. RolesInv'
  BY DEF RolesInv, clientVars, bondVars
<1>5. RouteInv'
  BY DEF RouteInv, MessagesInv, clientVars
<1>6. PlumbedInv'
  BY DEF PlumbedInv, clientVars, bondVars, plumberVars
<1>7. QED BY <1>1, <1>2, <1>3, <1>4, <1>5, <1>6

(* takes it out of transition                                              *)
LEMMA NoxBreakReqLossless ==
  ASSUME LosslessInv, Reliable, NoxBreakReq
  PROVE  LosslessInv'
<1> USE DEF LosslessInv, ProgramInv, NoxBreakReq
<1>1. ProgramInv'
  BY NoxBreakReqProgram
<1>2. NothingLost'
  BY DEF NothingLost, netVars
<1>3. PipesInv'
  BY DEF PipesInv, netVars, plumberVars
<1>4. RolesInv'
  BY DEF RolesInv, clientVars, bondVars
<1>5. RouteInv'
  BY DEF RouteInv, MessagesInv, netVars, bondVars, clientVars
<1>6. PlumbedInv'
  BY DEF PlumbedInv, clientVars, bondVars, plumberVars
<1>7. QED BY <1>1, <1>2, <1>3, <1>4, <1>5, <1>6

(* and acknowledges when the old path has been flushed.                    *)
LEMMA NoxBreakAckLossless ==
  ASSUME LosslessInv, Reliable, NoxBreakAck
  PROVE  LosslessInv'
<1> USE DEF LosslessInv, ProgramInv, NoxBreakAck
<1>1. ProgramInv'
  BY NoxBreakAckProgram
<1>2. NothingLost'
  BY DEF NothingLost, netVars
<1>3. PipesInv'
  BY DEF PipesInv, netVars, plumberVars
<1>4. RolesInv'
  BY DEF RolesInv, clientVars, bondVars
<1>5. RouteInv'
  BY DEF RouteInv, MessagesInv, Flushed, netVars, bondVars, Reliable
<1>6. PlumbedInv'
  BY DEF PlumbedInv, clientVars, bondVars, plumberVars
<1>7. QED BY <1>1, <1>2, <1>3, <1>4, <1>5, <1>6

(* If the controller dies what it has sent still counts.                   *)
LEMMA ControllerDiesLossless ==
  ASSUME LosslessInv, Reliable, ControllerDies, UNCHANGED <<clientVars, netVars>>
  PROVE  LosslessInv'
<1> USE DEF LosslessInv, ProgramInv, ControllerDies
<1>1. ProgramInv'
  BY ControllerDiesProgram
<1>2. NothingLost'
  BY DEF NothingLost, netVars
<1>3. PipesInv'
  BY DEF PipesInv, netVars, plumberVars
<1>4. RolesInv'
  BY DEF RolesInv, clientVars, bondVars
<1>5. RouteInv'
  BY DEF RouteInv, Flushed, netVars, bondVars, clientVars
<1>6. PlumbedInv'
  BY DEF PlumbedInv, clientVars, bondVars, plumberVars
<1>7. QED BY <1>1, <1>2, <1>3, <1>4, <1>5, <1>6

(* A packet is sent on the path in use.                                    *)
LEMMA SendLossless ==
  ASSUME LosslessInv, Reliable, Send
  PROVE  LosslessInv'
<1> USE DEF LosslessInv, ProgramInv, Send
<1>1. ProgramInv'
  BY SendProgram
<1>2. NothingLost'
  BY DEF NothingLost
<1>3. PipesInv'
  BY DEF PipesInv, plumberVars
<1>4. RolesInv'
  BY DEF RolesInv, clientVars, bondVars
<1>5. RouteInv'
  BY DEF RouteInv, Flushed, bondVars, clientVars, noxVars
<1>6. PlumbedInv'
  BY DEF PlumbedInv, clientVars, bondVars, plumberVars
<1>7. QED BY <1>1, <1>2, <1>3, <1>4, <1>5, <1>6

(* A packet arrives at a connected pipe.                                   *)
LEMMA ArriveLossless ==
  ASSUME LosslessInv, Reliable, NEW d \in Dev, Arrive(d)
  PROVE  LosslessInv'
<1> USE DEF LosslessInv, ProgramInv, Arrive
<1>1. ProgramInv'
  BY ArriveProgram
<1>2. NothingLost'
  BY DEF NothingLost, PipesInv
<1>3. PipesInv'
  BY DEF PipesInv, plumberVars
<1>4. RolesInv'
  BY DEF RolesInv, clientVars
<1>5. RouteInv'
  BY DEF RouteInv, Flushed, clientVars, noxVars
<1>6. PlumbedInv'
  BY DEF PlumbedInv, clientVars, plumberVars
<1>7. QED BY <1>1, <1>2, <1>3, <1>4, <1>5, <1>6

(* The flow is rerouted to a connected pipe.                               *)
LEMMA UplinkLossless ==
  ASSUME LosslessInv, Reliable, Uplink
  PROVE  LosslessInv'
<1> USE DEF LosslessInv, ProgramInv, Uplink
<1>1. ProgramInv'
  BY UplinkProgram
<1>2. NothingLost'
  BY DEF NothingLost
<1>3. PipesInv'
  BY DEF PipesInv, plumberVars
<1>4. RolesInv'
  BY DEF RolesInv, clientVars, bondVars
<1>5. RouteInv'
  BY DEF RouteInv, clientVars
<1>6. PlumbedInv'
  BY DEF PlumbedInv, clientVars, bondVars, plumberVars
<1>7. QED BY <1>1, <1>2, <1>3, <1>4, <1>5, <1>6

(* Nothing is connected and nothing is sent before the first make.         *)
LEMMA InitiallyLossless ==
  ASSUME Init, Reliable
  PROVE  LosslessInv
<1> USE DEF Init
<1>1. ProgramInv
  BY InitiallyProgram
<1>2. NothingLost /\ RolesInv
  BY DEF NothingLost, RolesInv, Before, Chosen, After
<1>3. PipesInv /\ PlumbedInv
  <2>1. active \in Served
    BY SlavesAssumption DEF Reliable, ToSet
  <2>2. QED BY <2>1, NoSlaveAssumption, RequestKinds DEF PipesInv, PlumbedInv, PlumberInit
<1>4. RouteInv
  BY DEF RouteInv
<1>5. QED BY <1>1, <1>2, <1>3, <1>4 DEF LosslessInv

(* Every step keeps the invariant; pipes and links do not fail.            *)
LEMMA StepLossless ==
  ASSUME LosslessInv, Reliable, [Next]_vars
  PROVE  LosslessInv'
<1>1. CASE UNCHANGED vars
  <2>1. ProgramInv'
    BY StepProgram DEF LosslessInv
  <2>2. QED BY <1>1, <2>1 DEF LosslessInv, vars, clientVars, bondVars, plumberVars, noxVars,
      netVars, NothingLost, PipesInv, RolesInv, RouteInv, Flushed, PlumbedInv
<1>2. CASE ClientStep
  BY <1>2, FirstMakeLossless, GetActiveLossless, GetPassiveLossless, MakeAckLossless,
      PlumberAnswersLossless, BondMakeLossless, BreakReqLossless, BondBreakLossless,
      PlumbBreakLossless DEF ClientStep
<1>3. CASE MakeReq \/ Quit \/ PlumberServes
  BY <1>3, MakeReqLossless, QuitLossless, PlumberServesLossless
<1>4. CASE NoxStep
  BY <1>4, NoxMakeReqLossless, NoxBreakReqLossless, NoxBreakAckLossless DEF NoxStep
<1>5. CASE NetStep \/ Send
  BY <1>5, UplinkLossless, ArriveLossless, SendLossless DEF NetStep
<1>6. CASE PipeFails \/ \E d \in Dev : Failover(d)
  BY <1>6 DEF Reliable, PipeFails, DpipeDies, Failover
<1>7. CASE ControllerDies /\ UNCHANGED <<clientVars, netVars>>
  BY <1>7, ControllerDiesLossless
<1>8. QED BY <1>1, <1>2, <1>3, <1>4, <1>5, <1>6, <1>7 DEF Next, Failure

(* The inductive invariant of the reliable handover.                       *)
THEOREM HandoverInvariant ==
  ASSUME Reliable
  PROVE  Spec => []LosslessInv
<1>1. Init => LosslessInv
  BY InitiallyLossless
<1>2. LosslessInv /\ [Next]_vars => LosslessInv'
  BY StepLossless
<1>3. QED BY <1>1, <1>2, PTL DEF Spec

(* No packet is lost, whatever the number of slaves, packets and handovers *)
(* and even if the controller dies (hoolock_client.cc, "lossless").        *)
THEOREM Lossless ==
  ASSUME Reliable
  PROVE  Spec => []NothingLost
<1>1. LosslessInv => NothingLost
  BY DEF LosslessInv
<1>2. QED BY <1>1, HandoverInvariant, PTL

(* The pipe of the active slave exists from the first make on              *)
(* (bond_ioctl_make and the plumber choose the same slave).                *)
THEOREM ActivePipe ==
  ASSUME Reliable
  PROVE  Spec => []ActivePlumbed
<1>1. LosslessInv => ActivePlumbed
  BY DEF LosslessInv, ProgramInv, TypeOK, PlumberTypeOK, PipesInv, PlumbedInv, ActivePlumbed
<1>2. QED BY <1>1, HandoverInvariant, PTL

-------------------------------------------------------------------------------
(* Only sending and arriving touch the packets: no buffer holds any.       *)
LEMMA PacketsUntouched ==
  ASSUME ProgramInv, [Next]_vars
  PROVE  \/ UNCHANGED <<path, sent, received, buffer>>
         \/ Send
         \/ \E d \in Dev : Arrive(d)
<1>1. CASE BondBreak
  <2>1. received' = received /\ buffer' = buffer
    BY <1>1 DEF BondBreak, ProgramInv, QuietInv
  <2>2. QED BY <1>1, <2>1 DEF BondBreak
<1>2. CASE UNCHANGED vars
  BY <1>2 DEF vars, netVars, bondVars
<1>3. CASE ClientStep /\ ~BondBreak
  BY <1>3 DEF ClientStep, FirstMake, GetActive, GetPassive, MakeAck, PlumberAnswers, BondMake,
      BreakReq, PlumbBreak, netVars, bondVars
<1>4. CASE MakeReq \/ Quit \/ PlumberServes \/ NoxStep \/ Uplink \/ Failure
  BY <1>4 DEF MakeReq, Quit, PlumberServes, NoxStep, NoxMakeReq, NoxBreakReq, NoxBreakAck,
      Uplink, Failure, PipeFails, ControllerDies, Failover, netVars, bondVars
<1>5. QED BY <1>1, <1>2, <1>3, <1>4 DEF Next, NetStep

(* A path is a finite sequence of numbered packets.                        *)
LEMMA PathFacts ==
  ASSUME NEW P \in [Dev -> Seq(Packet)], NEW d \in Dev
  PROVE  /\ P[d] \in Seq(Packet) /\ Len(P[d]) \in Nat
         /\ \A i \in 1..Len(P[d]) : P[d][i] \in Nat
         /\ ToSet(P[d]) = {P[d][i] : i \in 1..Len(P[d])}
<1>1. P[d] \in Seq(Packet) /\ Packet \subseteq Nat
  BY DEF Packet
<1>2. QED BY <1>1, SeqFacts

(* The packets in transit are those of the paths, no buffer holding any.   *)
LEMMA PathPackets ==
  ASSUME NEW P \in [Dev -> Seq(Packet)], NEW b, b = <<>>
  PROVE  \A p : p \in (UNION {ToSet(P[d]) : d \in Dev}) \cup ToSet(b)
                <=> \E d \in Dev : \E i \in 1..Len(P[d]) : P[d][i] = p
<1>1. \A d \in Dev : ToSet(P[d]) = {P[d][i] : i \in 1..Len(P[d])}
  BY PathFacts
<1>2. ToSet(b) = {}
  BY DEF ToSet
<1>3. QED BY <1>1, <1>2

(* A packet sent gets a number of its own.                                 *)
LEMMA SendPackets ==
  ASSUME ProgramInv, PacketsInv, Send
  PROVE  PacketsInv'
<1> USE DEF Send, netVars
<1>1. route \in Dev /\ sent \in Nat /\ path \in [Dev -> Seq(Packet)] /\ received \in Seq(Packet)
  BY DEF ProgramInv, TypeOK
<1>2. \A d \in Dev : Len(path[d]) \in Nat /\ \A i \in 1..Len(path[d]) : path[d][i] \in Nat
  BY <1>1, PathFacts
<1>3. Len(received) \in Nat /\ \A k \in 1..Len(received) : received[k] \in Nat
  BY <1>1, BoundAssumption DEF Packet
<1>4. \A d \in Dev \ {route} : path'[d] = path[d]
  BY <1>1
<1>5. /\ Len(path'[route]) = Len(path[route]) + 1
      /\ path'[route][Len(path[route]) + 1] = sent + 1
      /\ \A i \in 1..Len(path[route]) : path'[route][i] = path[route][i]
  BY <1>1
<1>6. QED BY <1>1, <1>2, <1>3, <1>4, <1>5 DEF PacketsInv

(* A packet that arrives leaves its path.                                  *)
LEMMA ArrivePackets ==
  ASSUME ProgramInv, PacketsInv, NEW d \in Dev, Arrive(d)
  PROVE  PacketsInv'
<1> DEFINE p == path[d][1]
<1>1. path \in [Dev -> Seq(Packet)] /\ received \in Seq(Packet) /\ path[d] \in Seq(Packet) /\ path[d] # <<>>
  BY DEF ProgramInv, TypeOK, Arrive
<1>2. \A e \in Dev : Len(path[e]) \in Nat /\ \A i \in 1..Len(path[e]) : path[e][i] \in Nat
  BY <1>1, PathFacts
<1>3. sent' = sent /\ Len(received) \in Nat /\ 1 \in 1..Len(path[d])
  BY <1>1 DEF Arrive
<1>4. \A e \in Dev \ {d} : path'[e] = path[e]
  BY <1>1 DEF Arrive
<1>5. Len(path'[d]) = Len(path[d]) - 1 /\ \A i \in 1..Len(path'[d]) : path'[d][i] = path[d][i + 1]
  BY <1>1 DEF Arrive
<1>6. \A e \in Dev : \A i \in 1..Len(path'[e]) :
        \E j \in 1..Len(path[e]) : path'[e][i] = path[e][j] /\ j = IF e = d THEN i + 1 ELSE i
  BY <1>2, <1>3, <1>4, <1>5
<1>7. \A e \in Dev : \A i \in 1..Len(path'[e]) : path'[e][i] <= sent' /\ path'[e][i] # p
  <2> SUFFICES ASSUME NEW e \in Dev, NEW i \in 1..Len(path'[e])
               PROVE  path'[e][i] <= sent' /\ path'[e][i] # p
    OBVIOUS
  <2>1. PICK j \in 1..Len(path[e]) : path'[e][i] = path[e][j] /\ j = IF e = d THEN i + 1 ELSE i
    BY <1>6
  <2>2. i \in Nat \ {0} /\ (e # d \/ j # 1)
    BY <1>2, <1>4, <1>5, <2>1
  <2>3. QED BY <1>3, <2>1, <2>2 DEF PacketsInv
<1>8. \A e, f \in Dev : \A i \in 1..Len(path'[e]), j \in 1..Len(path'[f]) :
        path'[e][i] = path'[f][j] => e = f /\ i = j
  <2> SUFFICES ASSUME NEW e \in Dev, NEW f \in Dev, NEW i \in 1..Len(path'[e]), NEW j \in 1..Len(path'[f]),
                      path'[e][i] = path'[f][j]
               PROVE  e = f /\ i = j
    OBVIOUS
  <2>1. PICK k \in 1..Len(path[e]) : path'[e][i] = path[e][k] /\ k = IF e = d THEN i + 1 ELSE i
    BY <1>6
  <2>2. PICK l \in 1..Len(path[f]) : path'[f][j] = path[f][l] /\ l = IF f = d THEN j + 1 ELSE j
    BY <1>6
  <2>3. e = f /\ k = l
    <3>1. path[e][k] = path[f][l]
      BY <2>1, <2>2
    <3>2. QED BY <3>1 DEF PacketsInv
  <2>4. i \in Int /\ j \in Int
    BY <1>2, <1>4, <1>5
  <2>5. QED BY <2>1, <2>2, <2>3, <2>4
<1>9. \A e \in Dev : \A i \in 1..Len(path'[e]), k \in 1..Len(received) : path'[e][i] # received[k]
  BY <1>6 DEF PacketsInv
<1>10. CASE received' = received
  BY <1>3, <1>7, <1>8, <1>9, <1>10 DEF PacketsInv
<1>11. CASE received' = Append(received, Head(path[d]))
  <2>1. Head(path[d]) = p
    BY <1>1
  <2>2. /\ Len(received') = Len(received) + 1 /\ received'[Len(received) + 1] = p
        /\ \A k \in 1..Len(received) : received'[k] = received[k]
    BY <1>1, <1>3, <1>11, <2>1
  <2>3. p <= sent /\ \A k \in 1..Len(received) : p # received[k]
    BY <1>3 DEF PacketsInv
  <2> HIDE DEF p
  <2>4. \A k \in 1..Len(received') : received'[k] <= sent'
    BY <1>3, <2>2, <2>3 DEF PacketsInv
  <2>5. \A k, l \in 1..Len(received') : received'[k] = received'[l] => k = l
    BY <1>3, <2>2, <2>3 DEF PacketsInv
  <2>6. \A e \in Dev : \A i \in 1..Len(path'[e]), k \in 1..Len(received') : path'[e][i] # received'[k]
    BY <1>3, <1>7, <1>9, <2>2
  <2>7. QED BY <1>7, <1>8, <2>4, <2>5, <2>6 DEF PacketsInv
<1>12. QED BY <1>10, <1>11 DEF Arrive

(* No packet is received twice, or received and still on its way, however  *)
(* handovers, failures and packets interleave (bond_hoolock_recv,          *)
(* bond_ioctl_break).                                                      *)
THEOREM ReceivedOnce == Spec => []PacketsInv
<1>1. Init => PacketsInv
  BY DEF Init, PacketsInv
<1>2. ProgramInv /\ PacketsInv /\ [Next]_vars => PacketsInv'
  BY PacketsUntouched, SendPackets, ArrivePackets DEF PacketsInv
<1>3. QED BY <1>1, <1>2, ProgramInvariant, PTL DEF Spec

(* To send is to send into the channel.                                    *)
LEMMA SendChannel ==
  ASSUME LosslessInv, LosslessInv', PacketsInv, Send
  PROVE  Channel!Send
<1>1. ProgramInv /\ ProgramInv'
  BY DEF LosslessInv
<1>2. route \in Dev /\ path \in [Dev -> Seq(Packet)]
  BY <1>1 DEF Send, ProgramInv, TypeOK
<1>3. \A d \in Dev \ {route} : path'[d] = path[d]
  BY <1>2 DEF Send
<1>4. /\ Len(path[route]) \in Nat /\ Len(path'[route]) = Len(path[route]) + 1
      /\ path'[route][Len(path[route]) + 1] = sent + 1
      /\ \A i \in 1..Len(path[route]) : path'[route][i] = path[route][i]
  BY <1>2 DEF Send
<1>5. \A p : p \in Transit' <=> p \in Transit \/ p = sent + 1
  <2>1. \A p : p \in Transit <=> \E d \in Dev : \E i \in 1..Len(path[d]) : path[d][i] = p
    <3>1. path \in [Dev -> Seq(Packet)] /\ buffer = <<>>
      BY <1>1 DEF ProgramInv, TypeOK, QuietInv
    <3>2. QED BY <3>1, PathPackets DEF Transit
  <2>2. \A p : p \in Transit' <=> \E d \in Dev : \E i \in 1..Len(path'[d]) : path'[d][i] = p
    <3>1. path' \in [Dev -> Seq(Packet)] /\ buffer' = <<>>
      BY <1>1 DEF ProgramInv, TypeOK, QuietInv
    <3>2. QED BY <3>1, PathPackets DEF Transit
  <2>3. ASSUME NEW p, p \in Transit'
        PROVE  p \in Transit \/ p = sent + 1
    <3>1. PICK d \in Dev : \E i \in 1..Len(path'[d]) : path'[d][i] = p
      BY <2>2, <2>3
    <3>2. CASE d = route
      BY <1>2, <1>4, <2>1, <3>1, <3>2
    <3>3. CASE d # route
      BY <1>3, <2>1, <3>1, <3>3
    <3>4. QED BY <3>2, <3>3
  <2>4. sent + 1 \in Transit'
    <3>1. Len(path[route]) + 1 \in 1..Len(path'[route])
      BY <1>4
    <3>2. QED BY <1>2, <1>4, <2>2, <3>1
  <2>5. ASSUME NEW p, p \in Transit
        PROVE  p \in Transit'
    <3>1. PICK d \in Dev : \E i \in 1..Len(path[d]) : path[d][i] = p
      BY <2>1, <2>5
    <3>2. CASE d = route
      BY <1>2, <1>4, <2>2, <3>1, <3>2
    <3>3. CASE d # route
      BY <1>3, <2>2, <3>1, <3>3
    <3>4. QED BY <3>2, <3>3
  <2>6. QED BY <2>3, <2>4, <2>5
<1>6. Transit' = Transit \cup {sent + 1}
  BY <1>5
<1>7. Taken' = Taken
  BY DEF Taken, Send
<1>8. QED BY <1>6, <1>7 DEF Channel!Send, Send

(* To arrive is to be received.                                            *)
LEMMA ArriveChannel ==
  ASSUME LosslessInv, LosslessInv', PacketsInv, NEW d \in Dev, Arrive(d)
  PROVE  Channel!Receive
<1> DEFINE p == Head(path[d])
<1>1. ProgramInv /\ ProgramInv'
  BY DEF LosslessInv
<1>2. path \in [Dev -> Seq(Packet)] /\ received \in Seq(Packet) /\ path[d] \in Seq(Packet) /\ path[d] # <<>>
  BY <1>1 DEF Arrive, ProgramInv, TypeOK
<1>3. \A e \in Dev \ {d} : path'[e] = path[e]
  BY <1>2 DEF Arrive
<1>4. /\ Len(path[d]) \in Nat \ {0} /\ Len(path'[d]) = Len(path[d]) - 1
      /\ \A i \in 1..Len(path'[d]) : path'[d][i] = path[d][i + 1]
      /\ p = path[d][1]
  BY <1>2 DEF Arrive
<1>5. \A q : q \in Transit' <=> q \in Transit /\ q # p
  <2>1. \A q : q \in Transit <=> \E e \in Dev : \E i \in 1..Len(path[e]) : path[e][i] = q
    <3>1. path \in [Dev -> Seq(Packet)] /\ buffer = <<>>
      BY <1>1 DEF ProgramInv, TypeOK, QuietInv
    <3>2. QED BY <3>1, PathPackets DEF Transit
  <2>2. \A q : q \in Transit' <=> \E e \in Dev : \E i \in 1..Len(path'[e]) : path'[e][i] = q
    <3>1. path' \in [Dev -> Seq(Packet)] /\ buffer' = <<>>
      BY <1>1 DEF ProgramInv, TypeOK, QuietInv
    <3>2. QED BY <3>1, PathPackets DEF Transit
  <2>3. ASSUME NEW q, q \in Transit'
        PROVE  q \in Transit /\ q # p
    <3>0. PICK e \in Dev : \E i \in 1..Len(path'[e]) : path'[e][i] = q
      BY <2>2, <2>3
    <3>1. PICK i \in 1..Len(path'[e]) : path'[e][i] = q
      BY <3>0
    <3>2. 1 \in 1..Len(path[d])
      BY <1>4
    <3>3. CASE e = d
      <4>1. i + 1 \in 1..Len(path[d]) /\ path[d][i + 1] = q /\ i + 1 # 1
        BY <1>4, <3>1, <3>3
      <4>2. QED BY <1>4, <2>1, <3>2, <4>1 DEF PacketsInv
    <3>4. CASE e # d
      <4>1. i \in 1..Len(path[e]) /\ path[e][i] = q
        BY <1>3, <3>1, <3>4
      <4>2. QED BY <1>4, <2>1, <3>2, <3>4, <4>1 DEF PacketsInv
    <3>5. QED BY <3>3, <3>4
  <2>4. ASSUME NEW q, q \in Transit, q # p
        PROVE  q \in Transit'
    <3>0. PICK e \in Dev : \E i \in 1..Len(path[e]) : path[e][i] = q
      BY <2>1, <2>4
    <3>1. PICK i \in 1..Len(path[e]) : path[e][i] = q
      BY <3>0
    <3>2. CASE e = d
      <4>1. i - 1 \in 1..Len(path'[d]) /\ path'[d][i - 1] = q
        BY <1>4, <2>4, <3>1, <3>2
      <4>2. QED BY <2>2, <4>1
    <3>3. CASE e # d
      BY <1>3, <2>2, <3>1, <3>3
    <3>4. QED BY <3>2, <3>3
  <2>5. QED BY <2>3, <2>4
<1>6. p \in Transit
  <2>1. 1 \in 1..Len(path[d]) /\ path[d][1] = p
    BY <1>4
  <2> HIDE DEF p
  <2>3. \A q : q \in Transit <=> \E e \in Dev : \E i \in 1..Len(path[e]) : path[e][i] = q
    <3>1. path \in [Dev -> Seq(Packet)] /\ buffer = <<>>
      BY <1>1 DEF ProgramInv, TypeOK, QuietInv
    <3>2. QED BY <3>1, PathPackets DEF Transit
  <2>2. QED BY <2>1, <2>3
<1>7. received' = Append(received, p)
  <2>1. pipe[d] = "connected"
    BY <1>2 DEF LosslessInv, PipesInv
  <2>2. ~HeldBack(d)
    BY DEF HeldBack, DevAddress, SlaveAddress
  <2>3. QED BY <2>1, <2>2 DEF Arrive
<1>8. Taken' = Taken \cup {p}
  <2>1. received' \in Seq(Packet)
    BY <1>1 DEF ProgramInv, TypeOK
  <2> HIDE DEF p
  <2>5. /\ Len(received') = Len(received) + 1 /\ Len(received) \in Nat
        /\ received'[Len(received) + 1] = p /\ \A k \in 1..Len(received) : received'[k] = received[k]
    BY <1>2, <1>7
  <2>2. Taken = {received[k] : k \in 1..Len(received)}
    BY <1>2, SeqFacts DEF Taken
  <2>3. Taken' = {received'[k] : k \in 1..Len(received')}
    BY <2>1, SeqFacts DEF Taken
  <2>4. QED BY <2>2, <2>3, <2>5
<1> HIDE DEF p
<1>9. {p} \in SUBSET Transit /\ {p} # {} /\ Transit' = Transit \ {p}
  BY <1>5, <1>6
<1>10. QED BY <1>8, <1>9 DEF Channel!Receive, Arrive

(* Every step of the reliable handover is one of the channel, or none.     *)
LEMMA StepChannel ==
  ASSUME LosslessInv, LosslessInv', PacketsInv, [Next]_vars
  PROVE  [Channel!Next]_(Channel!vars)
<1>1. ProgramInv
  BY DEF LosslessInv
<1>2. CASE UNCHANGED <<path, sent, received, buffer>>
  BY <1>2 DEF Channel!vars, Transit, Taken
<1>3. CASE Send
  BY <1>3, SendChannel DEF Channel!Next
<1>4. CASE \E d \in Dev : Arrive(d)
  BY <1>4, ArriveChannel DEF Channel!Next
<1>5. QED BY <1>1, <1>2, <1>3, <1>4, PacketsUntouched

(* The reliable handover implements the lossless channel, but for what     *)
(* fairness adds: a packet sent is in transit until it is received, and    *)
(* received once.                                                          *)
THEOREM ImplementsChannel ==
  ASSUME Reliable
  PROVE  Spec => Channel!Init /\ [][Channel!Next]_(Channel!vars)
<1>1. Init => Channel!Init
  <2>1. ASSUME Init PROVE Transit = {} /\ Taken = {}
    <3>1. ProgramInv
      BY <2>1, InitiallyProgram
    <3>2. \A d \in Dev : Len(path[d]) = 0
      BY <2>1 DEF Init
    <3>3. Transit = {}
      BY <3>1, <3>2, PathPackets DEF Transit, ProgramInv, TypeOK, QuietInv
    <3>4. QED BY <2>1, <3>3 DEF Init, Taken, ToSet
  <2>2. QED BY <2>1 DEF Channel!Init, Init
<1>2. LosslessInv /\ LosslessInv' /\ PacketsInv /\ [Next]_vars => [Channel!Next]_(Channel!vars)
  BY StepChannel
<1>3. QED BY <1>1, <1>2, HandoverInvariant, ReceivedOnce, PTL DEF Spec

==============================================================================
