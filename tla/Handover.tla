------------------------------ MODULE Handover -------------------------------
(***************************************************************************)
(* A lossless handover, end to end (src/hoolock_client.cc): the client     *)
(* program, the bonding driver in hoolock mode as far as packets and the   *)
(* MAKE and BREAK ioctls are concerned, the plumber, the controller and    *)
(* one downlink flow.                                                      *)
(*                                                                         *)
(* The controller and the network are external; they do what the client    *)
(* needs of them: MAKE_REQ puts the client in transition, the first uplink *)
(* packet it then sends through another access point reroutes the flow,    *)
(* BREAK_REQ ends the transition and is acknowledged after the flush time. *)
(* A path is a FIFO channel from the sender to one access point; the last  *)
(* hop is the pipe of the plumber.                                         *)
(***************************************************************************)
EXTENDS Plumber

CONSTANTS
  Slaves,             \* the slave list of the bond
  MaxPackets,         \* bound: the packets of the flow
  SleepSuffices,      \* is sleep(1) long enough for the dpipe to connect and a ping to reach the controller?
  FlushSuffices,      \* is the flush time of the controller longer than the delay of every path?
  LinksMayFail,       \* may the link monitor of the bond move the active role?
  ControllerMayDie    \* may the controller close its connection?

ASSUME SlavesAssumption == Slaves \in Seq(Dev) /\ Slaves # <<>> /\ Once(Slaves)
ASSUME BoundAssumption  == MaxPackets \in Nat
ASSUME TimingAssumption == {SleepSuffices, FlushSuffices, LinksMayFail, ControllerMayDie} \subseteq BOOLEAN

VARIABLES
  pc,             \* where the client program is
  act, pas,       \* its act_slave and pas_slave
  active,         \* bond->curr_active_slave
  bufferMode,     \* bond->buffer_mode
  buffer,         \* bond->pbuff
  nox,            \* the controller: ready, flushing or dead
  inTransition,   \* the client is in transition, for the controller
  toNox, toClient,  \* the TCP connection between client and controller
  route,          \* the access point the flow is routed to, NoSlave before the client is known
  path,           \* packets on their way to each access point
  sent,           \* number of packets sent
  received,       \* packets the client's network layer has received
  lost            \* packets that found no pipe

clientVars == <<pc, act, pas>>
bondVars   == <<active, bufferMode, buffer>>
noxVars    == <<nox, inTransition, toNox, toClient>>
netVars    == <<route, path, sent, received, lost>>
vars == <<clientVars, bondVars, plumberVars, noxVars, netVars>>

Init ==
  /\ pc = "start" /\ act = NoSlave /\ pas = NoSlave
  /\ active = Slaves[1] /\ bufferMode = FALSE /\ buffer = <<>>
  /\ PlumberInit
  /\ nox = "ready" /\ inTransition = FALSE /\ toNox = <<>> /\ toClient = <<>>
  /\ route = NoSlave /\ path = [d \in Dev |-> <<>>]
  /\ sent = 0 /\ received = <<>> /\ lost = {}

Ask(v, d) == request' = [verb |-> v, dev |-> d] /\ UNCHANGED <<pid, pipe>>

-------------------------------------------------------------------------------
(***************************************************************************)
(* The client program, from one blocking call to the next.                 *)
(***************************************************************************)

Mutant_FirstMake ==   \* sends "make x" as it stands
  /\ pc = "start" /\ pc' = "plumb_first"
  /\ act' = active
  /\ Ask("make", NoSlave)
  /\ UNCHANGED <<pas, bondVars, noxVars, netVars>>

(* Connect the active slave.                                               *)
FirstMake ==
  /\ pc = "start" /\ pc' = "plumb_first"
  /\ act' = active
  /\ Ask("make", active)
  /\ UNCHANGED <<pas, bondVars, noxVars, netVars>>

(* SIOCBONDHOOLOCKGETACTIVE and SIOCBONDHOOLOCKGETPASSIVE, at the top of   *)
(* the loop.  The second fails if there is no other slave.                 *)
GetActive ==
  /\ pc = "loop" /\ pc' = "get_passive"
  /\ act' = active
  /\ UNCHANGED <<pas, bondVars, plumberVars, noxVars, netVars>>

GetPassive ==
  /\ pc = "get_passive"
  /\ pas' = Passive(Slaves, active)
  /\ pc'  = IF pas' = NoSlave THEN "exit" ELSE "switch"
  /\ UNCHANGED <<act, bondVars, plumberVars, noxVars, netVars>>

(* The user presses <enter> or q.                                          *)
MakeReq ==
  /\ pc = "switch" /\ pc' = "make_ack"
  /\ toNox' = Append(toNox, "MAKE_REQ")
  /\ UNCHANGED <<act, pas, bondVars, plumberVars, nox, inTransition, toClient, netVars>>

Quit ==
  /\ pc = "switch" /\ pc' = "exit"
  /\ UNCHANGED <<act, pas, bondVars, plumberVars, noxVars, netVars>>

Mutant_MakeAck ==    \* connects the slave that is connected already
  /\ pc = "make_ack" /\ toClient # <<>> /\ Head(toClient) = "MAKE_ACK"
  /\ toClient' = Tail(toClient)
  /\ pc' = "plumb_make"
  /\ Ask("make", act)
  /\ UNCHANGED <<act, pas, bondVars, nox, inTransition, toNox, netVars>>

MakeAck ==
  /\ pc = "make_ack" /\ toClient # <<>> /\ Head(toClient) = "MAKE_ACK"
  /\ toClient' = Tail(toClient)
  /\ pc' = "plumb_make"
  /\ Ask("make", pas)
  /\ UNCHANGED <<act, pas, bondVars, nox, inTransition, toNox, netVars>>

(* The plumber has answered: go on with what comes after its command.      *)
PlumberAnswers ==
  /\ request = Answer /\ request' = NoRequest
  /\ pc' = CASE pc = "plumb_make" -> "make" [] pc \in {"plumb_first", "plumb_break"} -> "loop"
  /\ UNCHANGED <<act, pas, bondVars, pid, pipe, noxVars, netVars>>

(* bond_ioctl_make: the first slave that is not active becomes so.         *)
BondMake ==
  LET new == Passive(Slaves, active)
  IN  /\ pc = "make" /\ pc' = "sleep"
      /\ active' = IF new = NoSlave THEN active ELSE new
      /\ bufferMode' = TRUE
      /\ UNCHANGED <<act, pas, buffer, plumberVars, noxVars, netVars>>

(* After the sleep, by the end of which a ping has been through.           *)
BreakReq ==
  /\ pc = "sleep" /\ pc' = "break_ack"
  /\ SleepSuffices => route = active \/ nox = "dead"
  /\ toNox' = Append(toNox, "BREAK_REQ")
  /\ UNCHANGED <<act, pas, bondVars, plumberVars, nox, inTransition, toClient, netVars>>

Mutant_BondBreak ==   \* the buffer mode stays on
  /\ pc = "break_ack" /\ toClient # <<>> /\ Head(toClient) = "BREAK_ACK"
  /\ toClient' = Tail(toClient)
  /\ pc' = "break"
  /\ received' = received \o buffer /\ buffer' = <<>>
  /\ UNCHANGED <<act, pas, active, bufferMode, plumberVars, nox, inTransition, toNox, route, path, sent, lost>>

(* BREAK_ACK arrives and bond_ioctl_break releases the buffer.             *)
BondBreak ==
  /\ pc = "break_ack" /\ toClient # <<>> /\ Head(toClient) = "BREAK_ACK"
  /\ toClient' = Tail(toClient)
  /\ pc' = "break"
  /\ bufferMode' = FALSE
  /\ received' = received \o buffer /\ buffer' = <<>>
  /\ UNCHANGED <<act, pas, active, plumberVars, nox, inTransition, toNox, route, path, sent, lost>>

Mutant_PlumbBreak ==   \* disconnects the slave it has just connected
  /\ pc = "break" /\ pc' = "plumb_break"
  /\ Ask("break", pas)
  /\ UNCHANGED <<act, pas, bondVars, noxVars, netVars>>

PlumbBreak ==
  /\ pc = "break" /\ pc' = "plumb_break"
  /\ Ask("break", act)
  /\ UNCHANGED <<act, pas, bondVars, noxVars, netVars>>

-------------------------------------------------------------------------------
(***************************************************************************)
(* The plumber at work, and the monitor of the bond on a link failure.     *)
(***************************************************************************)
PlumberServes ==
  /\ ServeMake \/ ServeBreak \/ \E d \in Dev : DpipeConnects(d)
  /\ UNCHANGED <<clientVars, bondVars, noxVars, netVars>>

PipeFails ==
  /\ \E d \in Dev : DpipeDies(d)
  /\ UNCHANGED <<bondVars, noxVars>>

Failover(d) ==
  /\ LinksMayFail /\ d \in ToSet(Slaves) /\ d # active
  /\ active' = d
  /\ UNCHANGED <<bufferMode, buffer, plumberVars, noxVars>>

-------------------------------------------------------------------------------
(***************************************************************************)
(* The controller.                                                         *)
(***************************************************************************)
NoxMakeReq ==
  /\ nox = "ready" /\ toNox # <<>> /\ Head(toNox) = "MAKE_REQ"
  /\ toNox' = Tail(toNox) /\ toClient' = Append(toClient, "MAKE_ACK")
  /\ inTransition' = TRUE
  /\ UNCHANGED <<clientVars, bondVars, plumberVars, nox, netVars>>

NoxBreakReq ==
  /\ nox = "ready" /\ toNox # <<>> /\ Head(toNox) = "BREAK_REQ"
  /\ toNox' = Tail(toNox)
  /\ inTransition' = FALSE /\ nox' = "flushing"
  /\ UNCHANGED <<clientVars, bondVars, plumberVars, toClient, netVars>>

Flushed == \A d \in Dev \ {route} : path[d] = <<>>

NoxBreakAck ==
  /\ nox = "flushing" /\ (FlushSuffices => Flushed)
  /\ nox' = "ready" /\ toClient' = Append(toClient, "BREAK_ACK")
  /\ UNCHANGED <<clientVars, bondVars, plumberVars, inTransition, toNox, netVars>>

ControllerDies ==
  /\ ControllerMayDie /\ nox # "dead"
  /\ nox' = "dead"
  /\ UNCHANGED <<bondVars, plumberVars, inTransition, toNox, toClient>>

-------------------------------------------------------------------------------
(***************************************************************************)
(* Packets.                                                                *)
(***************************************************************************)
Send ==
  /\ route # NoSlave /\ sent < MaxPackets
  /\ sent' = sent + 1
  /\ path' = [path EXCEPT ![route] = Append(@, sent + 1)]
  /\ UNCHANGED <<clientVars, bondVars, plumberVars, noxVars, route, received, lost>>

(* bond_hoolock_recv holds a packet back if it came in on the active slave *)
(* in buffer mode; but what it compares is the address of the net_device   *)
(* with the address of the slave structure.                                *)
DevAddress(d)   == <<"net_device", d>>
SlaveAddress(s) == <<"slave", s>>

Mutant_HeldBack(d) == bufferMode   \* all packets, and not only the new slave's

HeldBack(d) == bufferMode /\ DevAddress(d) = SlaveAddress(active)

(* The next packet of a path reaches its access point, and the client if   *)
(* the pipe is connected.                                                  *)
Arrive(d) ==
  LET p == Head(path[d])
  IN  /\ path[d] # <<>>
      /\ path' = [path EXCEPT ![d] = Tail(@)]
      /\ lost'     = IF pipe[d] = "connected" THEN lost ELSE lost \cup {p}
      /\ buffer'   = IF pipe[d] = "connected" /\ HeldBack(d) THEN Append(buffer, p) ELSE buffer
      /\ received' = IF pipe[d] = "connected" /\ ~HeldBack(d) THEN Append(received, p) ELSE received
      /\ UNCHANGED <<clientVars, active, bufferMode, plumberVars, noxVars, route, sent>>

(* An uplink packet (bond_xmit_hoolock: always through the active slave)   *)
(* that reaches an access point which does not know the flow: the          *)
(* controller learns where the client is, or reroutes if in transition.    *)
Uplink ==
  /\ pipe[active] = "connected" /\ active # route
  /\ nox = "ready" /\ (route = NoSlave \/ inTransition)
  /\ route' = active
  /\ UNCHANGED <<clientVars, bondVars, plumberVars, noxVars, path, sent, received, lost>>

-------------------------------------------------------------------------------
ClientStep == \/ FirstMake \/ GetActive \/ GetPassive \/ MakeAck \/ PlumberAnswers
              \/ BondMake \/ BreakReq \/ BondBreak \/ PlumbBreak
NoxStep    == NoxMakeReq \/ NoxBreakReq \/ NoxBreakAck
NetStep    == Uplink \/ \E d \in Dev : Arrive(d)

(* The client and the packets on their way notice a failure only later.    *)
Failure    == /\ PipeFails \/ ControllerDies \/ \E d \in Dev : Failover(d)
              /\ UNCHANGED <<clientVars, netVars>>

Next == ClientStep \/ MakeReq \/ Quit \/ PlumberServes \/ NoxStep \/ NetStep \/ Send \/ Failure

Spec == Init /\ [][Next]_vars

(* The programs keep running and packets keep moving; the user need not    *)
(* press a key, the sender need not send and nothing need fail.            *)
Fairness == /\ WF_vars(ClientStep) /\ WF_vars(PlumberServes) /\ WF_vars(NoxStep)
            /\ WF_vars(Uplink) /\ \A d \in Dev : WF_vars(Arrive(d))

FairSpec == Spec /\ Fairness
-------------------------------------------------------------------------------
(***************************************************************************)
(* Properties.                                                             *)
(***************************************************************************)
Packet == 1..MaxPackets
Place  == {"start", "plumb_first", "loop", "get_passive", "switch", "make_ack", "plumb_make", "make",
           "sleep", "break_ack", "break", "plumb_break", "exit"}

(* Every variable has its type.                                            *)
TypeOK ==
  /\ pc \in Place /\ {act, pas} \subseteq Dev \cup {NoSlave}
  /\ active \in Dev /\ bufferMode \in BOOLEAN /\ buffer \in Seq(Packet)
  /\ PlumberTypeOK
  /\ nox \in {"ready", "flushing", "dead"} /\ inTransition \in BOOLEAN
  /\ toNox \in Seq({"MAKE_REQ", "BREAK_REQ"}) /\ toClient \in Seq({"MAKE_ACK", "BREAK_ACK"})
  /\ route \in Dev \cup {NoSlave} /\ path \in [Dev -> Seq(Packet)]
  /\ sent \in 0..MaxPackets /\ received \in Seq(Packet) /\ lost \subseteq Packet

(* "Lossless": whenever the two timing assumptions hold, the plumber knows *)
(* all slaves and the dpipes live, every downlink packet finds the pipe of its path connected, over  *)
(* any number of handovers and even if the controller dies during one.     *)
NothingLost == lost = {}

(* What is true of the client program whatever fails.  A request and a     *)
(* message are where the client waits for them, it knows the slaves it     *)
(* speaks of, and buffer mode and transition last from MAKE to BREAK.      *)
RequestInv ==
  /\ request # NoRequest => pc \in {"plumb_first", "plumb_make", "plumb_break"}
  /\ request.verb = "make"  => pc # "plumb_break"
  /\ request.verb = "break" => pc = "plumb_break" /\ request.dev = act

MessagesInv ==
  CASE pc = "make_ack"  -> /\ <<toNox, toClient>> \in {<< <<"MAKE_REQ">>, <<>> >>, << <<>>, <<"MAKE_ACK">> >>}
                           /\ nox # "flushing"
    [] pc = "break_ack" -> \/ toNox = <<"BREAK_REQ">> /\ toClient = <<>> /\ nox # "flushing"
                           \/ toNox = <<>> /\ toClient = <<>> /\ nox # "ready"
                           \/ toNox = <<>> /\ toClient = <<"BREAK_ACK">> /\ nox # "flushing"
    [] OTHER            -> toNox = <<>> /\ toClient = <<>> /\ nox # "flushing"

KnownInv ==
  /\ pc # "start" => act \in Dev
  /\ pc \notin {"start", "plumb_first", "loop", "get_passive", "exit"} => pas \in Dev

QuietInv ==
  /\ buffer = <<>>
  /\ bufferMode   => pc \in {"sleep", "break_ack"}
  /\ inTransition => pc \in {"make_ack", "plumb_make", "make", "sleep"} \/ (pc = "break_ack" /\ toNox # <<>>)

ProgramInv == TypeOK /\ RequestInv /\ MessagesInv /\ KnownInv /\ QuietInv

(* What makes NothingLost inductive.  A path in use ends in a connected    *)
(* pipe; act and pas are the active slave and the other one, exchanged by  *)
(* MAKE; and once BREAK_REQ is acknowledged the path of act is empty and   *)
(* unused.                                                                 *)
Before == {"plumb_first", "get_passive", "switch", "make_ack", "plumb_make", "make"}
Chosen == {"switch", "make_ack", "plumb_make", "make"}
After  == {"sleep", "break_ack", "break", "plumb_break"}

PipesInv ==
  \A d \in Dev : /\ pid[d] <=> pipe[d] # "absent"
                 /\ path[d] # <<>> \/ d = route => pipe[d] = "connected"

RolesInv ==
  /\ pc \in Before => act = active
  /\ pc \in Chosen => pas = Passive(Slaves, act) /\ pas # NoSlave
  /\ pc \in After  => active = pas /\ act \in Dev /\ act # pas

RouteInv ==
  /\ pc = "break_ack" => route = active \/ (nox = "dead" /\ toClient = <<>>)
  /\ pc \in {"break", "plumb_break"} \/ (pc = "break_ack" /\ toClient # <<>>) => route = active /\ Flushed

Reliable == /\ SleepSuffices /\ FlushSuffices /\ ~LinksMayFail /\ ~DpipeMayDie
            /\ ToSet(Slaves) \subseteq Served

(* What makes ActivePlumbed inductive: the slave a make names has a dpipe  *)
(* once it is answered, and the active slave has one from then on.         *)
PlumbedInv ==
  /\ active \in Served /\ (request.verb = "make" => request.dev \in Served)
  /\ \A d \in Dev : pipe[d] # "dead"
  /\ pc = "plumb_first" => request = [verb |-> "make", dev |-> active] \/ pid[active]
  /\ pc = "plumb_make"  => request = [verb |-> "make", dev |-> pas] \/ pid[pas]
  /\ pc = "make" => pid[pas]
  /\ pc \notin {"start", "plumb_first"} => pid[active]

LosslessInv == ProgramInv /\ NothingLost /\ PipesInv /\ RolesInv /\ RouteInv /\ PlumbedInv

(* A packet sent is in one place of one path, or has been received once,   *)
(* or neither; never two of these.                                         *)
PacketsInv ==
  /\ \A d \in Dev : \A i \in 1..Len(path[d]) : path[d][i] <= sent
  /\ \A k \in 1..Len(received) : received[k] <= sent
  /\ \A d, e \in Dev : \A i \in 1..Len(path[d]), j \in 1..Len(path[e]) :
       path[d][i] = path[e][j] => d = e /\ i = j
  /\ \A k, l \in 1..Len(received) : received[k] = received[l] => k = l
  /\ \A d \in Dev : \A i \in 1..Len(path[d]), k \in 1..Len(received) : path[d][i] # received[k]

(* The pipe of the active slave exists from the first make on: MAKE and    *)
(* the plumber's two commands agree on which slave is which.               *)
ActivePlumbed == pc \notin {"start", "plumb_first"} => pipe[active] \in {"starting", "connected"}

(* Between two handovers nothing is left of the last one, in the driver or *)
(* in the controller, whatever has failed meanwhile.                       *)
QuietBetween ==
  pc \in {"loop", "get_passive", "switch"} =>
    /\ ~bufferMode /\ buffer = <<>> /\ ~inTransition
    /\ toNox = <<>> /\ toClient = <<>> /\ nox # "flushing" /\ request = NoRequest

(* A handover once begun is completed unless the controller dies.          *)
HandoverEnds == pc = "make_ack" ~> pc = "loop" \/ nox = "dead"

(* "Intelligently avoids any possible packet reordering due to rerouting   *)
(* of flows": packets reach the network layer in the order they were sent. *)
InOrder == \A i, j \in DOMAIN received : i < j => received[i] < received[j]

(* The handover implements the lossless channel.                           *)
Transit == (UNION {ToSet(path[d]) : d \in Dev}) \cup ToSet(buffer)
Taken   == ToSet(received)

Channel == INSTANCE LosslessChannel WITH transit <- Transit, taken <- Taken

ChannelSpec == Channel!Spec
==============================================================================
