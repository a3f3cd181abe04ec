---------------------------- MODULE ClientsProofs ----------------------------
(***************************************************************************)
(* Theorems about the four client programs, for all values of the          *)
(* constants: whatever fails, and however long the controller and the      *)
(* plumber take.  The steps they share with Handover are those of          *)
(* HandoverProofs.                                                         *)
(***************************************************************************)
EXTENDS Clients, HandoverProofs

(* Only the clients "soft" and "quiet" take the steps of Handover's        *)
(* program; whoever runs, they keep its invariant.                         *)
LEMMA QuietBreakReqProgram ==
  ASSUME ProgramInv, QuietBreakReq
  PROVE  ProgramInv'
<1> USE DEF ProgramInv, QuietBreakReq
<1>1. toNox' = <<"BREAK_REQ">> /\ toClient = <<>> /\ nox # "flushing"
  BY OneMessage DEF MessagesInv
<1>2. TypeOK'
  BY DEF TypeOK, PlumberTypeOK, Place, bondVars, plumberVars, netVars
<1>3. RequestInv' /\ KnownInv'
  BY DEF RequestInv, KnownInv, plumberVars
<1>4. MessagesInv'
  BY <1>1, OneMessage DEF MessagesInv
<1>5. QuietInv'
  BY <1>1, OneMessage DEF QuietInv, bondVars
<1>6. QED BY <1>2, <1>3, <1>4, <1>5

LEMMA SoftRunsProgram ==
  ASSUME ProgramInv, SoftRuns
  PROVE  ProgramInv'
  BY FirstMakeProgram, MakeAckProgram, PlumberAnswersProgram, BondMakeProgram, BondBreakProgram,
     PlumbBreakProgram, BreakReqProgram, QuietBreakReqProgram, GetPassiveProgram DEF SoftRuns

LEMMA SoftUserProgram ==
  ASSUME ProgramInv, SoftUser
  PROVE  ProgramInv'
  BY GetActiveProgram, MakeReqProgram, QuitProgram DEF SoftUser

(* There is another interface to hand over to.                             *)
LEMMA OtherDevFacts ==
  ASSUME NEW d \in Served
  PROVE  d \in Dev /\ OtherDev(d) \in Served /\ OtherDev(d) \in Dev /\ OtherDev(d) # d
<1>1. Served \subseteq Dev /\ \E e \in Served : e # d
  BY ServedAssumption
<1>2. QED BY <1>1 DEF OtherDev

(* Every slave of the bond can be plumbed if there is a hard client.       *)
LEMMA SlavesServed ==
  ASSUME "hard" \in Programs
  PROVE  Slaves[1] \in Served /\ \A d \in ToSet(Slaves) : d \in Served
  BY HardAssumption, SlavesAssumption DEF ToSet

(* The program of the hard handover asks the plumber alone, and its        *)
(* requests are where it waits for them.                                   *)
LEMMA HardLoopKeeps ==
  ASSUME ClientsInv, client = "hard", HardLoop
  PROVE  ProgramInv' /\ (UNCHANGED <<client, alone>> => HardInv')
<1> USE DEF ClientsInv, ProgramInv, HardLoop
<1>1. act \in Served /\ act \in Dev /\ pas' \in Dev
  BY OtherDevFacts DEF KnownInv, HardInv
<1>2. TypeOK'
  BY <1>1 DEF TypeOK, PlumberTypeOK, Place, bondVars, plumberVars, noxVars, netVars
<1>3. RequestInv' /\ MessagesInv' /\ KnownInv' /\ QuietInv'
  BY <1>1 DEF RequestInv, MessagesInv, KnownInv, QuietInv, bondVars, plumberVars, noxVars
<1>4. UNCHANGED <<client, alone>> => HardInv'
  BY <1>1 DEF HardInv, AloneInv, Forked, bondVars, plumberVars, noxVars
<1>5. QED BY <1>2, <1>3, <1>4

LEMMA HardBreakKeeps ==
  ASSUME ClientsInv, client = "hard", HardBreak
  PROVE  ProgramInv' /\ (UNCHANGED <<client, alone>> => HardInv')
<1> USE DEF ClientsInv, ProgramInv, HardBreak, Ask
<1>1. act \in Dev /\ pas \in Dev
  BY DEF KnownInv
<1>2. TypeOK'
  BY <1>1 DEF TypeOK, PlumberTypeOK, Command, Place, bondVars, noxVars, netVars
<1>3. RequestInv' /\ MessagesInv' /\ KnownInv' /\ QuietInv'
  BY <1>1, RequestKinds DEF RequestInv, MessagesInv, KnownInv, QuietInv, bondVars, noxVars
<1>4. UNCHANGED <<client, alone>> => HardInv'
  BY RequestKinds DEF HardInv, AloneInv, Forked, bondVars, noxVars
<1>5. QED BY <1>2, <1>3, <1>4

LEMMA HardMakeKeeps ==
  ASSUME ClientsInv, client = "hard", HardMake
  PROVE  ProgramInv' /\ (UNCHANGED <<client, alone>> => HardInv')
<1> USE DEF ClientsInv, ProgramInv, HardMake, Ask
<1>1. act \in Dev /\ pas \in Dev
  BY DEF KnownInv
<1>2. TypeOK'
  BY <1>1 DEF TypeOK, PlumberTypeOK, Command, Place, bondVars, noxVars, netVars
<1>3. RequestInv' /\ MessagesInv' /\ KnownInv' /\ QuietInv'
  BY <1>1, RequestKinds DEF RequestInv, MessagesInv, KnownInv, QuietInv, HardInv, bondVars, noxVars
<1>4. UNCHANGED <<client, alone>> => HardInv'
  BY RequestKinds DEF HardInv, AloneInv, Forked, bondVars, noxVars
<1>5. QED BY <1>2, <1>3, <1>4

(* Once the make is answered the roles are swapped.                        *)
LEMMA HardAnswersKeeps ==
  ASSUME ClientsInv, client = "hard", HardAnswers
  PROVE  ProgramInv' /\ (UNCHANGED <<client, alone>> => HardInv')
<1> USE DEF ClientsInv, ProgramInv, HardAnswers
<1>1. /\ pc \in {"plumb_first", "plumb_break", "plumb_make"} /\ act \in Served /\ act \in Dev
      /\ pc = "plumb_make" => pas = OtherDev(act) /\ pas \in Dev
  BY RequestKinds DEF RequestInv, KnownInv, HardInv
<1>2. act' \in Served /\ act' \in Dev /\ pc' \in {"make", "loop"}
  BY <1>1, OtherDevFacts
<1>3. TypeOK'
  BY <1>2 DEF TypeOK, PlumberTypeOK, Place, bondVars, noxVars, netVars
<1>4. RequestInv' /\ KnownInv'
  BY <1>1, <1>2, RequestKinds DEF RequestInv, KnownInv
<1>5. MessagesInv' /\ QuietInv'
  BY <1>1, <1>2 DEF MessagesInv, QuietInv, HardInv, bondVars, noxVars
<1>6. UNCHANGED <<client, alone>> => HardInv'
  BY <1>1, <1>2, RequestKinds DEF HardInv, AloneInv, Forked, bondVars, noxVars
<1>7. QED BY <1>3, <1>4, <1>5, <1>6

(* The plumber forks and kills what the client has named.                  *)
LEMMA PlumberServesHard ==
  ASSUME ClientsInv, PlumberServes, UNCHANGED <<client, alone>>
  PROVE  HardInv'
<1> SUFFICES ASSUME client = "hard"
             PROVE  HardInv'
  BY DEF HardInv
<1> USE DEF ClientsInv, ProgramInv, PlumberServes
<1>0. UNCHANGED <<pc, act, pas, inTransition, active>>
  BY DEF clientVars, bondVars, noxVars
<1>1. SUFFICES ASSUME alone
               PROVE  AloneInv'
  BY <1>0 DEF HardInv
<1>2. AloneInv
  BY <1>1 DEF HardInv
<1>3. CASE ServeMake
  <2>1. request.dev \in Dev /\ pc \in {"plumb_first", "plumb_make"} /\ request # Answer
    BY <1>3, RequestKinds DEF TypeOK, PlumberTypeOK, Command, RequestInv, HardInv, ServeMake
  <2>2. request.dev = (IF pc = "plumb_first" THEN act ELSE pas) /\ Forked \subseteq {request.dev}
    BY <1>2, <1>3, <2>1, RequestKinds DEF AloneInv, ServeMake
  <2>3. request.dev \in Served
    BY <2>1, <2>2, OtherDevFacts DEF HardInv
  <2>4. Forked' = {request.dev} /\ request' = Answer
    BY <1>3, <2>1, <2>2, <2>3 DEF TypeOK, PlumberTypeOK, Forked, ServeMake, Fork, Forks
  <2>5. QED BY <1>0, <2>1, <2>2, <2>4 DEF AloneInv
<1>4. CASE ServeBreak
  <2>1. request.dev = act /\ pc = "plumb_break" /\ act \in Dev
    BY <1>4 DEF RequestInv, KnownInv, ServeBreak
  <2>2. Forked' = Forked \ {act} /\ request' = Answer
    BY <1>4, <2>1 DEF TypeOK, PlumberTypeOK, Forked, ServeBreak
  <2>3. Forked \subseteq {act}
    BY <1>2, <2>1 DEF AloneInv
  <2>4. QED BY <1>0, <2>1, <2>2, <2>3 DEF AloneInv
<1>5. CASE \E d \in Dev : DpipeConnects(d)
  BY <1>0, <1>2, <1>5 DEF DpipeConnects, AloneInv, Forked
<1>6. QED BY <1>3, <1>4, <1>5

(* What else happens leaves the hard client's processes alone.             *)
LEMMA OthersHard ==
  ASSUME ClientsInv, UNCHANGED <<client, alone>>,
         NoxStep \/ Send \/ Failure \/ Uplink \/ HardUplink \/ \E d \in Dev : Arrive(d)
  PROVE  HardInv'
<1> SUFFICES ASSUME client = "hard"
             PROVE  HardInv'
  BY DEF HardInv
<1>1. pc # "make_ack"
  BY DEF ClientsInv, HardInv
<1>2. toNox = <<>>
  BY <1>1 DEF ClientsInv, ProgramInv, HardInv, MessagesInv
<1>3. UNCHANGED <<pc, act, pas, inTransition, pid, request>>
  BY <1>2 DEF NoxStep, NoxMakeReq, NoxBreakReq, NoxBreakAck, Send, Failure, PipeFails, ControllerDies,
      Failover, DpipeDies, Uplink, HardUplink, Arrive, clientVars, noxVars, plumberVars
<1>4. active' \in Served
  <2>1. active' = active \/ active' \in ToSet(Slaves)
    BY DEF NoxStep, NoxMakeReq, NoxBreakReq, NoxBreakAck, Send, Failure, PipeFails, ControllerDies,
        Failover, DpipeDies, Uplink, HardUplink, Arrive, bondVars
  <2>2. QED BY <2>1, SlavesServed DEF ClientsInv, HardInv
<1>5. QED BY <1>3, <1>4 DEF ClientsInv, HardInv, AloneInv, Forked

(* The uplink packets of the hard client.                                  *)
LEMMA HardUplinkProgram ==
  ASSUME ProgramInv, HardUplink
  PROVE  ProgramInv'
<1> USE DEF ProgramInv, HardUplink
<1>1. TypeOK'
  BY DEF TypeOK, PlumberTypeOK, clientVars, bondVars, plumberVars, noxVars
<1>2. RequestInv' /\ MessagesInv' /\ KnownInv' /\ QuietInv'
  BY DEF RequestInv, MessagesInv, KnownInv, QuietInv, clientVars, bondVars, plumberVars, noxVars
<1>3. QED BY <1>1, <1>2

(* The first make: is there another process than that of the active slave? *)
LEMMA FirstMakeHard ==
  ASSUME ClientsInv, FirstMake, client' = client, alone' = (Forked \subseteq {active})
  PROVE  HardInv'
<1> SUFFICES ASSUME client = "hard"
             PROVE  HardInv'
  BY DEF HardInv
<1> USE DEF ClientsInv, FirstMake, Ask
<1>1. /\ act' = active /\ act' \in Served /\ active' = active /\ inTransition' = inTransition
      /\ Forked' = Forked /\ pc' = "plumb_first" /\ request' = [verb |-> "make", dev |-> act']
  BY DEF HardInv, Forked, bondVars, noxVars
<1>2. alone' => AloneInv'
  BY <1>1 DEF AloneInv
<1>3. QED BY <1>1, <1>2 DEF HardInv

(* The end of the program, and the beginning of another.                   *)
LEMMA QuitHard ==
  ASSUME ClientsInv, Quit, UNCHANGED <<client, alone>>
  PROVE  HardInv'
  BY DEF ClientsInv, HardInv, AloneInv, Forked, Quit, bondVars, plumberVars, noxVars

LEMMA RestartProgram ==
  ASSUME ProgramInv, Restart
  PROVE  ProgramInv'
<1> USE DEF ProgramInv, Restart
<1>1. TypeOK'
  BY DEF TypeOK, PlumberTypeOK, Place, bondVars, plumberVars, noxVars, netVars
<1>2. RequestInv' /\ KnownInv'
  BY DEF RequestInv, KnownInv, plumberVars
<1>3. MessagesInv'
  BY DEF MessagesInv, noxVars
<1>4. QuietInv'
  BY DEF QuietInv, bondVars, noxVars
<1>5. QED BY <1>1, <1>2, <1>3, <1>4

LEMMA RestartHard ==
  ASSUME ClientsInv, Restart
  PROVE  HardInv'
<1> SUFFICES ASSUME client = "hard"
             PROVE  HardInv'
  BY DEF HardInv, Restart
<1> USE DEF ClientsInv, Restart
<1>1. /\ active' \in Served /\ inTransition' = inTransition /\ Forked' = Forked /\ pc' = "start"
      /\ alone' = alone
  BY DEF HardInv, Forked, bondVars, plumberVars, noxVars
<1>2. alone => \E d \in Dev : Forked \subseteq {d}
  BY OtherDevFacts DEF HardInv, AloneInv
<1>3. alone' => AloneInv'
  BY <1>1, <1>2 DEF AloneInv
<1>4. QED BY <1>1, <1>3 DEF HardInv

(* Whatever happens with files and connections happens to no client.       *)
LEMMA UnchangedProgram ==
  ASSUME ClientsInv, UNCHANGED <<vars, client, alone>>
  PROVE  ClientsInv'
<1>1. ProgramInv'
  BY StepProgram DEF ClientsInv
<1>2. HardInv'
  BY DEF ClientsInv, HardInv, AloneInv, Forked, vars, clientVars, bondVars, plumberVars, noxVars
<1>3. QED BY <1>1, <1>2 DEF ClientsInv

LEMMA StepClients ==
  ASSUME ClientsInv, [ClientsNext]_clientsVars
  PROVE  ClientsInv'
<1>1. CASE UNCHANGED clientsVars \/ OutputStep \/ KillIperf \/ SimpleUser
  BY <1>1, UnchangedProgram DEF clientsVars, OutputStep, PingEnds, NextOutput, KillIperf, SimpleUser
<1>2. CASE SoftRuns \/ SoftUser
  <2>1. ProgramInv'
    BY <1>2, SoftRunsProgram, SoftUserProgram DEF ClientsInv
  <2>2. client' = client /\ client # "hard" /\ alone' = alone
    BY <1>2 DEF SoftRuns, SoftUser
  <2>3. QED BY <2>1, <2>2 DEF ClientsInv, HardInv
<1>3. CASE HardRuns
  <2>1. ProgramInv' /\ HardInv'
    BY <1>3, FirstMakeProgram, FirstMakeHard, HardMakeKeeps, HardAnswersKeeps DEF HardRuns, ClientsInv
  <2>2. QED BY <1>3, <2>1 DEF ClientsInv, HardRuns
<1>4. CASE HardUser
  <2>1. ProgramInv' /\ HardInv'
    BY <1>4, QuitProgram, QuitHard, HardLoopKeeps, HardBreakKeeps DEF HardUser, ClientsInv
  <2>2. QED BY <1>4, <2>1 DEF ClientsInv, HardUser
<1>5. CASE SimpleRuns
  <2>1. ProgramInv'
    BY <1>5, FirstMakeProgram, PlumberAnswersProgram DEF SimpleRuns, ClientsInv
  <2>2. QED BY <1>5, <2>1 DEF ClientsInv, HardInv, SimpleRuns
<1>6. CASE UplinkStep
  <2>1. ProgramInv' /\ HardInv' /\ client' = client /\ alone' = alone
    BY <1>6, UplinkProgram, HardUplinkProgram, OthersHard DEF UplinkStep, ClientsInv
  <2>2. QED BY <2>1 DEF ClientsInv
<1>7. CASE Surroundings
  <2>1. PlumberServes \/ NoxStep \/ Send \/ Failure \/ \E d \in Dev : Arrive(d)
    BY <1>7 DEF Surroundings
  <2>2. ProgramInv'
    BY <2>1, StepProgram DEF ClientsInv, Next, NetStep
  <2>3. UNCHANGED <<client, alone>>
    BY <1>7 DEF Surroundings
  <2>4. HardInv'
    BY <2>1, <2>3, PlumberServesHard, OthersHard
  <2>5. QED BY <2>2, <2>3, <2>4 DEF ClientsInv
<1>8. CASE Restart
  <2>1. ProgramInv' /\ HardInv'
    BY <1>8, RestartProgram, RestartHard DEF ClientsInv
  <2>2. QED BY <1>8, <2>1 DEF ClientsInv, Restart
<1>9. QED BY <1>1, <1>2, <1>3, <1>4, <1>5, <1>6, <1>7, <1>8 DEF ClientsNext, ProgramStep, UserStep

(* The invariant of the four programs.                                     *)
THEOREM ClientsInvariant == ClientsSpec => []ClientsInv
<1>1. ClientsInit => ClientsInv
  <2>1. ASSUME ClientsInit PROVE ClientsInv
    <3>1. ProgramInv
      BY <2>1, InitiallyProgram DEF ClientsInit
    <3>2. HardInv
      BY <2>1, SlavesServed, ServedAssumption DEF ClientsInit, Init, PlumberInit, HardInv, AloneInv, Forked
    <3>3. QED BY <2>1, <3>1, <3>2 DEF ClientsInit, ClientsInv
  <2>2. QED BY <2>1
<1>2. ClientsInv /\ [ClientsNext]_clientsVars => ClientsInv'
  BY StepClients
<1>3. QED BY <1>1, <1>2, PTL DEF ClientsSpec

(* Every variable of the client, the plumber and the controller has its    *)
(* type, whichever program runs.                                           *)
THEOREM ClientsTypes == ClientsSpec => []TypeOK
<1>1. ClientsInv => TypeOK
  BY DEF ClientsInv, ProgramInv
<1>2. QED BY <1>1, ClientsInvariant, PTL

(* Between two handovers nothing is left of the last one, whichever        *)
(* program runs and whatever fails.                                        *)
THEOREM ClientsQuiet == ClientsSpec => []QuietBetween
<1>1. ClientsInv => QuietBetween
  BY ProgramQuiet DEF ClientsInv
<1>2. QED BY <1>1, ClientsInvariant, PTL

(* The hard handover never connects the interface to two access points,    *)
(* and agrees with the plumber on which one it is, for any number of them  *)
(* and of hard clients one after the other, unless one begins where the    *)
(* last has left the other access point (main of hard_client.cc, plumb.c). *)
THEOREM HardAssociation == ClientsSpec => []OneAssociation
<1>1. ClientsInv => OneAssociation
  <2> SUFFICES ASSUME ClientsInv, client = "hard", alone
               PROVE  /\ \A d, e \in Dev : pid[d] /\ pid[e] => d = e
                      /\ pc \in {"loop", "switch"} => pid[act]
    BY DEF OneAssociation
  <2>1. AloneInv
    BY DEF ClientsInv, HardInv
  <2>2. \E x : Forked \subseteq {x}
    BY <2>1 DEF ClientsInv, HardInv, AloneInv
  <2>3. \A d, e \in Dev : pid[d] /\ pid[e] => d = e
    BY <2>2 DEF Forked
  <2>4. pc \in {"loop", "switch"} => act \in Forked
    BY <2>1 DEF AloneInv
  <2>5. QED BY <2>3, <2>4 DEF Forked
<1>2. QED BY <1>1, ClientsInvariant, PTL
==============================================================================
