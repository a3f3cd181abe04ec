------------------------------ MODULE Clients --------------------------------
(***************************************************************************)
(* The four client programs of src/src, one of which runs:                 *)
(*   "soft"    hoolock_client.cc, the program of Handover;                 *)
(*   "quiet"   client.cc, the same without the ping after MAKE;            *)
(*   "hard"    hard_client.cc, which breaks before it makes and talks to   *)
(*             the plumber alone;                                          *)
(*   "simple"  simple_client.cc, which stays where it is;                  *)
(* and what all of them do besides: they run an iperf server whose output  *)
(* goes through a connection to the output handler (src/output_handler.c), *)
(* which serves one connection after the other.                            *)
(***************************************************************************)
EXTENDS Handover

CONSTANTS
  Programs,   \* the client programs considered
  Backlog,    \* connections the output handler lets wait (5 in the code)
  HardDev     \* the interface both access points are connected to for the hard handover

ASSUME ProgramsAssumption == Programs \subseteq {"soft", "quiet", "hard", "simple"}
ASSUME BacklogAssumption  == Backlog \in Nat
ASSUME HardDevAssumption  == HardDev \in Dev
ASSUME HardAssumption     == "hard" \in Programs => ToSet(Slaves) \subseteq Served

VARIABLES
  client,   \* the program that runs
  iperf,    \* does its iperf server run?
  conn,     \* connections to the output handler, the first is being served: who holds it open
  alone     \* did the hard client begin with no process but that of the active slave?

outputVars  == <<iperf, conn>>
clientsVars == <<vars, client, outputVars, alone>>

ClientsInit == /\ Init
               /\ client \in Programs /\ iperf = FALSE /\ conn = <<>> /\ alone = TRUE

-------------------------------------------------------------------------------
(***************************************************************************)
(* The iperf server and the output handler.                                *)
(***************************************************************************)

(* The user presses <enter>: connect, and fork a child that inherits the   *)
(* connection as its standard output.                                      *)
StartIperf == /\ ~iperf /\ iperf' = TRUE
              /\ Len(conn) <= Backlog
              /\ conn' = Append(conn, {"client", "iperf"})

Mutant_StopIperf ==   \* the client forgets to close its end
  /\ iperf /\ iperf' = FALSE
  /\ conn' = [conn EXCEPT ![Len(conn)] = @ \ {"iperf"}]

(* kill and close; a ping that still runs has the connection too.          *)
StopIperf == /\ iperf /\ iperf' = FALSE
             /\ conn' = [conn EXCEPT ![Len(conn)] = @ \ {"client", "iperf"}]

(* The ping in the background inherits the connection, and ends by itself. *)
StartPing == /\ iperf' = iperf
             /\ conn' = [conn EXCEPT ![Len(conn)] = @ \cup {"ping"}]

PingEnds == /\ \E i \in DOMAIN conn : "ping" \in conn[i] /\ conn' = [conn EXCEPT ![i] = @ \ {"ping"}]
            /\ UNCHANGED <<vars, client, iperf, alone>>

(* A client that ends closes its end; an iperf server it has not killed    *)
(* keeps the other one.                                                    *)
Orphan == /\ iperf' = iperf
          /\ conn' = [conn EXCEPT ![Len(conn)] = @ \ {"client"}]

(* <enter> at the last prompt of the loop.                                 *)
KillIperf == pc = "loop" /\ StopIperf /\ UNCHANGED <<vars, client, alone>>

(* The handler reads the end of file: close the output and accept the next *)
(* connection.                                                             *)
NextOutput == /\ conn # <<>> /\ Head(conn) = {}
              /\ conn' = Tail(conn)
              /\ UNCHANGED <<vars, client, iperf, alone>>

-------------------------------------------------------------------------------
(***************************************************************************)
(* hoolock_client.cc and client.cc.                                        *)
(***************************************************************************)

(* Without a ping nothing need have gone through the new access point by   *)
(* the end of the sleep.                                                   *)
QuietBreakReq ==
  /\ pc = "sleep" /\ pc' = "break_ack"
  /\ toNox' = Append(toNox, "BREAK_REQ")
  /\ UNCHANGED <<act, pas, bondVars, plumberVars, nox, inTransition, toClient, netVars>>

(* Between its prompts.                                                    *)
SoftRuns ==
  /\ \/ (FirstMake \/ MakeAck \/ PlumberAnswers \/ BondBreak \/ PlumbBreak) /\ UNCHANGED outputVars
     \/ client = "soft"  /\ BondMake /\ StartPing
     \/ client = "quiet" /\ BondMake /\ UNCHANGED outputVars
     \/ client = "soft"  /\ BreakReq /\ UNCHANGED outputVars
     \/ client = "quiet" /\ QuietBreakReq /\ UNCHANGED outputVars
     \/ GetPassive /\ IF pc' = "exit" THEN Orphan ELSE UNCHANGED outputVars
  /\ client \in {"soft", "quiet"} /\ UNCHANGED <<client, alone>>

SoftUser ==
  /\ \/ GetActive /\ StartIperf
     \/ MakeReq /\ UNCHANGED outputVars
     \/ Quit /\ StopIperf
  /\ client \in {"soft", "quiet"} /\ UNCHANGED <<client, alone>>

-------------------------------------------------------------------------------
(***************************************************************************)
(* hard_client.cc.  act and pas are here the access points, known by their *)
(* digit.                                                                  *)
(***************************************************************************)
OtherDev(d) == CHOOSE e \in Served : e # d

Forked == {d \in Dev : pid[d]}   \* what the plumber has a process for

HardLoop ==
  /\ pc = "loop" /\ pc' = "switch" /\ StartIperf
  /\ pas' = OtherDev(act)
  /\ UNCHANGED <<act, bondVars, plumberVars, noxVars, netVars>>

Mutant_HardBreak ==   \* breaks the access point it is about to make
  /\ pc = "switch" /\ pc' = "plumb_break"
  /\ Ask("break", pas)
  /\ UNCHANGED <<act, pas, bondVars, noxVars, netVars, outputVars>>

HardBreak ==
  /\ pc = "switch" /\ pc' = "plumb_break"
  /\ Ask("break", act)
  /\ UNCHANGED <<act, pas, bondVars, noxVars, netVars, outputVars>>

(* After the artificial sleep of 150 ms.                                   *)
HardMake ==
  /\ pc = "make" /\ pc' = "plumb_make"
  /\ Ask("make", pas)
  /\ UNCHANGED <<act, pas, bondVars, noxVars, netVars>>

(* The plumber's answer; once the make is answered the roles are swapped   *)
(* and a ping is started.                                                  *)
HardAnswers ==
  /\ request = Answer /\ request' = NoRequest
  /\ IF pc = "plumb_make" THEN StartPing ELSE UNCHANGED outputVars
  /\ pc'  = IF pc = "plumb_break" THEN "make" ELSE "loop"
  /\ act' = IF pc = "plumb_make" THEN OtherDev(act) ELSE act
  /\ UNCHANGED <<pas, bondVars, pid, pipe, noxVars, netVars>>

HardRuns == /\ client = "hard" /\ UNCHANGED client
            /\ \/ FirstMake /\ alone' = (Forked \subseteq {active}) /\ UNCHANGED outputVars
               \/ HardMake /\ UNCHANGED <<outputVars, alone>>
               \/ HardAnswers /\ UNCHANGED alone

HardUser == /\ client = "hard" /\ UNCHANGED <<client, alone>>
            /\ HardLoop \/ HardBreak \/ (Quit /\ StopIperf)

-------------------------------------------------------------------------------
(***************************************************************************)
(* simple_client.cc.                                                       *)
(***************************************************************************)
SimpleRuns == /\ client = "simple" /\ UNCHANGED <<client, outputVars, alone>>
              /\ FirstMake \/ PlumberAnswers

SimpleUser == client = "simple" /\ pc = "loop" /\ StartIperf /\ UNCHANGED <<vars, client, alone>>

-------------------------------------------------------------------------------
(* A program is started after the last one has ended.  The bond, the       *)
(* network and the plumber, which is one for hard handovers or one for the *)
(* others, are as that one has left them.                                  *)
Restart ==
  /\ pc = "exit" /\ pc' = "start" /\ act' = NoSlave /\ pas' = NoSlave
  /\ client' \in Programs /\ (client' = "hard" <=> client = "hard")
  /\ nox # "dead" \/ client' = "hard"
  /\ iperf' = FALSE
  /\ UNCHANGED <<bondVars, plumberVars, noxVars, netVars, conn, alone>>

-------------------------------------------------------------------------------
(***************************************************************************)
(* The surroundings are those of Handover.  With one interface, whatever   *)
(* pipe is connected carries the uplink packets, and a client that moves   *)
(* without telling the controller is learnt at its new access point.       *)
(***************************************************************************)
HardUplink ==
  /\ client = "hard" /\ active = HardDev /\ nox = "ready"
  /\ \E d \in Dev \ {route} : pipe[d] = "connected" /\ route' = d
  /\ UNCHANGED <<clientVars, bondVars, plumberVars, noxVars, path, sent, received, lost>>

UplinkStep == ((client # "hard" /\ Uplink) \/ HardUplink) /\ UNCHANGED <<client, outputVars, alone>>

Surroundings == /\ \/ PlumberServes \/ NoxStep \/ Send \/ Failure
                   \/ \E d \in Dev : Arrive(d)
                /\ UNCHANGED <<client, outputVars, alone>>

ProgramStep == SoftRuns \/ HardRuns \/ SimpleRuns
UserStep    == SoftUser \/ HardUser \/ SimpleUser \/ KillIperf \/ Restart
OutputStep  == PingEnds \/ NextOutput

ClientsNext == ProgramStep \/ UserStep \/ OutputStep \/ UplinkStep \/ Surroundings

(* As in Handover: programs, packets, pings and the output handler keep    *)
(* moving, the user need not press a key.                                  *)
ClientsFairness ==
  /\ WF_clientsVars(ProgramStep) /\ WF_clientsVars(PingEnds) /\ WF_clientsVars(NextOutput) /\ WF_clientsVars(UplinkStep)
  /\ WF_clientsVars(PlumberServes /\ UNCHANGED <<client, outputVars, alone>>)
  /\ WF_clientsVars(NoxStep /\ UNCHANGED <<client, outputVars, alone>>)
  /\ \A d \in Dev : WF_clientsVars(Arrive(d) /\ UNCHANGED <<client, outputVars, alone>>)

ClientsSpec == ClientsInit /\ [][ClientsNext]_clientsVars /\ ClientsFairness
-------------------------------------------------------------------------------
(***************************************************************************)
(* Properties.                                                             *)
(***************************************************************************)

(* A hard handover: the interface is never connected to two access points  *)
(* at once (which would be a loop through the switch), and between two     *)
(* handovers the plumber agrees with the client on which one it is, dead   *)
(* dpipes included (hard_client.cc keeps that in act_ch alone).  Excepted  *)
(* is a client that begins where an earlier one has left the process of    *)
(* another access point than that of the active slave: neither it nor the  *)
(* plumber looks at that one (plumb.c:80, 95).                             *)
OneAssociation ==
  client = "hard" /\ alone =>
    /\ \A d, e \in Dev : pid[d] /\ pid[e] => d = e
    /\ pc \in {"loop", "switch"} => pid[act]

(* What makes OneAssociation inductive: the only process is that of act,   *)
(* between the answers of the plumber none at all, and the next one that   *)
(* of pas.                                                                 *)
AloneInv ==
  /\ pc = "start" => \E d \in Dev : Forked \subseteq {d}
  /\ pc = "make"  => Forked = {}
  /\ pc \in {"loop", "switch", "exit"} => Forked = {act}
  /\ pc = "plumb_first" => \/ request = [verb |-> "make", dev |-> act] /\ Forked \subseteq {act}
                           \/ request = Answer /\ Forked = {act}
  /\ pc = "plumb_break" => \/ request.verb = "break" /\ Forked = {act}
                           \/ request = Answer /\ Forked = {}
  /\ pc = "plumb_make"  => \/ request = [verb |-> "make", dev |-> pas] /\ Forked = {}
                           \/ request = Answer /\ Forked = {pas}

HardInv ==
  client = "hard" =>
    /\ ~inTransition /\ active \in Served
    /\ pc \in {"start", "plumb_first", "loop", "switch", "plumb_break", "make", "plumb_make", "exit"}
    /\ pc # "start" => act \in Served
    /\ pc \in {"switch", "plumb_break", "make", "plumb_make"} => pas = OtherDev(act)
    /\ alone => AloneInv

ClientsInv == ProgramInv /\ client \in Programs /\ alone \in BOOLEAN /\ HardInv

(* An iperf server that has ended leaves a connection that the output      *)
(* handler gets to the end of, so that the next experiment has a file of   *)
(* its own.                                                                *)
OutputEnds == ~iperf ~> iperf \/ conn = <<>>
==============================================================================
