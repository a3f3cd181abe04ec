------------------------------ MODULE Plumber --------------------------------
(***************************************************************************)
(* The plumber (src/plumb.c) connects the interfaces of the mobile client  *)
(* to their access points: pipe d is the dpipe process between interface d *)
(* of the client and its access point.  It serves one command at a time;   *)
(* a command is answered when it has been carried out, which for a make    *)
(* means that the process has been forked.                                 *)
(***************************************************************************)
EXTENDS SlaveList

CONSTANTS
  Served,       \* the two interfaces (the digits '0' and '1') the plumber knows
  DpipeMayDie   \* may a dpipe process end without being killed?

ASSUME ServedAssumption == \E c, d \in Dev : c # d /\ Served = {c, d}
ASSUME DpipeAssumption  == DpipeMayDie \in BOOLEAN

VARIABLES
  pid,      \* eth0_pid > 0, eth1_pid > 0
  pipe,     \* the dpipe process: absent, starting, connected or dead
  request   \* the command on the connection of the client, or its answer

plumberVars == <<pid, pipe, request>>

NoRequest == [verb |-> "none", dev |-> NoSlave]
Answer    == [verb |-> "executed", dev |-> NoSlave]
Command   == [verb : {"make", "break"}, dev : Dev]

PlumberTypeOK == /\ pid \in [Dev -> BOOLEAN]
                 /\ pipe \in [Dev -> {"absent", "starting", "connected", "dead"}]
                 /\ request \in Command \cup {NoRequest, Answer}

PlumberInit == /\ pid = [d \in Dev |-> FALSE]
               /\ pipe = [d \in Dev |-> "absent"]
               /\ request = NoRequest

(* A make forks unless there is a pid from an earlier make, dead or alive. *)
(* A name the plumber does not know is answered like any other.            *)
Forks(d) == d \in Served /\ ~pid[d]

Fork(d) ==
  /\ pid'  = IF Forks(d) THEN [pid EXCEPT ![d] = TRUE] ELSE pid
  /\ pipe' = IF Forks(d) THEN [pipe EXCEPT ![d] = "starting"] ELSE pipe

Mutant_ServeMake ==   \* no answer if there is nothing to do
  /\ request.verb = "make" /\ Fork(request.dev)
  /\ request' = IF Forks(request.dev) THEN Answer ELSE NoRequest

ServeMake ==
  /\ request.verb = "make" /\ Fork(request.dev)
  /\ request' = Answer

(* Nothing has ever been forked for a name the plumber does not know.      *)
ServeBreak ==
  LET d == request.dev
  IN  /\ request.verb = "break"
      /\ pid'  = [pid EXCEPT ![d] = FALSE]
      /\ pipe' = IF pid[d] THEN [pipe EXCEPT ![d] = "absent"] ELSE pipe
      /\ request' = Answer

(* The forked process has connected the two switches.                      *)
DpipeConnects(d) ==
  /\ pipe[d] = "starting"
  /\ pipe' = [pipe EXCEPT ![d] = "connected"]
  /\ UNCHANGED <<pid, request>>

DpipeDies(d) ==
  /\ DpipeMayDie /\ pipe[d] \in {"starting", "connected"}
  /\ pipe' = [pipe EXCEPT ![d] = "dead"]
  /\ UNCHANGED <<pid, request>>
==============================================================================
