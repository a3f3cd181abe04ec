----------------------------- MODULE MCClients -------------------------------
(***************************************************************************)
(* Clients with the two interfaces of the test bed.                        *)
(***************************************************************************)
EXTENDS Clients

CONSTANTS eth0, eth1

TwoSlaves == <<eth0, eth1>>
==============================================================================
