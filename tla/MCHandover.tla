----------------------------- MODULE MCHandover ------------------------------
(***************************************************************************)
(* Handover with the two interfaces of the test bed.                       *)
(***************************************************************************)
EXTENDS Handover

CONSTANTS eth0, eth1

TwoSlaves == <<eth0, eth1>>
==============================================================================
