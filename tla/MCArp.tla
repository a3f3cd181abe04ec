-------------------------------- MODULE MCArp --------------------------------
(***************************************************************************)
(* The ARP monitors of the driver of 2.6.27 on small sets of devices.      *)
(***************************************************************************)
EXTENDS ArpMonitor
==============================================================================
