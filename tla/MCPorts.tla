------------------------------- MODULE MCPorts -------------------------------
(***************************************************************************)
(* The bonding drivers of both kernels with either of their link monitors, *)
(* on small sets of devices.                                               *)
(***************************************************************************)
EXTENDS Bonding24
==============================================================================
