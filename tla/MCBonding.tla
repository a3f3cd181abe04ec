------------------------------ MODULE MCBonding ------------------------------
(***************************************************************************)
(* Bonding on small sets of devices.  The slaves are interchangeable when  *)
(* no primary is configured.                                               *)
(***************************************************************************)
EXTENDS Bonding

Symmetry == Permutations(Dev)
==============================================================================
