------------------------------- MODULE MCKernel -------------------------------
(* Two parts of the kernel that share no state, in one run: a behaviour is *)
(* about what a bond sets on its devices, or about the life of the devices.*)
EXTENDS DeviceSettings, NetDevices

(* Without is the SelectSeq it stands for.                                 *)
ASSUME FlushAssumption ==
  \A q \in UNION {[1..n -> Nic] : n \in 0..4}, d \in Nic : Without(q, d) = SelectSeq(q, LAMBDA e : e # d)

VARIABLE part

KernelInit ==
  /\ SettingsInit /\ NetInit /\ ver = port
  /\ \/ part = "settings"
     \/ part = "devices" /\ setting = "mtu" /\ \A m \in Mtus : m <= bondMtu

KernelNext ==
  /\ \/ part = "settings" /\ SettingsNext /\ UNCHANGED netVars
     \/ part = "devices" /\ NetNext /\ UNCHANGED setVars
  /\ UNCHANGED part

KernelSpec == KernelInit /\ [][KernelNext]_<<setVars, netVars, part>> /\ NetFairness
===============================================================================
