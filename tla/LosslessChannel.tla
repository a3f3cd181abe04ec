--------------------------- MODULE LosslessChannel ---------------------------
(***************************************************************************)
(* What a handover promises to the sender of a downlink flow: a packet is  *)
(* in transit from the moment it is sent until the client receives it, is  *)
(* received once, and is received in the end.  The order of reception is   *)
(* not promised.                                                           *)
(***************************************************************************)
EXTENDS Naturals

CONSTANT MaxPackets   \* the number of packets of the flow

VARIABLES sent,       \* the number of packets sent
          transit,    \* the packets sent and not received
          taken       \* the packets the client has received

vars == <<sent, transit, taken>>

Init == sent = 0 /\ transit = {} /\ taken = {}

Send ==
  /\ sent < MaxPackets
  /\ sent' = sent + 1
  /\ transit' = transit \cup {sent + 1}
  /\ UNCHANGED taken

(* One packet, or all those a buffer held back.                            *)
Receive ==
  \E S \in SUBSET transit :
    /\ S # {}
    /\ transit' = transit \ S
    /\ taken' = taken \cup S
    /\ UNCHANGED sent

Next == Send \/ Receive

Spec == Init /\ [][Next]_vars /\ WF_vars(Receive)
==============================================================================
