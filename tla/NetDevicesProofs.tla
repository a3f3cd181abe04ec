--------------------------- MODULE NetDevicesProofs ---------------------------
(***************************************************************************)
(* Theorems about the life of the devices, for any threads, processors,    *)
(* drivers' devices and backlog.                                           *)
(***************************************************************************)
EXTENDS NetDevicesLemmas

-------------------------------------------------------------------------------
(***************************************************************************)
(* The steps of the packets.                                               *)
(***************************************************************************)

(* Packets change no list, no lock and no slave.                           *)
LEMMA PacketsKeep ==
  ASSUME NetInv, crashed = "no", UNCHANGED <<ver, bondVars, threadVars, crashed>>, dev' \in Devices,
         \A e \in Device : dev'[e].reg = dev[e].reg /\ (dev'[e].up => dev[e].up),
         dev[Bond].reg = "uninitialized" => dev'[Bond].held = 0
  PROVE  LocksInv' /\ ListsInv' /\ AskedInv' /\ SlavesInv' /\ NoBugOn'
<1> USE DEF NetInv, bondVars, threadVars
<1>1. Bond \in Device /\ Nic \subseteq Device /\ \A t \in Thread : unreg[t] # None => unreg[t] \in Device
  BY DEF Device, NetTypeOK
<1>2. LocksInv'
  BY <1>1 DEF LocksInv
<1>3. ListsInv'
  <2>1. /\ todo \in Seq(Device) /\ ToSet(todo) \subseteq Device
        /\ \A t \in Thread : snap[t] \in Seq(Device) /\ ToSet(snap[t]) \subseteq Device
    BY ListFacts DEF NetTypeOK
  <2>2. QED BY <1>1, <2>1 DEF ListsInv
<1>4. AskedInv'
  <2>1. \A t \in Thread : asked[t] \subseteq Device
    BY <1>1 DEF NetTypeOK
  <2>2. QED BY <1>1, <2>1 DEF AskedInv
<1>5. SlavesInv'
  <2>1. slaves \subseteq Device
    BY <1>1 DEF NetTypeOK
  <2>2. \A d \in Device : Listed(d)' <=> Listed(d)
    BY DEF Listed
  <2>3. \A d \in Device : Told(d) => Told(d)'
    BY <2>2 DEF Told
  <2>4. QED BY <1>1, <2>1, <2>2, <2>3 DEF SlavesInv
<1>6. NoBugOn'
  BY DEF NoBugOn
<1>7. QED BY <1>2, <1>3, <1>4, <1>5, <1>6

(* Two ways to say that a device has no packets.                           *)
LEMMA ReceivingFacts ==
  ASSUME NEW b, NEW d
  PROVE  IsFiniteSet(Receiving(b, d)) /\ Cardinality(Receiving(b, d)) \in Nat
<1>1. Receiving(b, d) \in SUBSET Cpu
  BY DEF Receiving
<1>2. QED BY <1>1, NetAssumption, FS_Subset, FS_CardinalityType

(* No packets are counted if there are none.                               *)
LEMMA NoPackets ==
  ASSUME NEW q, NEW b, NEW d
  PROVE  /\ Queued(q, d) = {} <=> Cardinality(Queued(q, d)) = 0
         /\ Receiving(b, d) = {} <=> Cardinality(Receiving(b, d)) = 0
  BY QueuedFacts, ReceivingFacts, FS_EmptySet

(* The count of a device whose registration does not change.               *)
LEMMA HoldersKeep ==
  ASSUME UNCHANGED <<ver, slaves, unreg>>, NEW d \in Device, dev'[d].reg = dev[d].reg
  PROVE  /\ Own(d)' <=> Own(d)
         /\ Holders(d)' = dev'[d].held + (IF Own(d) THEN 1 ELSE 0) + (IF d = Bond THEN Cardinality(slaves) ELSE 0)
              + (IF ver = "2.6.24" THEN Cardinality(Receiving(busy', d)) + Cardinality(Queued(backlog', d)) ELSE 0)
<1>1. Own(d)' <=> Own(d)
  BY DEF Own
<1>2. QED BY <1>1 DEF Holders

(* A driver queues a packet of its device, which is up.                    *)
LEMMA NetifRxKeeps ==
  ASSUME NetInv, crashed = "no", NEW c \in Cpu, NEW d \in Nic, NetifRx(c, d)
  PROVE  NetInv'
<1> USE DEF NetInv, NetifRx
<1>1. d \in Device /\ dev \in Devices /\ backlog \in Queues /\ Listed(d) /\ ver \in {"2.6.24", "2.6.27"} /\ d # Bond
  BY NetAssumption DEF NetTypeOK, SlavesInv, Device
<1>2. /\ dev' \in Devices
      /\ \A e \in Device :
           /\ dev'[e].reg = dev[e].reg /\ (dev'[e].up => dev[e].up) /\ dev'[e].held = dev[e].held
           /\ dev'[e].ref = IF e = d /\ ver = "2.6.24" THEN dev[e].ref + 1 ELSE dev[e].ref
  BY <1>1, HoldFacts DEF OfPacket
<1>3. LocksInv' /\ ListsInv' /\ AskedInv' /\ SlavesInv' /\ NoBugOn'
  <2>1. dev[Bond].reg = "uninitialized" => dev'[Bond].held = 0
    BY <1>2 DEF SlavesInv, Device
  <2>2. QED BY <1>2, <2>1, PacketsKeep
<1>4. /\ backlog' \in Queues
      /\ \A e \in Device : Cardinality(Queued(backlog', e)) =
           IF e = d THEN Cardinality(Queued(backlog, e)) + 1 ELSE Cardinality(Queued(backlog, e))
  <2>1. c \in Cpu /\ Len(backlog[c]) <= MaxBacklog /\ backlog' = [backlog EXCEPT ![c] = Append(backlog[c], d)]
    OBVIOUS
  <2>2. Append(backlog[c], d) \in Seq(Nic) /\ Len(Append(backlog[c], d)) <= MaxBacklog + 1
    BY <1>1, <2>1, NetAssumption, AppendFacts DEF Queues
  <2>3. backlog' \in Queues
    BY <1>1, <2>1, <2>2 DEF Queues
  <2>4. backlog'[c] = Append(backlog[c], d) /\ \A x \in Cpu \ {c} : backlog'[x] = backlog[x]
    BY <1>1, <2>1 DEF Queues
  <2>5. ASSUME NEW e \in Device
        PROVE  Cardinality(Queued(backlog', e)) =
                 IF e = d THEN Cardinality(Queued(backlog, e)) + 1 ELSE Cardinality(Queued(backlog, e))
    <3>1. Len(backlog[c]) <= MaxBacklog
      OBVIOUS
    <3> HIDE DEF NetInv, NetifRx
    <3>2. QED BY <1>1, <2>3, <2>4, <3>1, QueuedAppend
  <2>6. QED BY <2>3, <2>5
<1>5. NetTypeOK'
  <2>1. polling' \in [Cpu -> BOOLEAN]
    BY <1>1 DEF NetTypeOK
  <2>2. QED BY <1>2, <1>4, <2>1 DEF NetTypeOK, bondVars, threadVars
<1>6. RefsExact'
  <2> SUFFICES ASSUME NEW e \in Device \ strays PROVE (dev[e].ref = Holders(e))'
    BY DEF RefsExact
  <2>1. dev[e].ref = Holders(e) /\ dev[e].ref \in Int /\ dev[e].held \in Int
    BY <1>1, DeviceFacts DEF RefsExact
  <2>2. Cardinality(Queued(backlog, e)) \in Nat /\ Cardinality(Receiving(busy, e)) \in Nat /\ Cardinality(slaves) \in Nat
    BY QueuedFacts, ReceivingFacts, FS_CardinalityType DEF NetTypeOK
  <2>3. Holders(e)' = dev'[e].held + (IF Own(e) THEN 1 ELSE 0) + (IF e = Bond THEN Cardinality(slaves) ELSE 0)
          + (IF ver = "2.6.24" THEN Cardinality(Receiving(busy', e)) + Cardinality(Queued(backlog', e)) ELSE 0)
    BY <1>2, HoldersKeep DEF threadVars, bondVars
  <2>0. UNCHANGED <<ver, slaves, busy>>
    BY DEF bondVars
  <2> HIDE DEF NetInv, NetifRx
  <2>4. CASE ver = "2.6.24"
    <3>1. CASE e = d
      BY <1>1, <1>2, <1>4, <2>0, <2>1, <2>2, <2>3, <2>4, <3>1 DEF Holders
    <3>2. CASE e # d
      BY <1>1, <1>2, <1>4, <2>0, <2>1, <2>2, <2>3, <2>4, <3>2 DEF Holders
    <3>3. QED BY <3>1, <3>2
  <2>5. CASE ver # "2.6.24"
    BY <1>2, <2>1, <2>2, <2>3, <2>5 DEF Holders
  <2>6. QED BY <2>4, <2>5
<1>7. LeftInv'
  BY <1>1, <1>2 DEF LeftInv, Listed, threadVars
<1>8. FlushedInv'
  <2> SUFFICES ASSUME NEW e \in Device \ strays, ver = "2.6.27", dev[e].reg \in {"unregistered", "released"},
                      \A t \in Thread : ~(pc[t] = "flush" /\ e = Head(snap[t]))
               PROVE  Receiving(busy, e) = {} /\ Queued(backlog', e) = {}
    BY <1>2 DEF FlushedInv, threadVars
  <2>1. Receiving(busy, e) = {} /\ Queued(backlog, e) = {} /\ e # d
    BY <1>1 DEF FlushedInv, Listed
  <2>2. QED BY <1>4, <2>1, NoPackets
<1>9. QED BY <1>3, <1>5, <1>6, <1>7, <1>8

(* A packet goes from the queue to the protocols.                          *)
LEMMA ProcessBacklogKeeps ==
  ASSUME NetInv, crashed = "no", NEW c \in Cpu, ProcessBacklog(c)
  PROVE  NetInv'
<1> USE DEF NetInv, ProcessBacklog
<1>1. dev \in Devices /\ backlog \in Queues /\ busy \in [Cpu -> Nic \cup {None}] /\ ver \in {"2.6.24", "2.6.27"}
      /\ None \notin Device
  BY NetAssumption DEF NetTypeOK, Device
<1>2. LocksInv' /\ ListsInv' /\ AskedInv' /\ SlavesInv' /\ NoBugOn'
  <2>1. dev[Bond].reg = "uninitialized" => dev'[Bond].held = 0
    BY DEF SlavesInv
  <2>2. QED BY <1>1, <2>1, PacketsKeep
<1>3. LeftInv'
  BY DEF LeftInv, threadVars
<1>4. CASE backlog[c] = <<>>
  <2>1. NetTypeOK'
    BY <1>4 DEF NetTypeOK, bondVars, threadVars
  <2>2. RefsExact'
    BY <1>4 DEF RefsExact, Holders, Own, bondVars, threadVars
  <2>3. FlushedInv'
    BY <1>4 DEF FlushedInv, threadVars
  <2>4. QED BY <1>2, <1>3, <2>1, <2>2, <2>3
<1>5. CASE backlog[c] # <<>>
  <2> DEFINE d == Head(backlog[c])
  <2>1. d \in Nic /\ Tail(backlog[c]) \in Seq(Nic) /\ Len(Tail(backlog[c])) = Len(backlog[c]) - 1 /\ Len(backlog[c]) \in Nat
    BY <1>1, <1>5, TailFacts DEF Queues
  <2>2. backlog' = [backlog EXCEPT ![c] = Tail(backlog[c])] /\ busy' = [busy EXCEPT ![c] = d] /\ polling' = polling
    BY <1>5
  <2> HIDE DEF d
  <2>3. backlog' \in Queues
    <3> HIDE DEF NetInv, ProcessBacklog
    <3>1. MaxBacklog \in Nat
      BY NetAssumption
    <3>2. backlog \in [Cpu -> Seq(Nic)] /\ \A b \in Cpu : Len(backlog[b]) <= MaxBacklog + 1
      BY <1>1 DEF Queues
    <3> DEFINE T == Tail(backlog[c])
    <3>3. T \in Seq(Nic) /\ Len(T) <= MaxBacklog + 1
      BY <2>1, <3>1, <3>2
    <3>4. backlog' = [backlog EXCEPT ![c] = T]
      BY <2>2
    <3> HIDE DEF T
    <3>5. backlog' \in [Cpu -> Seq(Nic)] /\ \A b \in Cpu : backlog'[b] = IF b = c THEN T ELSE backlog[b]
      BY <3>2, <3>3, <3>4
    <3>6. QED BY <3>2, <3>3, <3>5 DEF Queues
  <2>4. ASSUME NEW e \in Device
        PROVE  /\ Cardinality(Queued(backlog', e)) =
                    IF e = d THEN Cardinality(Queued(backlog, e)) - 1 ELSE Cardinality(Queued(backlog, e))
               /\ Cardinality(Receiving(busy', e)) =
                    IF e = d THEN Cardinality(Receiving(busy, e)) + 1 ELSE Cardinality(Receiving(busy, e))
    <3>1. backlog'[c] = Tail(backlog[c]) /\ \A x \in Cpu \ {c} : backlog'[x] = backlog[x]
      BY <1>1, <2>2 DEF Queues
    <3>2. Receiving(busy', e) = IF e = d THEN Receiving(busy, e) \cup {c} ELSE Receiving(busy, e)
      BY <1>1, <2>2 DEF Receiving
    <3>3. c \notin Receiving(busy, e)
      BY <1>1 DEF Receiving
    <3>4. Cardinality(Receiving(busy', e)) =
            IF e = d THEN Cardinality(Receiving(busy, e)) + 1 ELSE Cardinality(Receiving(busy, e))
      BY <3>2, <3>3, ReceivingFacts, FS_AddElement
    <3>5. Cardinality(Queued(backlog', e)) =
            IF e = Head(backlog[c]) THEN Cardinality(Queued(backlog, e)) - 1 ELSE Cardinality(Queued(backlog, e))
      BY <1>1, <1>5, <2>3, <3>1, QueuedTail
    <3>6. QED BY <3>4, <3>5 DEF d
  <2>5. NetTypeOK'
    BY <1>1, <2>1, <2>2, <2>3 DEF NetTypeOK, bondVars, threadVars
  <2>6. RefsExact'
    <3> SUFFICES ASSUME NEW e \in Device \ strays PROVE (dev[e].ref = Holders(e))'
      BY DEF RefsExact
    <3>1. dev[e].ref = Holders(e) /\ dev[e].ref \in Int /\ dev[e].held \in Int
      BY <1>1, DeviceFacts DEF RefsExact
    <3>2. Cardinality(Queued(backlog, e)) \in Nat /\ Cardinality(Receiving(busy, e)) \in Nat /\ Cardinality(slaves) \in Nat
      BY QueuedFacts, ReceivingFacts, FS_CardinalityType DEF NetTypeOK
    <3>3. Holders(e)' = dev'[e].held + (IF Own(e) THEN 1 ELSE 0) + (IF e = Bond THEN Cardinality(slaves) ELSE 0)
            + (IF ver = "2.6.24" THEN Cardinality(Receiving(busy', e)) + Cardinality(Queued(backlog', e)) ELSE 0)
      BY HoldersKeep DEF threadVars, bondVars
    <3>4. QED BY <2>4, <3>1, <3>2, <3>3 DEF Holders
  <2>7. FlushedInv'
    <3> SUFFICES ASSUME NEW e \in Device \ strays, ver = "2.6.27", dev[e].reg \in {"unregistered", "released"},
                        \A t \in Thread : ~(pc[t] = "flush" /\ e = Head(snap[t]))
                 PROVE  Receiving(busy', e) = {} /\ Queued(backlog', e) = {}
      BY DEF FlushedInv, threadVars
    <3>1. Receiving(busy, e) = {} /\ Queued(backlog, e) = {}
      BY DEF FlushedInv
    <3>2. Cardinality(Queued(backlog, e)) = 0 /\ Cardinality(Receiving(busy, e)) = 0 /\ Cardinality(Queued(backlog', e)) \in Nat
      BY <3>1, NoPackets, QueuedFacts
    <3>3. Cardinality(Queued(backlog', e)) = 0 /\ Cardinality(Receiving(busy', e)) = 0
      BY <2>4, <3>2
    <3>4. QED BY <3>3, NoPackets
  <2>8. QED BY <1>2, <1>3, <2>5, <2>6, <2>7
<1>6. QED BY <1>4, <1>5

(* A processor goes offline with its queue.                                *)
LEMMA CpuDiesKeeps ==
  ASSUME NetInv, crashed = "no", NEW c \in Cpu, CpuDies(c)
  PROVE  NetInv'
<1> USE DEF NetInv, CpuDies
<1>1. LocksInv' /\ ListsInv' /\ AskedInv' /\ SlavesInv' /\ NoBugOn'
  <2>1. dev[Bond].reg = "uninitialized" => dev'[Bond].held = 0
    BY DEF SlavesInv
  <2>2. QED BY <2>1, PacketsKeep DEF NetTypeOK
<1>2. NetTypeOK'
  BY DEF NetTypeOK, bondVars, threadVars
<1>3. RefsExact' /\ LeftInv' /\ FlushedInv'
  BY DEF RefsExact, Holders, Own, LeftInv, FlushedInv, bondVars, threadVars
<1>4. QED BY <1>1, <1>2, <1>3

(* A packet that has been received lets its device go; a protocol holds    *)
(* one that is not at its end.                                             *)
LEMMA NetifReceiveKeeps ==
  ASSUME NetInv, crashed = "no", NEW c \in Cpu, NetifReceive(c)
  PROVE  NetInv'
<1> USE DEF NetInv
<1> DEFINE d == busy[c]
<1> DEFINE target == IF d \in slaves THEN Bond ELSE d
<1> DEFINE D == OfPacket(DevPut(dev, d))
<1>1. /\ d # None /\ busy' = [busy EXCEPT ![c] = None]
      /\ \/ dev' = D
         \/ /\ dev[target].held = 0 /\ dev[target].reg # "released"
            /\ dev' = [DevHold(D, target) EXCEPT ![target].held = 1]
      /\ UNCHANGED <<ver, bondVars, threadVars, backlog, polling, alive, strays, crashed>>
  BY DEF NetifReceive
<1>2. /\ dev \in Devices /\ d \in Nic /\ d \in Device /\ d # Bond /\ Bond \in Device /\ target \in Device
      /\ ver \in {"2.6.24", "2.6.27"} /\ busy \in [Cpu -> Nic \cup {None}] /\ None \notin Device
  BY <1>1, NetAssumption DEF NetTypeOK, Device
<1>3. c \in Receiving(busy, d) /\ \A e \in Device : Receiving(busy', e) = IF e = d THEN Receiving(busy, e) \ {c} ELSE Receiving(busy, e)
  BY <1>1, <1>2 DEF Receiving
<1>4. target = Bond => dev[Bond].reg \in {"registered", "unregistering"}
  BY <1>2 DEF SlavesInv, Told, Listed, LocksInv, NetTypeOK
<1>5. d \notin strays /\ dev[d].reg \in {"unregistered", "released"} =>
        dev[d].ref # 0 \/ \E t \in Thread : d \in ToSet(snap[t])
  <2> SUFFICES ASSUME d \notin strays, dev[d].reg \in {"unregistered", "released"}, dev[d].ref = 0,
                      \A t \in Thread : d \notin ToSet(snap[t])
               PROVE  FALSE
    OBVIOUS
  <2>1. CASE ver = "2.6.24"
    <3>1. /\ Cardinality(Queued(backlog, d)) \in Nat /\ Cardinality(Receiving(busy, d)) \in Nat
          /\ Cardinality(Receiving(busy, d)) # 0
      BY <1>3, QueuedFacts, ReceivingFacts, NoPackets
    <3>2. dev[d].ref = Holders(d) /\ dev[d].held \in {0, 1}
      BY <1>2, DeviceFacts DEF RefsExact
    <3> HIDE DEF d
    <3>3. QED BY <1>2, <2>1, <3>1, <3>2 DEF Holders
  <2>2. CASE ver = "2.6.27"
    <3>1. PICK t \in Thread : pc[t] = "flush" /\ d = Head(snap[t])
      BY <1>2, <1>3, <2>2 DEF FlushedInv
    <3>2. snap[t] # <<>> /\ snap[t] \in Seq(Device)
      BY <3>1 DEF ListsInv, NetTypeOK
    <3>3. QED BY <3>1, <3>2, ListFacts
  <2>3. QED BY <1>2, <2>1, <2>2
<1>6. /\ D \in Devices
      /\ \A e \in Device :
           /\ D[e].reg = dev[e].reg /\ (D[e].up => dev[e].up) /\ D[e].held = dev[e].held
           /\ D[e].ref = IF e = d /\ ver = "2.6.24" THEN dev[e].ref - 1 ELSE dev[e].ref
  BY <1>2, PutFacts DEF OfPacket
<1> HIDE DEF D
<1>7. /\ dev' \in Devices
      /\ \A e \in Device : dev'[e].reg = dev[e].reg /\ (dev'[e].up => dev[e].up)
      /\ \/ \A e \in Device : dev'[e].ref = D[e].ref /\ dev'[e].held = dev[e].held
         \/ /\ dev[target].reg # "released" /\ dev[target].held = 0
            /\ dev'[target].ref = D[target].ref + 1 /\ dev'[target].held = 1
            /\ \A e \in Device \ {target} : dev'[e].ref = D[e].ref /\ dev'[e].held = dev[e].held
  <2>1. CASE dev' = D
    BY <1>6, <2>1
  <2>2. CASE /\ dev[target].held = 0 /\ dev[target].reg # "released"
             /\ dev' = [DevHold(D, target) EXCEPT ![target].held = 1]
    <3> HIDE DEF target, d
    <3> DEFINE H == DevHold(D, target)
    <3>1. /\ H \in Devices
          /\ \A e \in Device : /\ H[e].reg = D[e].reg /\ (H[e].up => D[e].up) /\ H[e].held = D[e].held
                               /\ H[e].ref = IF e = target THEN D[e].ref + 1 ELSE D[e].ref
      BY <1>2, <1>6, HoldFacts
    <3>2. dev' = [H EXCEPT ![target] = [H[target] EXCEPT !.held = 1]]
      BY <2>2
    <3> HIDE DEF H
    <3> DEFINE x == H[target]
    <3>3. x \in NetDevice /\ dev'[target] = [x EXCEPT !.held = 1] /\ \A e \in Device \ {target} : dev'[e] = H[e]
      BY <1>2, <3>1, <3>2 DEF Devices
    <3>4. /\ dev'[target] \in NetDevice /\ dev'[target].reg = x.reg /\ dev'[target].up = x.up
          /\ dev'[target].ref = x.ref /\ dev'[target].held = 1
      <4> HIDE DEF x
      <4>1. QED BY <3>3 DEF NetDevice
    <3>5. dev' \in Devices
      BY <1>2, <3>1, <3>2, <3>4 DEF Devices
    <3>6. ASSUME NEW e \in Device PROVE dev'[e].reg = dev[e].reg /\ (dev'[e].up => dev[e].up)
      <4>1. CASE e = target
        BY <1>6, <3>1, <3>4, <4>1
      <4>2. CASE e # target
        BY <1>6, <3>1, <3>3, <4>2
      <4>3. QED BY <4>1, <4>2
    <3>7. QED BY <1>2, <1>6, <2>2, <3>1, <3>3, <3>4, <3>5, <3>6
  <2>3. QED BY <1>1, <2>1, <2>2
<1>8. LocksInv' /\ ListsInv' /\ AskedInv' /\ SlavesInv' /\ NoBugOn'
  <2>1. dev[Bond].reg = "uninitialized" => dev'[Bond].held = 0
    BY <1>2, <1>4, <1>7 DEF SlavesInv
  <2>2. QED BY <1>1, <1>7, <2>1, PacketsKeep
<1>9. NetTypeOK'
  BY <1>1, <1>2, <1>7 DEF NetTypeOK, bondVars, threadVars
<1>10. RefsExact'
  <2> SUFFICES ASSUME NEW e \in Device \ strays PROVE (dev[e].ref = Holders(e))'
    BY <1>1 DEF RefsExact
  <2>1. dev[e].ref = Holders(e) /\ dev[e].ref \in Int /\ dev[e].held \in Int
    BY <1>2, DeviceFacts DEF RefsExact
  <2>2. Cardinality(Queued(backlog, e)) \in Nat /\ Cardinality(Receiving(busy, e)) \in Nat /\ Cardinality(slaves) \in Nat
    BY QueuedFacts, ReceivingFacts, FS_CardinalityType DEF NetTypeOK
  <2>3. Holders(e)' = dev'[e].held + (IF Own(e) THEN 1 ELSE 0) + (IF e = Bond THEN Cardinality(slaves) ELSE 0)
          + (IF ver = "2.6.24" THEN Cardinality(Receiving(busy', e)) + Cardinality(Queued(backlog', e)) ELSE 0)
    BY <1>1, <1>7, HoldersKeep DEF threadVars, bondVars
  <2>4. Cardinality(Receiving(busy', e)) =
          IF e = d THEN Cardinality(Receiving(busy, e)) - 1 ELSE Cardinality(Receiving(busy, e))
    BY <1>3, ReceivingFacts, FS_RemoveElement
  <2>5. dev'[e].ref - dev'[e].held = D[e].ref - dev[e].held /\ dev'[e].ref \in Int /\ dev'[e].held \in Int
    <3>1. D[e].ref \in Int /\ dev'[e].ref \in Int /\ dev'[e].held \in Int
      BY <1>6, <1>7, DeviceFacts
    <3> HIDE DEF target
    <3>2. CASE e = target
      BY <1>7, <2>1, <3>1, <3>2
    <3>3. CASE e # target
      BY <1>7, <2>1, <3>1, <3>3
    <3>4. QED BY <3>2, <3>3
  <2>6. Holders(e) = dev[e].held + (IF Own(e) THEN 1 ELSE 0) + (IF e = Bond THEN Cardinality(slaves) ELSE 0)
          + (IF ver = "2.6.24" THEN Cardinality(Receiving(busy, e)) + Cardinality(Queued(backlog, e)) ELSE 0)
    BY DEF Holders
  <2>7. backlog' = backlog /\ D[e].ref = IF e = d /\ ver = "2.6.24" THEN dev[e].ref - 1 ELSE dev[e].ref
    BY <1>1, <1>6
  <2> HIDE DEF d, NetInv
  <2>8. CASE ver = "2.6.24" /\ e = d
    BY <2>1, <2>2, <2>3, <2>4, <2>5, <2>6, <2>7, <2>8
  <2>9. CASE ~(ver = "2.6.24" /\ e = d)
    BY <2>1, <2>2, <2>3, <2>4, <2>5, <2>6, <2>7, <2>9
  <2>10. QED BY <2>8, <2>9
<1>11. LeftInv'
  <2> SUFFICES ASSUME NEW e \in Device \ strays, dev[e].reg \in {"unregistered", "released"},
                      \A t \in Thread : e \notin ToSet(snap[t])
               PROVE  dev'[e].ref = 0
    BY <1>1, <1>7 DEF LeftInv, threadVars
  <2>1. dev[e].ref = 0
    BY DEF LeftInv
  <2>2. e # d /\ e # target
    BY <1>4, <1>5, <2>1
  <2>3. QED BY <1>6, <1>7, <2>1, <2>2
<1>12. FlushedInv'
  BY <1>1, <1>3, <1>7 DEF FlushedInv, threadVars
<1>13. QED BY <1>8, <1>9, <1>10, <1>11, <1>12

(* The packets of a dead processor are moved; 2.6.24 loses sight of them.  *)
LEMMA DevCpuCallbackKeeps ==
  ASSUME NetInv, crashed = "no", NEW c \in Cpu, NEW to \in Cpu, DevCpuCallback(c, to)
  PROVE  NetInv'
<1> USE DEF NetInv
<1> DEFINE d == Head(backlog[c])
<1> DEFINE fits == Len(backlog[to]) <= MaxBacklog
<1>1. /\ c \notin alive /\ to \in alive /\ backlog[c] # <<>>
      /\ backlog' = [backlog EXCEPT ![c] = Tail(backlog[c]),
                                    ![to] = IF fits THEN Append(backlog[to], d) ELSE backlog[to]]
      /\ polling' = [polling EXCEPT ![to] = polling[to] \/ (fits /\ backlog[to] = <<>>)]
      /\ dev' = IF fits THEN OfPacket(DevHold(dev, d)) ELSE dev
      /\ strays' = IF ver = "2.6.24" THEN strays \cup {d} ELSE strays
      /\ UNCHANGED <<ver, bondVars, threadVars, busy, alive, crashed>>
  <2>1. c # to
    BY DEF DevCpuCallback
  <2>2. QED BY <2>1 DEF DevCpuCallback, NetTypeOK, Queues
<1>2. dev \in Devices /\ backlog \in Queues /\ ver \in {"2.6.24", "2.6.27"} /\ c # to /\ Nic \subseteq Device /\ Bond \notin Nic
  BY <1>1, NetAssumption DEF NetTypeOK, Device
<1>3. /\ d \in Nic /\ Tail(backlog[c]) \in Seq(Nic)
      /\ Len(Tail(backlog[c])) = Len(backlog[c]) - 1 /\ Len(backlog[c]) \in Nat /\ Len(backlog[to]) \in Nat
      /\ backlog[to] \in Seq(Nic)
  BY <1>1, <1>2, TailFacts DEF Queues
<1>4. Append(backlog[to], d) \in Seq(Nic) /\ Len(Append(backlog[to], d)) = Len(backlog[to]) + 1
  BY <1>3, AppendFacts
<1> HIDE DEF d
<1>5. backlog' \in Queues /\ backlog'[c] = Tail(backlog[c])
      /\ (backlog'[to] = backlog[to] \/ backlog'[to] = Append(backlog[to], d))
      /\ \A x \in Cpu \ {c, to} : backlog'[x] = backlog[x]
  <2>1. /\ backlog'[c] = Tail(backlog[c]) /\ \A x \in Cpu \ {c, to} : backlog'[x] = backlog[x]
        /\ backlog'[to] = IF fits THEN Append(backlog[to], d) ELSE backlog[to]
    BY <1>1, <1>2 DEF Queues
  <2> HIDE DEF NetInv
  <2>2. ASSUME NEW x \in Cpu PROVE backlog'[x] \in Seq(Nic) /\ Len(backlog'[x]) <= MaxBacklog + 1
    <3>1. CASE x = c
      <4>1. Len(backlog[c]) <= MaxBacklog + 1 /\ MaxBacklog \in Nat
        BY <1>2, NetAssumption DEF Queues
      <4> DEFINE r == Tail(backlog[c])
      <4>2. r \in Seq(Nic) /\ Len(r) = Len(backlog[c]) - 1 /\ backlog'[c] = r
        BY <1>3, <2>1
      <4> HIDE DEF r
      <4>3. QED BY <1>3, <3>1, <4>1, <4>2
    <3>2. CASE x = to
      <4>1. Len(backlog[to]) <= MaxBacklog + 1 /\ MaxBacklog \in Nat
        BY <1>2, NetAssumption DEF Queues
      <4> DEFINE r == Append(backlog[to], d)
      <4>2. r \in Seq(Nic) /\ Len(r) = Len(backlog[to]) + 1
            /\ backlog'[to] = IF fits THEN r ELSE backlog[to]
        BY <1>4, <2>1
      <4> HIDE DEF r
      <4>3. QED BY <1>3, <3>2, <4>1, <4>2
    <3>3. CASE x \notin {c, to}
      BY <1>2, <2>1, <3>3 DEF Queues
    <3>4. QED BY <3>1, <3>2, <3>3
  <2>3. backlog' \in Queues
    <3>1. backlog' = [x \in Cpu |-> backlog'[x]]
      BY <1>1, <1>2 DEF Queues
    <3>2. QED BY <2>2, <3>1 DEF Queues
  <2>4. QED BY <2>1, <2>3
<1>6. ASSUME NEW e \in Device, e # d
      PROVE  Cardinality(Queued(backlog', e)) = Cardinality(Queued(backlog, e))
  <2>1. \A x \in Cpu \ {c} : \/ backlog'[x] = backlog[x]
                             \/ \E g \in Nic : g # e /\ backlog'[x] = Append(backlog[x], g)
    BY <1>3, <1>5, <1>6
  <2>2. backlog[c] # <<>> /\ e # Head(backlog[c])
    BY <1>1, <1>6 DEF d
  <2>3. backlog' \in Queues /\ backlog'[c] = Tail(backlog[c]) /\ backlog \in Queues
    BY <1>2, <1>5
  <2> HIDE DEF NetInv
  <2>4. QED BY <2>1, <2>2, <2>3, QueuedTail
<1>7. /\ dev' \in Devices
      /\ \A e \in Device :
           /\ dev'[e].reg = dev[e].reg /\ (dev'[e].up => dev[e].up) /\ dev'[e].held = dev[e].held
           /\ e # d \/ ver = "2.6.27" => dev'[e].ref = dev[e].ref
  <2>1. CASE dev' = dev
    BY <1>2, <2>1
  <2>2. CASE ver = "2.6.24" /\ dev' = DevHold(dev, d)
    BY <1>2, <1>3, <2>2, HoldFacts
  <2>3. QED BY <1>1, <1>2, <2>1, <2>2 DEF OfPacket
<1>8. LocksInv' /\ ListsInv' /\ AskedInv' /\ SlavesInv' /\ NoBugOn'
  <2>1. dev[Bond].reg = "uninitialized" => dev'[Bond].held = 0
    BY <1>7 DEF SlavesInv, Device
  <2>2. QED BY <1>1, <1>7, <2>1, PacketsKeep
<1>9. NetTypeOK'
  <2>1. polling' \in [Cpu -> BOOLEAN]
    BY <1>1 DEF NetTypeOK
  <2>2. QED BY <1>1, <1>2, <1>3, <1>5, <1>7, <2>1 DEF NetTypeOK, bondVars, threadVars
<1>10. RefsExact'
  <2> SUFFICES ASSUME NEW e \in Device \ strays' PROVE (dev[e].ref = Holders(e))'
    BY DEF RefsExact
  <2>1. e \in Device \ strays /\ (ver = "2.6.24" => e # d)
    BY <1>1
  <2>2. dev[e].ref = Holders(e)
    BY <2>1 DEF RefsExact
  <2>3. Holders(e)' = dev'[e].held + (IF Own(e) THEN 1 ELSE 0) + (IF e = Bond THEN Cardinality(slaves) ELSE 0)
          + (IF ver = "2.6.24" THEN Cardinality(Receiving(busy', e)) + Cardinality(Queued(backlog', e)) ELSE 0)
    BY <1>1, <1>7, HoldersKeep DEF threadVars, bondVars
  <2>4. dev'[e].ref = dev[e].ref /\ dev'[e].held = dev[e].held /\ busy' = busy
        /\ (ver = "2.6.24" => Cardinality(Queued(backlog', e)) = Cardinality(Queued(backlog, e)))
    BY <1>1, <1>2, <1>6, <1>7, <2>1
  <2> HIDE DEF NetInv
  <2>5. QED BY <2>2, <2>3, <2>4 DEF Holders
<1>11. LeftInv'
  BY <1>1, <1>2, <1>7 DEF LeftInv, threadVars
<1>12. FlushedInv'
  <2> SUFFICES ASSUME NEW e \in Device \ strays, ver = "2.6.27", dev[e].reg \in {"unregistered", "released"},
                      \A t \in Thread : ~(pc[t] = "flush" /\ e = Head(snap[t]))
               PROVE  Receiving(busy, e) = {} /\ Queued(backlog', e) = {}
    BY <1>1, <1>7 DEF FlushedInv, threadVars
  <2>1. Receiving(busy, e) = {} /\ Queued(backlog, e) = {}
    BY DEF FlushedInv
  <2>2. <<c, 1>> \in Queued(backlog, d)
    BY <1>1, <1>2, <1>3, TailFacts, NetAssumption DEF Queues, Queued, d
  <2>3. e # d
    BY <2>1, <2>2
  <2>4. QED BY <1>6, <2>1, <2>3, NoPackets
<1>13. QED BY <1>8, <1>9, <1>10, <1>11, <1>12

-------------------------------------------------------------------------------
(***************************************************************************)
(* The operations that hold rtnl throughout.                               *)
(***************************************************************************)

(* Nobody is being told of an unregistration when rtnl is free.            *)
LEMMA NobodyNotified ==
  ASSUME NetInv, rtnl = None
  PROVE  /\ \A t \in Thread : unreg[t] = None /\ pc[t] \notin {"notify", "put", "unlock", "dead"}
         /\ \A d \in slaves : Listed(d)
         /\ slaves # {} => Listed(Bond)
<1>1. \A t \in Thread : t # None
  BY NetAssumption
<1>2. \A t \in Thread : unreg[t] = None /\ pc[t] \notin {"notify", "put", "unlock", "dead"}
  BY <1>1 DEF NetInv, LocksInv
<1>3. QED BY <1>2 DEF NetInv, SlavesInv, Told

(* Such an operation changes no list; the devices it touches are           *)
(* registered.                                                             *)
LEMMA ShortKeeps ==
  ASSUME NetInv, crashed = "no", NEW t \in Thread, NEW then \in {"idle", "sysfs"}, LockForShort(t, then),
         strays \subseteq strays',
         \/ then = "idle" /\ creator' = creator
         \/ then = "sysfs" /\ creator = None /\ creator' = t,
         \A e \in Device : \/ dev'[e].reg = dev[e].reg /\ dev'[e].ref = dev[e].ref
                           \/ dev'[e].reg = "registered" /\ dev[e].reg \in {"uninitialized", "registered"}
  PROVE  LocksInv' /\ ListsInv' /\ AskedInv' /\ LeftInv' /\ FlushedInv' /\ NoBugOn'
<1> USE DEF NetInv
<1>1. /\ pc[t] = "idle" /\ rtnl = None /\ pc' = [pc EXCEPT ![t] = IF ver = "2.6.24" THEN "mutex" ELSE then]
      /\ UNCHANGED <<ver, rtnl, mutex, unreg, asked, todo, snap, backlog, polling, busy, alive, crashed>>
      /\ ver \in {"2.6.24", "2.6.27"}
  BY DEF LockForShort, Goto, cpuVars, NetTypeOK
<1>2. /\ \A u \in Thread : pc'[u] = IF u = t THEN (IF ver = "2.6.24" THEN "mutex" ELSE then) ELSE pc[u]
      /\ \A u \in Thread : unreg[u] = None /\ u # None
  BY <1>1, NobodyNotified, NetAssumption DEF NetTypeOK
<1>3. LocksInv'
  BY <1>1, <1>2 DEF LocksInv, Working
<1>4. /\ todo \in Seq(Device) /\ ToSet(todo) \subseteq Device
      /\ \A u \in Thread : snap[u] \in Seq(Device) /\ ToSet(snap[u]) \subseteq Device /\ asked[u] \subseteq Device
  BY ListFacts DEF NetTypeOK, Device
<1>5. snap[t] = <<>> /\ asked[t] = {}
  BY <1>1 DEF ListsInv, AskedInv, Working
<1>6. ListsInv'
  <2>1. \A e \in Device : dev[e].reg \in {"unregistering", "unregistered"} => dev'[e].reg = dev[e].reg
    OBVIOUS
  <2>2. ToSet(snap[t]) = {}
    BY <1>5, EmptyFacts
  <2>3. \A u \in Thread : \A e \in ToSet(snap[u]) : dev'[e].reg = dev[e].reg
    BY <1>4, <2>1 DEF ListsInv
  <2>4. \A e \in ToSet(todo) : dev'[e].reg = dev[e].reg
    BY <1>4, <2>1 DEF ListsInv
  <2>5. QED BY <1>1, <1>2, <1>5, <2>2, <2>3, <2>4 DEF ListsInv, Working
<1>7. AskedInv'
  <2>1. \A u \in Thread : \A e \in asked[u] : dev'[e].reg = dev[e].reg /\ u # t
    BY <1>4, <1>5 DEF AskedInv
  <2>2. QED BY <1>1, <1>2, <2>1 DEF AskedInv
<1>8. LeftInv'
  BY <1>1 DEF LeftInv
<1>9. FlushedInv'
  <2>1. \A u \in Thread : pc'[u] = "flush" <=> pc[u] = "flush"
    BY <1>1, <1>2
  <2>2. QED BY <1>1, <2>1 DEF FlushedInv
<1>10. NoBugOn'
  <2>1. \A u \in Thread : pc[u] = "dead" => pc'[u] = "dead"
    BY <1>1, <1>2
  <2>2. QED BY <1>1, <2>1 DEF NoBugOn
<1>11. QED BY <1>3, <1>6, <1>7, <1>8, <1>9, <1>10

(* The bond is registered once.                                            *)
LEMMA CreateBondKeeps ==
  ASSUME NetInv, crashed = "no", NEW t \in Thread, CreateBond(t)
  PROVE  NetInv'
<1> USE DEF NetInv, CreateBond
<1>1. Bond \in Device /\ Bond \notin Nic /\ dev \in Devices /\ dev[Bond].held = 0 /\ slaves = {} /\ t # None
  BY NetAssumption DEF Device, NetTypeOK, SlavesInv
<1>2. creator = None
  BY DEF SlavesInv, Listed
<1>3. /\ dev' \in Devices
      /\ \A e \in Device :
              /\ dev'[e].held = dev[e].held /\ (dev'[e].up => dev[e].up)
              /\ IF e = Bond THEN dev'[e].reg = "registered" /\ dev'[e].ref = 1
                             ELSE dev'[e].reg = dev[e].reg /\ dev'[e].ref = dev[e].ref
  BY <1>1, RegisteredFacts
<1>4. LocksInv' /\ ListsInv' /\ AskedInv' /\ LeftInv' /\ FlushedInv' /\ NoBugOn'
  BY <1>1, <1>2, <1>3, ShortKeeps
<1>5. NetTypeOK'
  BY <1>1, <1>3 DEF NetTypeOK, LockForShort, Goto, cpuVars
<1>6. SlavesInv'
  BY <1>1, <1>3 DEF SlavesInv, Listed, Told, LockForShort, Device
<1>7. RefsExact'
  <2> SUFFICES ASSUME NEW e \in Device \ strays PROVE (dev[e].ref = Holders(e))'
    BY DEF RefsExact, LockForShort
  <2>1. dev[e].ref = Holders(e)
    BY DEF RefsExact
  <2>2. UNCHANGED <<ver, slaves, unreg, backlog, busy>>
    BY DEF LockForShort, cpuVars
  <2>3. CASE e # Bond
    BY <1>3, <2>1, <2>2, <2>3 DEF Holders, Own
  <2>4. CASE e = Bond
    <3>1. Queued(backlog, Bond) = {} /\ Receiving(busy, Bond) = {}
      BY NetAssumption DEF Queued, Receiving, NetTypeOK, Queues
    <3>2. Cardinality(Queued(backlog, Bond)) = 0 /\ Cardinality(Receiving(busy, Bond)) = 0 /\ Cardinality(slaves) = 0
      BY <1>1, <3>1, FS_EmptySet
    <3>3. Own(Bond)' /\ dev'[Bond].held = 0 /\ dev'[Bond].ref = 1
      BY <1>1, <1>3 DEF Own
    <3>4. QED BY <2>2, <2>4, <3>2, <3>3 DEF Holders
  <2>5. QED BY <2>3, <2>4
<1>8. QED BY <1>4, <1>5, <1>6, <1>7

(* An administrator opens or closes a registered device.                   *)
LEMMA OpenOrCloseKeeps ==
  ASSUME NetInv, crashed = "no", NEW t \in Thread, NEW d \in Nic, OpenOrClose(t, d)
  PROVE  NetInv'
<1> USE DEF NetInv, OpenOrClose
<1>1. d \in Device /\ dev \in Devices /\ Listed(d)
  BY DEF Device, NetTypeOK
<1>2. /\ dev' \in Devices
      /\ \A e \in Device : /\ dev'[e].reg = dev[e].reg /\ dev'[e].held = dev[e].held /\ dev'[e].ref = dev[e].ref
                           /\ e # d /\ dev'[e].up => dev[e].up
  BY <1>1, OpenFacts, CloseFacts
<1>3. LocksInv' /\ ListsInv' /\ AskedInv' /\ LeftInv' /\ FlushedInv' /\ NoBugOn'
  BY <1>2, ShortKeeps
<1>4. NetTypeOK'
  BY <1>2 DEF NetTypeOK, LockForShort, Goto, cpuVars, bondVars
<1>5. UNCHANGED <<ver, slaves, bondList, unreg, backlog, busy, creator, strays, rtnl>> /\ rtnl = None
  BY DEF LockForShort, cpuVars, bondVars
<1>6. SlavesInv'
  <2>1. \A e \in Device : Listed(e)' <=> Listed(e)
    BY <1>2 DEF Listed
  <2>2. \A e \in slaves : Listed(e) /\ e \in Device
    BY <1>5, NobodyNotified DEF NetTypeOK, Device
  <2>3. slaves # {} => Listed(Bond)
    BY <1>5, NobodyNotified
  <2>4. QED BY <1>1, <1>2, <1>5, <2>1, <2>2, <2>3 DEF SlavesInv, Told, Device
<1>7. RefsExact'
  BY <1>2, <1>5 DEF RefsExact, Holders, Own
<1>8. QED BY <1>3, <1>4, <1>6, <1>7

(* A slave holds the bond; both are registered.                            *)
LEMMA EnslaveNicKeeps ==
  ASSUME NetInv, crashed = "no", NEW t \in Thread, NEW d \in Nic, EnslaveNic(t, d)
  PROVE  NetInv'
<1> USE DEF NetInv, EnslaveNic, BeginEnslave
<1>1. d \in Device /\ Bond \in Device /\ d # Bond /\ dev \in Devices /\ Listed(d) /\ Listed(Bond)
      /\ IsFiniteSet(slaves)
  BY NetAssumption DEF Device, NetTypeOK
<1> DEFINE D == DevOpen(dev, d)
<1>2. /\ D \in Devices
      /\ \A e \in Device : /\ D[e].reg = dev[e].reg /\ D[e].held = dev[e].held /\ D[e].ref = dev[e].ref
                           /\ e # d /\ D[e].up => dev[e].up
  BY <1>1, OpenFacts
<1>3. dev' = DevHold(D, Bond)
  OBVIOUS
<1> HIDE DEF D
<1>4. /\ dev' \in Devices
      /\ \A e \in Device : /\ dev'[e].reg = dev[e].reg /\ dev'[e].held = dev[e].held
                           /\ dev'[e].ref = IF e = Bond THEN dev[e].ref + 1 ELSE dev[e].ref
                           /\ e # d /\ dev'[e].up => dev[e].up
  <2> DEFINE H == DevHold(D, Bond)
  <2>1. /\ H \in Devices
        /\ \A e \in Device : /\ H[e].reg = D[e].reg /\ (H[e].up => D[e].up) /\ H[e].held = D[e].held
                             /\ H[e].ref = IF e = Bond THEN D[e].ref + 1 ELSE D[e].ref
    BY <1>1, <1>2, HoldFacts
  <2>2. dev' = H
    BY <1>3
  <2> HIDE DEF H, NetInv, EnslaveNic, BeginEnslave
  <2>3. QED BY <1>1, <1>2, <2>1, <2>2
<1>5. LocksInv' /\ ListsInv' /\ AskedInv' /\ LeftInv' /\ FlushedInv' /\ NoBugOn'
  <2>1. \A e \in Device : \/ dev'[e].reg = dev[e].reg /\ dev'[e].ref = dev[e].ref
                          \/ dev'[e].reg = "registered" /\ dev[e].reg \in {"uninitialized", "registered"}
    BY <1>1, <1>4 DEF Listed
  <2>2. QED BY <2>1, ShortKeeps
<1>6. UNCHANGED <<ver, bondList, unreg, backlog, busy, creator, strays, rtnl>> /\ rtnl = None
      /\ slaves' = slaves \cup {d} /\ d \notin slaves
  BY DEF LockForShort, cpuVars
<1>7. NetTypeOK'
  <2>1. IsFiniteSet(slaves') /\ slaves' \in SUBSET Nic
    BY <1>1, <1>6, FS_AddElement DEF NetTypeOK
  <2>2. byslave' \in BOOLEAN
    OBVIOUS
  <2>3. QED BY <1>4, <2>1, <2>2 DEF NetTypeOK, LockForShort, Goto, cpuVars
<1>8. SlavesInv'
  <2>1. \A e \in Device : Listed(e)' <=> Listed(e)
    BY <1>4 DEF Listed
  <2>2. \A e \in slaves' : Listed(e) /\ e \in Device
    BY <1>1, <1>6, NobodyNotified DEF NetTypeOK, Device
  <2>3. QED BY <1>1, <1>4, <1>6, <2>1, <2>2 DEF SlavesInv, Told, Device, Listed
<1>9. RefsExact'
  <2> SUFFICES ASSUME NEW e \in Device \ strays PROVE (dev[e].ref = Holders(e))'
    BY <1>6 DEF RefsExact
  <2>1. dev[e].ref = Holders(e)
    BY DEF RefsExact
  <2>2. Cardinality(slaves') = Cardinality(slaves) + 1
    BY <1>1, <1>6, FS_AddElement
  <2>3. Own(e)' <=> Own(e)
    BY <1>4, <1>6 DEF Own
  <2>4. Cardinality(Queued(backlog, e)) \in Nat /\ Cardinality(Receiving(busy, e)) \in Nat /\ Cardinality(slaves) \in Nat
        /\ dev[e].held \in Int /\ dev[e].ref \in Int
    BY <1>1, QueuedFacts, ReceivingFacts, FS_CardinalityType, DeviceFacts
  <2> HIDE DEF NetInv, EnslaveNic, BeginEnslave
  <2>5. QED BY <1>4, <1>6, <2>1, <2>2, <2>3, <2>4 DEF Holders
<1>10. QED BY <1>5, <1>7, <1>8, <1>9

(* A slave that cannot be opened changes nothing in 2.6.27 but what the    *)
(* bond takes over of it.                                                  *)
LEMMA OpenFails27Keeps ==
  ASSUME NetInv, crashed = "no", NEW t \in Thread, NEW d \in Nic, OpenFails27(t, d)
  PROVE  NetInv'
<1> USE DEF NetInv, OpenFails27, BeginEnslave
<1>1. UNCHANGED <<ver, dev, slaves, bondList, unreg, backlog, busy, creator, strays, rtnl>> /\ rtnl = None
      /\ byslave' \in BOOLEAN
  BY DEF LockForShort, cpuVars
<1>2. LocksInv' /\ ListsInv' /\ AskedInv' /\ LeftInv' /\ FlushedInv' /\ NoBugOn'
  BY <1>1, ShortKeeps
<1>3. NetTypeOK'
  BY <1>1 DEF NetTypeOK, LockForShort, Goto, cpuVars
<1>4. SlavesInv'
  <2>1. (\A e \in slaves : Listed(e)) /\ (slaves # {} => Listed(Bond))
    BY <1>1, NobodyNotified
  <2>2. QED BY <1>1, <2>1 DEF SlavesInv, Told, Listed
<1>5. RefsExact'
  BY <1>1 DEF RefsExact, Holders, Own
<1>6. QED BY <1>2, <1>3, <1>4, <1>5

(* In 2.6.24 it leaves a reference to the bond, which is a stray from then *)
(* on.                                                                     *)
LEMMA OpenFails24Keeps ==
  ASSUME NetInv, crashed = "no", NEW t \in Thread, NEW d \in Nic, OpenFails24(t, d)
  PROVE  NetInv'
<1> USE DEF NetInv, OpenFails24, BeginEnslave
<1>1. Bond \in Device /\ dev \in Devices /\ Listed(Bond)
  BY NetAssumption DEF Device, NetTypeOK
<1>2. /\ dev' \in Devices
      /\ \A e \in Device : /\ dev'[e].reg = dev[e].reg /\ dev'[e].held = dev[e].held /\ (dev'[e].up => dev[e].up)
                           /\ dev'[e].ref = IF e = Bond THEN dev[e].ref + 1 ELSE dev[e].ref
  <2> DEFINE H == DevHold(dev, Bond)
  <2>1. /\ H \in Devices
        /\ \A e \in Device : /\ H[e].reg = dev[e].reg /\ (H[e].up => dev[e].up) /\ H[e].held = dev[e].held
                             /\ H[e].ref = IF e = Bond THEN dev[e].ref + 1 ELSE dev[e].ref
    BY <1>1, HoldFacts
  <2>2. dev' = H
    OBVIOUS
  <2> HIDE DEF H, NetInv, OpenFails24, BeginEnslave
  <2>3. QED BY <2>1, <2>2
<1>3. UNCHANGED <<ver, slaves, bondList, unreg, backlog, busy, creator, rtnl>> /\ rtnl = None
      /\ strays' = strays \cup {Bond} /\ byslave' \in BOOLEAN
  BY DEF LockForShort, cpuVars
<1>4. LocksInv' /\ ListsInv' /\ AskedInv' /\ LeftInv' /\ FlushedInv' /\ NoBugOn'
  <2>1. \A e \in Device : \/ dev'[e].reg = dev[e].reg /\ dev'[e].ref = dev[e].ref
                          \/ dev'[e].reg = "registered" /\ dev[e].reg \in {"uninitialized", "registered"}
    BY <1>1, <1>2 DEF Listed
  <2>2. strays \subseteq strays'
    BY <1>3
  <2>3. QED BY <1>3, <2>1, <2>2, ShortKeeps
<1>5. NetTypeOK'
  <2>1. strays' \in SUBSET Device
    BY <1>1, <1>3 DEF NetTypeOK
  <2>2. QED BY <1>2, <1>3, <2>1 DEF NetTypeOK, LockForShort, Goto, cpuVars
<1>6. SlavesInv'
  <2>1. \A e \in Device : Listed(e)' <=> Listed(e)
    BY <1>2 DEF Listed
  <2>2. (\A e \in slaves : Listed(e) /\ e \in Device) /\ (slaves # {} => Listed(Bond))
    BY <1>3, NobodyNotified DEF NetTypeOK, Device
  <2>3. QED BY <1>1, <1>2, <1>3, <2>1, <2>2 DEF SlavesInv, Told, Device, Listed
<1>7. RefsExact'
  <2> SUFFICES ASSUME NEW e \in Device \ strays, e # Bond PROVE (dev[e].ref = Holders(e))'
    BY <1>3 DEF RefsExact
  <2>1. dev[e].ref = Holders(e)
    BY DEF RefsExact
  <2>2. Own(e)' <=> Own(e)
    BY <1>2, <1>3 DEF Own
  <2> HIDE DEF NetInv, OpenFails24, BeginEnslave
  <2>3. QED BY <1>2, <1>3, <2>1, <2>2 DEF Holders
<1>8. QED BY <1>4, <1>5, <1>6, <1>7

(* A slave that is released puts the bond.                                 *)
LEMMA ReleaseNicKeeps ==
  ASSUME NetInv, crashed = "no", NEW t \in Thread, NEW d \in Nic, ReleaseNic(t, d)
  PROVE  NetInv'
<1> USE DEF NetInv, ReleaseNic
<1>1. UNCHANGED <<ver, bondList, unreg, backlog, busy, creator, strays, rtnl>> /\ rtnl = None
      /\ slaves' = slaves \ {d} /\ d \in slaves
  BY DEF LockForShort, cpuVars
<1>2. d \in Device /\ Bond \in Device /\ d # Bond /\ dev \in Devices /\ Listed(d) /\ Listed(Bond)
      /\ IsFiniteSet(slaves)
  BY <1>1, NobodyNotified, NetAssumption DEF Device, NetTypeOK
<1>3. /\ dev' \in Devices
      /\ \A e \in Device : /\ dev'[e].reg = dev[e].reg /\ dev'[e].held = dev[e].held
                           /\ dev'[e].ref = IF e = Bond THEN dev[e].ref - 1 ELSE dev[e].ref
                           /\ dev'[e].up => dev[e].up
  <2>1. IsFiniteSet({d}) /\ Cardinality({d}) = 1 /\ {d} \in SUBSET Nic
    BY FS_Singleton
  <2>2. Released(dev, {d}) \in Devices
    BY <1>2, <2>1, ReleasedFacts
  <2> DEFINE D == Released(dev, {d})
  <2>3. ASSUME NEW e \in Device
        PROVE  /\ D[e].reg = dev[e].reg /\ D[e].held = dev[e].held
               /\ D[e].ref = IF e = Bond THEN dev[e].ref - Cardinality({d}) ELSE dev[e].ref
               /\ IF e \in {d} THEN ~D[e].up ELSE (D[e].up => dev[e].up)
    BY <1>2, <2>1, ReleasedFacts
  <2>4. dev' = D
    OBVIOUS
  <2> HIDE DEF D
  <2>5. QED BY <2>1, <2>2, <2>3, <2>4 DEF D
<1>4. LocksInv' /\ ListsInv' /\ AskedInv' /\ LeftInv' /\ FlushedInv' /\ NoBugOn'
  <2>1. \A e \in Device : \/ dev'[e].reg = dev[e].reg /\ dev'[e].ref = dev[e].ref
                          \/ dev'[e].reg = "registered" /\ dev[e].reg \in {"uninitialized", "registered"}
    BY <1>2, <1>3 DEF Listed
  <2>2. QED BY <2>1, ShortKeeps
<1>5. NetTypeOK'
  <2>1. IsFiniteSet(slaves') /\ slaves' \in SUBSET Nic
    BY <1>1, <1>2, FS_RemoveElement DEF NetTypeOK
  <2>2. QED BY <1>3, <2>1 DEF NetTypeOK, LockForShort, Goto, cpuVars
<1>6. SlavesInv'
  <2>1. \A e \in Device : Listed(e)' <=> Listed(e)
    BY <1>3 DEF Listed
  <2>2. \A e \in slaves' : Listed(e) /\ e \in Device
    BY <1>1, NobodyNotified DEF NetTypeOK, Device
  <2>3. QED BY <1>1, <1>2, <1>3, <2>1, <2>2 DEF SlavesInv, Told, Device, Listed
<1>7. RefsExact'
  <2> SUFFICES ASSUME NEW e \in Device \ strays PROVE (dev[e].ref = Holders(e))'
    BY <1>1 DEF RefsExact
  <2>1. dev[e].ref = Holders(e)
    BY DEF RefsExact
  <2>2. Cardinality(slaves') = Cardinality(slaves) - 1
    BY <1>1, <1>2, FS_RemoveElement
  <2>3. Own(e)' <=> Own(e)
    BY <1>1, <1>3 DEF Own
  <2>4. Cardinality(Queued(backlog, e)) \in Nat /\ Cardinality(Receiving(busy, e)) \in Nat /\ Cardinality(slaves) \in Nat
        /\ dev[e].held \in Int /\ dev[e].ref \in Int
    BY <1>2, QueuedFacts, ReceivingFacts, FS_CardinalityType, DeviceFacts
  <2> HIDE DEF NetInv, ReleaseNic
  <2>5. QED BY <1>1, <1>3, <2>1, <2>2, <2>3, <2>4 DEF Holders
<1>8. QED BY <1>4, <1>5, <1>6, <1>7

-------------------------------------------------------------------------------
(***************************************************************************)
(* Unregistration up to net_todo_list.                                     *)
(***************************************************************************)

(* The devices on the lists and those the drivers wait for are devices.    *)
LEMMA Members ==
  ASSUME NetInv
  PROVE  /\ Bond \in Device /\ Bond \notin Nic /\ Nic \subseteq Device /\ None \notin Device /\ None \notin Thread
         /\ todo \in Seq(Device) /\ ToSet(todo) \subseteq Device
         /\ \A u \in Thread : /\ snap[u] \in Seq(Device) /\ ToSet(snap[u]) \subseteq Device
                              /\ asked[u] \subseteq Nic
                              /\ unreg[u] # None => unreg[u] \in Device
  BY ListFacts, NetAssumption DEF NetInv, NetTypeOK, Device

(* A device that is registered may be unregistered when rtnl is free.      *)
LEMMA UnregisterKeeps ==
  ASSUME NetInv, crashed = "no", NEW t \in Thread, NEW d \in Device, Unregister(t, d), Listed(d), rtnl = None,
         \/ pc[t] = "idle" /\ creator' = creator
         \/ pc[t] = "sysfs" /\ creator' = None,
         d = Bond => asked' = asked /\ bondList' = FALSE,
         d # Bond => asked' = [asked EXCEPT ![t] = @ \cup {d}] /\ bondList' = bondList
  PROVE  NetInv'
<1> USE DEF NetInv
<1>1. /\ \A u \in Thread : pc'[u] = IF u = t THEN "notify" ELSE pc[u]
      /\ \A u \in Thread : unreg'[u] = IF u = t THEN d ELSE unreg[u]
      /\ rtnl' = t /\ crashed' = crashed
      /\ UNCHANGED <<ver, slaves, byslave, mutex, todo, snap, backlog, polling, busy, alive, strays>>
  BY DEF Unregister, Goto, cpuVars, NetTypeOK
<1>2. /\ dev' \in Devices
      /\ \A e \in Device :
           /\ dev'[e].held = dev[e].held /\ dev'[e].ref = dev[e].ref
           /\ IF e = d THEN dev'[e].reg = "unregistering" /\ ~dev'[e].up
                       ELSE dev'[e].reg = dev[e].reg /\ (dev'[e].up => dev[e].up)
  BY UnlistedFacts DEF Unregister, NetTypeOK
<1>3. \A u \in Thread : unreg[u] = None /\ pc[u] \notin {"notify", "put", "unlock", "dead"} /\ u # None
  BY NobodyNotified, NetAssumption
<1>4. snap[t] = <<>> /\ asked[t] = {}
  BY DEF ListsInv, AskedInv, Working
<1>5. \A u \in Thread : asked'[u] = IF u = t /\ d # Bond THEN {d} ELSE asked[u]
  BY <1>4 DEF NetTypeOK
<1>6. d \notin ToSet(todo) /\ \A u \in Thread : d \notin ToSet(snap[u]) /\ d \notin asked[u]
  BY DEF Listed, ListsInv, AskedInv
<1>7. NetTypeOK'
  <2>1. /\ pc' \in [Thread -> {"idle", "sysfs", "notify", "put", "unlock", "mutex", "dead"} \cup Working]
        /\ unreg' \in [Thread -> Device \cup {None}]
    BY DEF Unregister, Goto, NetTypeOK
  <2>2. asked' \in [Thread -> SUBSET Nic]
    <3>1. asked \in [Thread -> SUBSET Nic] /\ (d # Bond => d \in Nic)
      BY DEF Device, NetTypeOK
    <3>2. CASE d = Bond
      BY <3>1, <3>2
    <3>3. CASE d # Bond
      <4> HIDE DEF NetInv
      <4>1. asked[t] \cup {d} \in SUBSET Nic
        BY <3>1, <3>3
      <4>2. QED BY <3>1, <3>3, <4>1
    <3>4. QED BY <3>2, <3>3
  <2>3. bondList' \in BOOLEAN /\ creator' \in Thread \cup {None}
    BY DEF NetTypeOK
  <2>4. QED BY <1>1, <1>2, <2>1, <2>2, <2>3 DEF NetTypeOK
<1>8. LocksInv'
  BY <1>1, <1>2, <1>3, Members DEF LocksInv, Working
<1>9. ListsInv'
  <2>1. \A u \in Thread : \A e \in ToSet(snap[u]) : dev'[e].reg = dev[e].reg
    BY <1>2, <1>6, Members
  <2>2. \A e \in ToSet(todo) : dev'[e].reg = dev[e].reg
    BY <1>2, <1>6, Members
  <2>3. ToSet(snap[t]) = {}
    BY <1>4, EmptyFacts
  <2>4. ListsInv
    OBVIOUS
  <2>5. \A u \in Thread : /\ snap[u] # <<>> => pc'[u] \in Working
                          /\ pc'[u] \in {"flush", "wait"} <=> pc[u] \in {"flush", "wait"}
    BY <1>1, <1>3, <1>4 DEF ListsInv, Working
  <2>6. \A u, v \in Thread : unreg'[v] \notin ToSet(todo) \cup ToSet(snap[u])
    BY <1>1, <1>6 DEF ListsInv
  <2> HIDE DEF NetInv
  <2>7. todo' = todo /\ snap' = snap
    BY <1>1
  <2>8. QED BY <2>1, <2>2, <2>4, <2>5, <2>6, <2>7 DEF ListsInv
<1>10. AskedInv'
  <2>1. \A u \in Thread : \A e \in asked[u] : dev'[e].reg = dev[e].reg /\ u # t /\ e # d
    BY <1>2, <1>4, <1>6, Members
  <2>2. \A u \in Thread \ {t} : asked'[u] = asked[u]
    BY <1>5
  <2>3. ASSUME NEW e \in asked'[t]
        PROVE  e = d /\ dev'[e].reg = "unregistering" /\ \A u \in Thread \ {t} : e \notin asked'[u]
    BY <1>2, <1>4, <1>5, <1>6
  <2>4. ASSUME NEW u \in Thread \ {t}, NEW e \in asked[u]
        PROVE  /\ dev[e].reg \in {"unregistering", "unregistered"} /\ dev'[e].reg = dev[e].reg
               /\ pc[u] \in {"mutex"} \cup Working
               /\ pc[u] = "mutex" =>
                    e \in ToSet(todo) \/ dev[e].reg = "unregistered" \/ \E v \in Thread : mutex = v /\ e \in ToSet(snap[v])
               /\ pc[u] \in Working => e \in ToSet(snap[u]) \/ dev[e].reg = "unregistered"
               /\ \A v \in Thread \ {u} : e \notin asked'[v] /\ unreg'[v] # e /\ (ver = "2.6.27" => e \notin ToSet(snap[v]))
               /\ ~(ver = "2.6.27" /\ e \in ToSet(todo))
    <3>1. e # None /\ e # d /\ dev'[e].reg = dev[e].reg
      BY <2>1, Members
    <3>2. /\ dev[e].reg \in {"unregistering", "unregistered"}
          /\ pc[u] \in {"mutex"} \cup Working
          /\ pc[u] = "mutex" =>
               e \in ToSet(todo) \/ dev[e].reg = "unregistered" \/ \E v \in Thread : mutex = v /\ e \in ToSet(snap[v])
          /\ pc[u] \in Working => e \in ToSet(snap[u]) \/ dev[e].reg = "unregistered"
          /\ \A v \in Thread \ {u} : e \notin asked[v] /\ (ver = "2.6.27" => e \notin ToSet(snap[v]))
          /\ ~(ver = "2.6.27" /\ e \in ToSet(todo))
      BY <1>3 DEF AskedInv
    <3> HIDE DEF NetInv
    <3>3. QED BY <1>1, <1>3, <1>5, <3>1, <3>2
  <2>5. ASSUME NEW u \in Thread, NEW e \in asked'[u]
        PROVE  /\ dev'[e].reg \in {"unregistering", "unregistered"}
               /\ pc'[u] \in {"notify", "put", "unlock", "mutex"} \cup Working
               /\ pc'[u] \in {"notify", "put"} => unreg'[u] = e
               /\ pc'[u] \in {"unlock", "mutex"} =>
                    e \in ToSet(todo) \/ dev'[e].reg = "unregistered" \/ \E v \in Thread : mutex = v /\ e \in ToSet(snap[v])
               /\ pc'[u] \in Working => e \in ToSet(snap[u]) \/ dev'[e].reg = "unregistered"
               /\ \A v \in Thread \ {u} : e \notin asked'[v] /\ unreg'[v] # e /\ (ver = "2.6.27" => e \notin ToSet(snap[v]))
               /\ ver = "2.6.27" /\ e \in ToSet(todo) => rtnl' = u
    <3>1. CASE u = t
      <4>1. e = d /\ dev'[e].reg = "unregistering" /\ \A v \in Thread \ {t} : e \notin asked'[v] /\ e # None
        BY <2>3, <3>1, Members
      <4> HIDE DEF NetInv
      <4>2. QED BY <1>1, <1>3, <1>6, <3>1, <4>1 DEF Working
    <3>2. CASE u # t
      <4>1. e \in asked[u] /\ u \in Thread \ {t} /\ pc'[u] = pc[u]
        BY <1>1, <2>2, <3>2
      <4> HIDE DEF NetInv
      <4>2. QED BY <2>4, <4>1 DEF Working
    <3>3. QED BY <3>1, <3>2
  <2>6. UNCHANGED <<ver, todo, snap, mutex>>
    BY <1>1
  <2> HIDE DEF NetInv
  <2>7. QED BY <2>5, <2>6 DEF AskedInv
<1>11. SlavesInv'
  <2>1. \A e \in Device \ {d} : Listed(e)' <=> Listed(e)
    BY <1>2 DEF Listed
  <2>2. \A e \in Device : Listed(e) => Told(e)'
    BY <1>1, <2>1 DEF Told
  <2>3. /\ \A e \in slaves : Told(e)'
        /\ slaves # {} => Told(Bond)'
    BY <2>2, NobodyNotified, Members DEF NetTypeOK
  <2>4. bondList' => Listed(Bond)'
    BY <2>1, Members DEF SlavesInv
  <2>5. creator' # None => dev'[Bond].reg # "uninitialized"
    BY <1>2, Members DEF SlavesInv
  <2>6. \A e \in Device : dev'[e].up => Listed(e)'
    BY <1>2, <2>1 DEF SlavesInv
  <2>7. QED BY <1>1, <1>2, <2>3, <2>4, <2>5, <2>6, Members DEF SlavesInv
<1>12. RefsExact'
  <2> SUFFICES ASSUME NEW e \in Device \ strays PROVE (dev[e].ref = Holders(e))'
    BY <1>1 DEF RefsExact
  <2>1. dev[e].ref = Holders(e)
    BY DEF RefsExact
  <2>2. Own(e)' <=> Own(e)
    BY <1>1, <1>2, <1>3, Members DEF Own, Listed
  <2>3. QED BY <1>1, <1>2, <2>1, <2>2 DEF Holders
<1>13. LeftInv'
  BY <1>1, <1>2 DEF LeftInv
<1>14. FlushedInv'
  <2>1. \A u \in Thread : pc'[u] = "flush" <=> pc[u] = "flush"
    BY <1>1
  <2>2. QED BY <1>1, <1>2, <2>1 DEF FlushedInv
<1>15. NoBugOn'
  BY <1>1, <1>3 DEF NoBugOn
<1>16. QED BY <1>7, <1>8, <1>9, <1>10, <1>11, <1>12, <1>13, <1>14, <1>15

(* A driver unregisters its device.                                        *)
LEMMA UnregisterNicKeeps ==
  ASSUME NetInv, crashed = "no", NEW t \in Thread, NEW d \in Nic, UnregisterNic(t, d)
  PROVE  NetInv'
<1>1. d \in Device /\ d # Bond
  BY Members
<1>2. Unregister(t, d) /\ Listed(d) /\ rtnl = None /\ pc[t] = "idle"
      /\ creator' = creator /\ bondList' = bondList /\ asked' = [asked EXCEPT ![t] = @ \cup {d}]
  BY DEF UnregisterNic, Lock
<1>3. QED BY <1>1, <1>2, UnregisterKeeps

(* The bonding driver unregisters the bond.                                *)
LEMMA DestroyBondKeeps ==
  ASSUME NetInv, crashed = "no", NEW t \in Thread, DestroyBond(t)
  PROVE  NetInv'
<1>1. Bond \in Device
  BY Members
<1>2. Unregister(t, Bond) /\ rtnl = None /\ pc[t] = "idle"
      /\ creator' = creator /\ bondList' = FALSE /\ asked' = asked /\ bondList
  BY DEF DestroyBond, Lock
<1>3. Listed(Bond)
  BY <1>2 DEF NetInv, SlavesInv
<1>4. QED BY <1>1, <1>2, <1>3, UnregisterKeeps

(* 2.6.27: bond_create unregisters the bond again, or hits the BUG_ON of   *)
(* rollback_registered if somebody has done so before.                     *)
LEMMA SysfsFails27Keeps ==
  ASSUME NetInv, crashed = "no", NEW t \in Thread, SysfsFails27(t)
  PROVE  NetInv'
<1>1. Bond \in Device
  BY Members
<1>2. Unregister(t, Bond) /\ rtnl = None /\ pc[t] = "sysfs" /\ ver = "2.6.27" /\ bondList' = FALSE /\ asked' = asked
      /\ creator' = IF Listed(Bond) THEN None ELSE t
  BY DEF SysfsFails27
<1>3. CASE Listed(Bond)
  BY <1>1, <1>2, <1>3, UnregisterKeeps
<1>4. CASE ~Listed(Bond)
  <2> USE DEF NetInv
  <2>1. /\ pc[t] = "sysfs" /\ creator = t /\ creator' = t /\ rtnl = None /\ rtnl' = t /\ bondList' = FALSE
        /\ crashed' = "rollback" /\ ver = "2.6.27" /\ dev[Bond].reg # "registered"
        /\ \A u \in Thread : pc'[u] = IF u = t THEN "dead" ELSE pc[u]
        /\ UNCHANGED <<ver, dev, slaves, byslave, mutex, unreg, asked, todo, snap, backlog, polling, busy, alive, strays>>
    BY <1>2, <1>4 DEF Unregister, Goto, NetTypeOK, LocksInv, Listed, cpuVars
  <2>2. NetTypeOK'
    BY <1>2, <1>4, <2>1 DEF Unregister, Goto, NetTypeOK
  <2>3. LocksInv'
    BY <2>1, Members DEF LocksInv, Working
  <2>4. ListsInv'
    BY <2>1 DEF ListsInv, Working
  <2>5. AskedInv'
    <3>1. asked[t] = {} /\ AskedInv
      BY <2>1 DEF AskedInv, Working
    <3>2. /\ \A u \in Thread : asked[u] # {} => pc'[u] = pc[u] /\ u # t
          /\ UNCHANGED <<ver, dev, mutex, unreg, asked, todo, snap>>
      BY <2>1, <3>1
    <3>3. \A u \in Thread : \A e \in asked[u] : ~(ver = "2.6.27" /\ e \in ToSet(todo))
      BY <2>1, <3>1, Members DEF AskedInv
    <3> HIDE DEF NetInv
    <3>4. QED BY <3>1, <3>2, <3>3 DEF AskedInv
  <2>6. SlavesInv'
    BY <2>1 DEF SlavesInv, Told, Listed
  <2>7. RefsExact' /\ LeftInv'
    BY <2>1 DEF RefsExact, Holders, Own, LeftInv
  <2>8. FlushedInv' /\ NoBugOn'
    BY <2>1 DEF FlushedInv, NoBugOn, Listed
  <2>9. QED BY <2>2, <2>3, <2>4, <2>5, <2>6, <2>7, <2>8
<1>5. QED BY <1>3, <1>4

(* bond_create is done.                                                    *)
LEMMA SysfsDoneKeeps ==
  ASSUME NetInv, crashed = "no", NEW t \in Thread, SysfsDone(t)
  PROVE  NetInv'
<1> USE DEF NetInv
<1>1. /\ pc[t] = "sysfs" /\ creator = t /\ creator' = None
      /\ \A u \in Thread : pc'[u] = IF u = t THEN "idle" ELSE pc[u]
      /\ UNCHANGED <<ver, dev, slaves, byslave, bondList, rtnl, mutex, unreg, asked, todo, snap, backlog, polling,
                     busy, alive, strays, crashed>>
  BY DEF SysfsDone, Goto, NetTypeOK, LocksInv, bondVars, cpuVars
<1>2. NetTypeOK'
  BY DEF SysfsDone, Goto, NetTypeOK, bondVars, cpuVars
<1>3. LocksInv'
  BY <1>1, Members DEF LocksInv, Working
<1>4. ListsInv'
  BY <1>1 DEF ListsInv, Working
<1>5. AskedInv'
  BY <1>1 DEF AskedInv, Working
<1>6. SlavesInv'
  BY <1>1 DEF SlavesInv, Told, Listed
<1>7. RefsExact' /\ LeftInv'
  BY <1>1 DEF RefsExact, Holders, Own, LeftInv
<1>8. FlushedInv' /\ NoBugOn'
  BY <1>1 DEF FlushedInv, NoBugOn
<1>9. QED BY <1>2, <1>3, <1>4, <1>5, <1>6, <1>7, <1>8

(* 2.6.24: bond_create hits the BUG_ON of free_netdev, with rtnl held.     *)
LEMMA SysfsFails24Keeps ==
  ASSUME NetInv, crashed = "no", NEW t \in Thread, SysfsFails24(t)
  PROVE  NetInv'
<1> USE DEF NetInv
<1>1. /\ pc[t] = "sysfs" /\ creator = t /\ creator' = t /\ rtnl = None /\ rtnl' = t /\ bondList' = FALSE
      /\ crashed' = "free" /\ ver = "2.6.24"
      /\ \A u \in Thread : pc'[u] = IF u = t THEN "dead" ELSE pc[u]
      /\ UNCHANGED <<ver, dev, slaves, byslave, mutex, unreg, asked, todo, snap, backlog, polling, busy, alive, strays>>
  BY DEF SysfsFails24, Goto, NetTypeOK, LocksInv, cpuVars
<1>2. NetTypeOK'
  BY DEF SysfsFails24, Goto, NetTypeOK, cpuVars
<1>3. LocksInv'
  BY <1>1, Members DEF LocksInv, Working
<1>4. ListsInv'
  BY <1>1 DEF ListsInv, Working
<1>5. AskedInv'
  BY <1>1 DEF AskedInv, Working
<1>6. SlavesInv'
  BY <1>1 DEF SlavesInv, Told, Listed
<1>7. RefsExact' /\ LeftInv'
  BY <1>1 DEF RefsExact, Holders, Own, LeftInv
<1>8. FlushedInv' /\ NoBugOn'
  BY <1>1 DEF FlushedInv, NoBugOn
<1>9. QED BY <1>2, <1>3, <1>4, <1>5, <1>6, <1>7, <1>8

(* What the bonding driver and the protocols do when they are told.  The   *)
(* bond goes with its last slave if it has taken its type from it.         *)
LEMMA NotifyFacts ==
  ASSUME NetInv, NEW d \in Device, NotifyUnregister(d), d \in slaves => Listed(Bond)
  PROVE  /\ dev' \in Devices /\ slaves' \in SUBSET Nic /\ IsFiniteSet(slaves') /\ crashed' = crashed
         /\ slaves' = IF d = Bond THEN {} ELSE slaves \ {d}
         /\ \A e \in Device \ {Bond} :
              /\ dev'[e].reg = dev[e].reg /\ (dev'[e].up => dev[e].up)
              /\ dev'[e].held = IF e = d THEN 0 ELSE dev[e].held
              /\ dev'[e].ref = IF e = d THEN dev[e].ref - dev[e].held ELSE dev[e].ref
         /\ \/ /\ d \in slaves /\ slaves' = {}
               /\ todo' = Append(todo, Bond) /\ bondList' = FALSE
               /\ dev'[Bond].reg = "unregistering" /\ ~dev'[Bond].up /\ dev'[Bond].held = 0
               /\ dev'[Bond].ref = dev[Bond].ref - dev[Bond].held - Cardinality(slaves) - 1
            \/ /\ todo' = todo /\ (bondList' => bondList)
               /\ dev'[Bond].reg = dev[Bond].reg /\ (dev'[Bond].up => dev[Bond].up)
               /\ dev'[Bond].held = IF d = Bond THEN 0 ELSE dev[Bond].held
               /\ dev'[Bond].ref = dev[Bond].ref - (IF d = Bond THEN dev[Bond].held ELSE 0)
                                     - (Cardinality(slaves) - Cardinality(slaves'))
<1> DEFINE D == ProtocolsLetGo(dev, d)
<1>1. /\ slaves' = IF d = Bond THEN {} ELSE slaves \ {d}
      /\ d = Bond => dev' = Released(D, slaves)
      /\ d \in slaves /\ LastOfBond(d) => dev' = DestroyedWith(D, d) /\ bondList' = FALSE /\ todo' = Append(todo, Bond)
      /\ d \in slaves /\ ~LastOfBond(d) => dev' = Released(D, {d})
      /\ d # Bond /\ d \notin slaves => dev' = D
      /\ ~(d \in slaves /\ LastOfBond(d)) => (bondList' => bondList) /\ todo' = todo
      /\ crashed' = crashed
      /\ Bond \notin slaves
  BY Members DEF NotifyUnregister, Freed, NetInv, NetTypeOK
<1>2. /\ dev \in Devices /\ Bond \in Device /\ slaves \in SUBSET Nic /\ IsFiniteSet(slaves) /\ Nic \subseteq Device
      /\ Cardinality(slaves) \in Nat /\ dev[Bond].ref \in Int /\ dev[Bond].held \in Int
      /\ Cardinality({}) = 0
  BY Members, DeviceFacts, FS_CardinalityType, FS_EmptySet DEF NetInv, NetTypeOK
<1>3. /\ D \in Devices
      /\ \A e \in Device : /\ D[e].reg = dev[e].reg /\ (D[e].up => dev[e].up)
                           /\ D[e].held = IF e = d THEN 0 ELSE dev[e].held
                           /\ D[e].ref = IF e = d THEN dev[e].ref - dev[e].held ELSE dev[e].ref
  BY <1>2, LetGoFacts
<1> HIDE DEF D
<1>4. slaves' \in SUBSET Nic /\ IsFiniteSet(slaves')
  BY <1>1, <1>2, FS_EmptySet, FS_RemoveElement
<1>5. CASE d = Bond
  <2> DEFINE R == Released(D, slaves)
  <2>1. R \in Devices
    BY <1>2, <1>3, ReleasedFacts
  <2>2. ASSUME NEW e \in Device
        PROVE  /\ R[e].reg = D[e].reg /\ R[e].held = D[e].held
               /\ R[e].ref = IF e = Bond THEN D[e].ref - Cardinality(slaves) ELSE D[e].ref
               /\ IF e \in slaves THEN ~R[e].up ELSE (R[e].up => D[e].up)
    BY <1>2, <1>3, ReleasedFacts
  <2>3. dev' = R /\ slaves' = {} /\ todo' = todo /\ (bondList' => bondList) /\ crashed' = crashed
    BY <1>1, <1>5
  <2> HIDE DEF R
  <2>4. QED BY <1>2, <1>3, <1>4, <1>5, <2>1, <2>2, <2>3
<1>6. CASE d \in slaves /\ LastOfBond(d)
  <2> DEFINE R == DestroyedWith(D, d)
  <2>1. /\ R \in Devices
        /\ \A e \in Device \ {Bond} : /\ R[e].reg = D[e].reg /\ R[e].held = D[e].held /\ R[e].ref = D[e].ref
                                      /\ IF e = d THEN ~R[e].up ELSE (R[e].up => D[e].up)
        /\ R[Bond].reg = "unregistering" /\ ~R[Bond].up /\ R[Bond].held = 0
        /\ R[Bond].ref = D[Bond].ref - D[Bond].held - 2
    BY <1>2, <1>3, <1>6, DestroyedFacts
  <2>2. dev' = R /\ todo' = Append(todo, Bond) /\ bondList' = FALSE /\ crashed' = crashed /\ d # Bond
    BY <1>1, <1>6
  <2>3. slaves = {d} /\ Cardinality(slaves) = 1 /\ slaves' = {}
    BY <1>1, <1>6, FS_Singleton DEF LastOfBond
  <2> HIDE DEF R
  <2>4. QED BY <1>2, <1>3, <1>4, <1>6, <2>1, <2>2, <2>3
<1>7. CASE d \in slaves /\ ~LastOfBond(d)
  <2> DEFINE R == Released(D, {d})
  <2>1. {d} \in SUBSET Nic /\ IsFiniteSet({d}) /\ Cardinality({d}) = 1
    BY <1>2, <1>7, FS_Singleton
  <2>2. R \in Devices
    BY <1>3, <2>1, ReleasedFacts
  <2>3. ASSUME NEW e \in Device
        PROVE  /\ R[e].reg = D[e].reg /\ R[e].held = D[e].held
               /\ R[e].ref = IF e = Bond THEN D[e].ref - Cardinality({d}) ELSE D[e].ref
               /\ IF e \in {d} THEN ~R[e].up ELSE (R[e].up => D[e].up)
    BY <1>3, <2>1, ReleasedFacts
  <2>4. dev' = R /\ todo' = todo /\ (bondList' => bondList) /\ crashed' = crashed /\ d # Bond /\ slaves' = slaves \ {d}
    BY <1>1, <1>7
  <2>5. Cardinality(slaves') = Cardinality(slaves) - 1
    BY <1>2, <1>7, <2>4, FS_RemoveElement
  <2> HIDE DEF R
  <2>6. \A e \in Device \ {Bond} :
          /\ dev'[e].reg = dev[e].reg /\ (dev'[e].up => dev[e].up)
          /\ dev'[e].held = IF e = d THEN 0 ELSE dev[e].held
          /\ dev'[e].ref = IF e = d THEN dev[e].ref - dev[e].held ELSE dev[e].ref
    BY <1>3, <2>3, <2>4
  <2>7. /\ dev'[Bond].reg = dev[Bond].reg /\ (dev'[Bond].up => dev[Bond].up) /\ dev'[Bond].held = dev[Bond].held
        /\ dev'[Bond].ref = dev[Bond].ref - 1
    BY <1>2, <1>3, <2>1, <2>3, <2>4
  <2>8. dev' \in Devices
    BY <2>2, <2>4
  <2>9. dev'[Bond].ref = dev[Bond].ref - 0 - (Cardinality(slaves) - Cardinality(slaves'))
    BY <1>2, <2>5, <2>7
  <2>10. /\ slaves' = slaves \ {d} /\ todo' = todo /\ (bondList' => bondList) /\ crashed' = crashed /\ d # Bond
    BY <2>4
  <2>11. QED BY <1>4, <2>6, <2>7, <2>8, <2>9, <2>10
<1>8. CASE d # Bond /\ d \notin slaves
  <2>1. slaves' = slaves /\ slaves \ {d} = slaves
    BY <1>1, <1>8
  <2>2. dev' = D /\ todo' = todo /\ (bondList' => bondList) /\ crashed' = crashed
    BY <1>1, <1>8
  <2>3. dev' \in Devices
    BY <1>3, <2>2
  <2>4. \A e \in Device :
          /\ dev'[e].reg = dev[e].reg /\ (dev'[e].up => dev[e].up)
          /\ dev'[e].held = IF e = d THEN 0 ELSE dev[e].held
          /\ dev'[e].ref = IF e = d THEN dev[e].ref - dev[e].held ELSE dev[e].ref
    BY <1>3, <2>2
  <2>5. todo' = todo /\ (bondList' => bondList) /\ crashed' = crashed
    BY <2>2
  <2>6. dev'[Bond].ref = dev[Bond].ref - 0 - (Cardinality(slaves) - Cardinality(slaves'))
    BY <1>2, <1>8, <2>1, <2>4
  <2>7. QED BY <1>2, <1>4, <1>8, <2>1, <2>3, <2>4, <2>5, <2>6
<1>9. QED BY <1>5, <1>6, <1>7, <1>8

(* One more device on net_todo_list, that is on no other list.             *)
LEMMA ListedToDo ==
  ASSUME NetInv, NEW d \in Device, d \notin ToSet(todo), \A u \in Thread : d \notin ToSet(snap[u]),
         ToSet(todo') = ToSet(todo) \cup {d}, Distinct(todo'), snap' = snap,
         dev'[d].reg = "unregistering", \A e \in ToSet(todo) : dev'[e].reg = dev[e].reg,
         \A u \in Thread : \A e \in ToSet(snap[u]) : dev'[e].reg = dev[e].reg,
         \A u \in Thread : /\ pc'[u] \in Working <=> pc[u] \in Working
                           /\ pc'[u] \in {"flush", "wait"} <=> pc[u] \in {"flush", "wait"}
                           /\ unreg'[u] # d /\ unreg'[u] \in {None, unreg[u]}
  PROVE  ListsInv'
<1> USE DEF NetInv
<1>1. \A u \in Thread : None \notin ToSet(todo) /\ None \notin ToSet(snap[u])
  BY Members
<1>2. \A e \in ToSet(todo') : dev'[e].reg = "unregistering"
  BY DEF ListsInv
<1>3. ASSUME NEW u \in Thread
      PROVE  /\ Distinct(snap[u])
             /\ snap[u] # <<>> => pc'[u] \in Working
             /\ pc'[u] \in {"flush", "wait"} => snap[u] # <<>>
             /\ \A e \in ToSet(snap[u]) :
                  dev'[e].reg = IF pc'[u] \in {"flush", "wait"} /\ e = Head(snap[u]) THEN "unregistered" ELSE "unregistering"
             /\ ToSet(snap[u]) \cap ToSet(todo') = {}
             /\ \A v \in Thread : /\ v # u => ToSet(snap[u]) \cap ToSet(snap[v]) = {}
                                  /\ unreg'[v] \notin ToSet(todo') \cup ToSet(snap[u])
  <2>1. Distinct(snap[u]) /\ (snap[u] # <<>> => pc'[u] \in Working) /\ (pc'[u] \in {"flush", "wait"} => snap[u] # <<>>)
    BY DEF ListsInv
  <2>2. \A e \in ToSet(snap[u]) :
          dev'[e].reg = IF pc'[u] \in {"flush", "wait"} /\ e = Head(snap[u]) THEN "unregistered" ELSE "unregistering"
    BY DEF ListsInv
  <2>3. ToSet(snap[u]) \cap ToSet(todo') = {}
    <3>1. ToSet(snap[u]) \cap ToSet(todo) = {}
      BY DEF ListsInv
    <3> HIDE DEF NetInv
    <3>2. QED BY <3>1
  <2>4. ASSUME NEW v \in Thread
        PROVE  /\ v # u => ToSet(snap[u]) \cap ToSet(snap[v]) = {}
               /\ unreg'[v] \notin ToSet(todo') \cup ToSet(snap[u])
    <3>1. /\ v # u => ToSet(snap[u]) \cap ToSet(snap[v]) = {}
          /\ unreg[v] \notin ToSet(todo) \cup ToSet(snap[u])
      BY DEF ListsInv
    <3> HIDE DEF NetInv
    <3>2. QED BY <1>1, <3>1
  <2> HIDE DEF NetInv
  <2>5. QED BY <2>1, <2>2, <2>3, <2>4
<1> HIDE DEF NetInv
<1>4. QED BY <1>2, <1>3 DEF ListsInv

(* The lists stay as they are.                                             *)
LEMMA ListsKeep ==
  ASSUME NetInv, todo' = todo, snap' = snap, unreg' = unreg,
         \A e \in ToSet(todo) : dev'[e].reg = dev[e].reg,
         \A u \in Thread : \A e \in ToSet(snap[u]) : dev'[e].reg = dev[e].reg,
         \A u \in Thread : /\ pc[u] \in Working /\ snap[u] # <<>> => pc'[u] \in Working
                           /\ pc'[u] \in {"flush", "wait"} <=> pc[u] \in {"flush", "wait"}
  PROVE  ListsInv'
<1>1. ListsInv
  BY DEF NetInv
<1>2. Distinct(todo) /\ \A e \in ToSet(todo) : dev'[e].reg = "unregistering"
  BY <1>1 DEF ListsInv
<1>3. ASSUME NEW u \in Thread
      PROVE  /\ Distinct(snap[u])
             /\ snap[u] # <<>> => pc'[u] \in Working
             /\ pc'[u] \in {"flush", "wait"} => snap[u] # <<>>
             /\ \A e \in ToSet(snap[u]) :
                  dev'[e].reg = IF pc'[u] \in {"flush", "wait"} /\ e = Head(snap[u]) THEN "unregistered" ELSE "unregistering"
             /\ ToSet(snap[u]) \cap ToSet(todo) = {}
             /\ \A v \in Thread : /\ v # u => ToSet(snap[u]) \cap ToSet(snap[v]) = {}
                                  /\ unreg[v] \notin ToSet(todo) \cup ToSet(snap[u])
  BY <1>1 DEF ListsInv
<1>4. QED BY <1>2, <1>3 DEF ListsInv

(* Bond and protocols let go of the device that is unlisted.               *)
LEMMA NotifyKeeps ==
  ASSUME NetInv, crashed = "no", NEW t \in Thread, Notify(t)
  PROVE  NetInv'
<1> USE DEF NetInv
<1> DEFINE d == unreg[t]
<1>1. /\ pc[t] = "notify" /\ NotifyUnregister(d)
      /\ \A u \in Thread : pc'[u] = IF u = t THEN "put" ELSE pc[u]
      /\ UNCHANGED <<ver, byslave, rtnl, mutex, unreg, creator, asked, snap, backlog, polling, busy, alive, strays>>
  BY DEF Notify, Goto, cpuVars, NetTypeOK
<1>2. /\ rtnl = t /\ d \in Device /\ d # None /\ dev[d].reg = "unregistering" /\ t # None
      /\ \A u \in Thread \ {t} : unreg[u] = None /\ pc[u] \notin {"notify", "put", "unlock", "dead"}
  BY <1>1, Members DEF LocksInv
<1> HIDE DEF d
<1>3. \A e \in slaves : e # d => Listed(e)
  BY <1>2 DEF SlavesInv, Told, d
<1>4. slaves # {} /\ d # Bond => Listed(Bond)
  BY <1>2 DEF SlavesInv, Told, d
<1>5. /\ dev' \in Devices /\ slaves' \in SUBSET Nic /\ IsFiniteSet(slaves') /\ crashed' = crashed
      /\ slaves' = IF d = Bond THEN {} ELSE slaves \ {d}
      /\ \A e \in Device \ {Bond} :
           /\ dev'[e].reg = dev[e].reg /\ (dev'[e].up => dev[e].up)
           /\ dev'[e].held = IF e = d THEN 0 ELSE dev[e].held
           /\ dev'[e].ref = IF e = d THEN dev[e].ref - dev[e].held ELSE dev[e].ref
      /\ \/ /\ d \in slaves /\ slaves' = {}
            /\ todo' = Append(todo, Bond) /\ bondList' = FALSE
            /\ dev'[Bond].reg = "unregistering" /\ ~dev'[Bond].up /\ dev'[Bond].held = 0
            /\ dev'[Bond].ref = dev[Bond].ref - dev[Bond].held - Cardinality(slaves) - 1
         \/ /\ todo' = todo /\ (bondList' => bondList)
            /\ dev'[Bond].reg = dev[Bond].reg /\ (dev'[Bond].up => dev[Bond].up)
            /\ dev'[Bond].held = IF d = Bond THEN 0 ELSE dev[Bond].held
            /\ dev'[Bond].ref = dev[Bond].ref - (IF d = Bond THEN dev[Bond].held ELSE 0)
                                  - (Cardinality(slaves) - Cardinality(slaves'))
  <2>1. d \in slaves => Listed(Bond)
    BY <1>4, Members DEF NetTypeOK
  <2>2. QED BY <1>1, <1>2, <2>1, NotifyFacts
<1>6. /\ \A e \in Device : dev'[e].reg \in {"unregistered", "released"} => dev[e].reg = dev'[e].reg
      /\ \A e \in Device : dev[e].reg \in {"unregistering", "unregistered", "released"} => dev'[e].reg = dev[e].reg
      /\ \A e \in Device \ {Bond} : Listed(e)' <=> Listed(e)
      /\ Listed(Bond)' => Listed(Bond)
  BY <1>4, <1>5, Members DEF Listed, NetTypeOK
<1>7. \/ todo' = todo
      \/ /\ todo' = Append(todo, Bond) /\ todo' \in Seq(Device) /\ ToSet(todo') = ToSet(todo) \cup {Bond}
         /\ dev[Bond].reg = "registered" /\ dev'[Bond].reg = "unregistering" /\ d # Bond /\ d \in slaves
         /\ Distinct(todo) /\ Bond \notin ToSet(todo) => Distinct(todo')
  <2>1. CASE todo' = Append(todo, Bond) /\ d \in slaves /\ dev'[Bond].reg = "unregistering"
    <3>1. d # Bond /\ Listed(Bond)
      BY <1>4, <2>1, Members DEF NetTypeOK
    <3>2. todo \in Seq(Device) /\ Bond \in Device
      BY Members
    <3>3. QED BY <2>1, <3>1, <3>2, AppendFacts DEF Listed
  <2>2. QED BY <1>5, <2>1
<1>8. NetTypeOK'
  <2>1. todo' \in Seq(Device) /\ bondList' \in BOOLEAN /\ pc' \in [Thread -> {"idle", "sysfs", "notify", "put", "unlock", "mutex", "dead"} \cup Working]
    BY <1>7, Members DEF NetTypeOK, Notify, Goto, NotifyUnregister
  <2>2. QED BY <1>1, <1>5, <2>1 DEF NetTypeOK
<1>9. LocksInv'
  <2>1. \A u \in Thread : unreg[u] # None => dev'[unreg[u]].reg = "unregistering"
    BY <1>2, <1>6, Members DEF d
  <2>2. QED BY <1>1, <1>2, <1>5, <2>1 DEF LocksInv, Working
<1>10. ListsInv'
  <2>1. \A u \in Thread : \A e \in ToSet(snap[u]) : dev'[e].reg = dev[e].reg
    BY <1>6, Members DEF ListsInv
  <2>2. \A e \in ToSet(todo) : dev'[e].reg = dev[e].reg
    BY <1>6, Members DEF ListsInv
  <2>3. \A u \in Thread : pc'[u] \in Working <=> pc[u] \in Working
    BY <1>1, <1>2 DEF Working
  <2>4. \A u \in Thread : pc'[u] \in {"flush", "wait"} <=> pc[u] \in {"flush", "wait"}
    BY <1>1, <1>2
  <2>5. CASE todo' = todo
    <3>1. snap' = snap /\ unreg' = unreg
      BY <1>1
    <3> HIDE DEF NetInv
    <3>2. QED BY <2>1, <2>2, <2>3, <2>4, <2>5, <3>1, ListsKeep
  <2>6. CASE todo' # todo
    <3>1. Bond \notin ToSet(todo) /\ \A u \in Thread : Bond \notin ToSet(snap[u]) /\ unreg[u] # Bond
      BY <1>2, <1>7, <2>6, Members DEF ListsInv, d
    <3>2. Distinct(todo') /\ ToSet(todo') = ToSet(todo) \cup {Bond} /\ dev'[Bond].reg = "unregistering"
      BY <1>7, <2>6, <3>1 DEF ListsInv
    <3>3. snap' = snap /\ unreg' = unreg /\ Bond \in Device
      BY <1>1, Members
    <3>4. \A u \in Thread : unreg'[u] # Bond /\ unreg'[u] \in {None, unreg[u]}
      BY <3>1, <3>3
    <3> HIDE DEF NetInv
    <3>5. QED BY <2>1, <2>2, <2>3, <2>4, <3>1, <3>2, <3>3, <3>4, ListedToDo
  <2>7. QED BY <2>5, <2>6
<1>11. AskedInv'
  <2>1. \A u \in Thread : \A e \in asked[u] : dev'[e].reg = dev[e].reg /\ (e \in ToSet(todo') <=> e \in ToSet(todo))
    BY <1>6, <1>7, Members DEF AskedInv
  <2>2. QED BY <1>1, <2>1 DEF AskedInv, Working
<1>12. SlavesInv'
  <2>1. \A e \in slaves' : Listed(e)'
    BY <1>3, <1>5, <1>6, Members DEF NetTypeOK
  <2>2. slaves' # {} => Listed(Bond)'
    BY <1>4, <1>5 DEF Listed
  <2>3. bondList' => Listed(Bond)'
    BY <1>5 DEF SlavesInv, Listed
  <2>4. creator' # None => dev'[Bond].reg # "uninitialized"
    BY <1>1, <1>5 DEF SlavesInv
  <2>5. \A e \in Device : dev'[e].up => Listed(e)'
    BY <1>5, <1>6 DEF SlavesInv, Listed
  <2>6. dev'[Bond].reg = "uninitialized" => dev'[Bond].held = 0 /\ slaves' = {}
    BY <1>5, Members DEF SlavesInv
  <2>7. \A e \in Nic : dev'[e].reg # "uninitialized"
    BY <1>5, Members DEF SlavesInv
  <2>8. QED BY <2>1, <2>2, <2>3, <2>4, <2>5, <2>6, <2>7 DEF SlavesInv, Told
<1>13. RefsExact'
  <2> SUFFICES ASSUME NEW e \in Device \ strays PROVE (dev[e].ref = Holders(e))'
    BY <1>1 DEF RefsExact
  <2>1. dev[e].ref = Holders(e)
    BY DEF RefsExact
  <2>2. Cardinality(Queued(backlog, e)) \in Nat /\ Cardinality(Receiving(busy, e)) \in Nat /\ Cardinality(slaves) \in Nat
        /\ dev[e].held \in Int /\ dev[e].ref \in Int /\ Cardinality({}) = 0 /\ Cardinality(slaves') \in Nat
    BY <1>5, QueuedFacts, ReceivingFacts, FS_CardinalityType, FS_EmptySet, DeviceFacts DEF NetTypeOK
  <2>3. UNCHANGED <<ver, busy, backlog, unreg>>
    BY <1>1
  <2>4. CASE e # Bond
    <3>1. Own(e)' <=> Own(e)
      BY <1>6, <2>3, <2>4 DEF Own, Listed
    <3>2. /\ dev'[e].held = IF e = d THEN 0 ELSE dev[e].held
          /\ dev'[e].ref = IF e = d THEN dev[e].ref - dev[e].held ELSE dev[e].ref
      BY <1>5, <2>4
    <3> HIDE DEF NetInv
    <3>3. QED BY <2>1, <2>2, <2>3, <2>4, <3>1, <3>2 DEF Holders
  <2>5. CASE e = Bond /\ dev'[Bond].reg = dev[Bond].reg
    <3>1. Own(e)' <=> Own(e)
      BY <2>3, <2>5 DEF Own
    <3>2. d \in slaves => Listed(Bond)
      BY <1>4, Members DEF NetTypeOK
    <3> HIDE DEF NetInv
    <3>3. /\ dev'[Bond].held = IF d = Bond THEN 0 ELSE dev[Bond].held
          /\ dev'[Bond].ref = dev[Bond].ref - (IF d = Bond THEN dev[Bond].held ELSE 0)
                                - (Cardinality(slaves) - Cardinality(slaves'))
      BY <1>5, <2>5, <3>2 DEF Listed
    <3>4. Holders(e)' = dev'[e].held + (IF Own(e) THEN 1 ELSE 0) + Cardinality(slaves')
          + (IF ver = "2.6.24" THEN Cardinality(Receiving(busy, e)) + Cardinality(Queued(backlog, e)) ELSE 0)
      BY <2>3, <2>5, <3>1 DEF Holders
    <3>5. Holders(e) = dev[e].held + (IF Own(e) THEN 1 ELSE 0) + Cardinality(slaves)
          + (IF ver = "2.6.24" THEN Cardinality(Receiving(busy, e)) + Cardinality(Queued(backlog, e)) ELSE 0)
      BY <2>5 DEF Holders
    <3>6. e = Bond
      BY <2>5
    <3>7. QED BY <2>1, <2>2, <3>3, <3>4, <3>5, <3>6
  <2>6. CASE e = Bond /\ dev'[Bond].reg # dev[Bond].reg
    <3>1. d \in slaves /\ slaves' = {} /\ dev'[Bond].reg = "unregistering" /\ dev'[Bond].held = 0
          /\ dev'[Bond].ref = dev[Bond].ref - dev[Bond].held - Cardinality(slaves) - 1
      BY <1>5, <2>6
    <3>2. Listed(Bond) /\ d # Bond /\ \A u \in Thread : unreg[u] # Bond
      BY <1>2, <1>4, <3>1, Members DEF NetTypeOK, d
    <3>3. Own(e) /\ ~Own(e)'
      BY <2>3, <2>6, <3>1, <3>2 DEF Own, Listed
    <3> HIDE DEF NetInv
    <3>4. QED BY <2>1, <2>2, <2>3, <2>6, <3>1, <3>3 DEF Holders
  <2>7. QED BY <2>4, <2>5, <2>6
<1>14. LeftInv'
  <2> SUFFICES ASSUME NEW e \in Device \ strays, dev'[e].reg \in {"unregistered", "released"},
                      \A u \in Thread : e \notin ToSet(snap[u])
               PROVE  dev'[e].ref = 0
    BY <1>1 DEF LeftInv
  <2>1. dev[e].reg = dev'[e].reg /\ dev[e].ref = 0 /\ e # d
    BY <1>2, <1>6 DEF LeftInv
  <2>2. CASE e # Bond
    BY <1>5, <2>1, <2>2
  <2>3. CASE e = Bond
    <3>1. slaves = {} /\ slaves' = {}
      BY <1>4, <1>5, <2>1, <2>3 DEF Listed
    <3>2. Cardinality({}) = 0
      BY FS_EmptySet
    <3>3. QED BY <1>5, <2>1, <2>3, <3>1, <3>2
  <2>4. QED BY <2>2, <2>3
<1>15. FlushedInv'
  <2>1. \A u \in Thread : pc'[u] = "flush" <=> pc[u] = "flush"
    BY <1>1
  <2>2. QED BY <1>1, <1>6, <2>1 DEF FlushedInv
<1>16. NoBugOn'
  BY <1>1, <1>5 DEF NoBugOn
<1>17. QED BY <1>8, <1>9, <1>10, <1>11, <1>12, <1>13, <1>14, <1>15, <1>16

(* The registration puts its reference; the device is on net_todo_list.    *)
LEMMA PutLastKeeps ==
  ASSUME NetInv, crashed = "no", NEW t \in Thread, PutLast(t)
  PROVE  NetInv'
<1> USE DEF NetInv
<1> DEFINE d == unreg[t]
<1>1. /\ pc[t] = "put" /\ dev' = DevPut(dev, d) /\ todo' = Append(todo, d)
      /\ \A u \in Thread : unreg'[u] = IF u = t THEN None ELSE unreg[u]
      /\ \A u \in Thread : pc'[u] = IF u = t THEN "unlock" ELSE pc[u]
      /\ UNCHANGED <<ver, slaves, byslave, bondList, rtnl, mutex, creator, asked, snap, backlog, polling, busy, alive,
                     strays, crashed>>
  BY DEF PutLast, Goto, cpuVars, bondVars, NetTypeOK
<1>2. /\ rtnl = t /\ d \in Device /\ d # None /\ dev[d].reg = "unregistering" /\ t # None
      /\ \A u \in Thread \ {t} : unreg[u] = None /\ pc[u] \notin {"notify", "put", "unlock", "dead"}
  BY <1>1, Members DEF LocksInv
<1>3. d \notin ToSet(todo) /\ \A u \in Thread : d \notin ToSet(snap[u])
  BY DEF ListsInv
<1>4. \A u \in Thread : \A e \in asked[u] : (u = t <=> e = d) /\ e # None
  BY <1>1, <1>2, Members DEF AskedInv
<1> HIDE DEF d
<1>5. /\ dev' \in Devices
      /\ \A e \in Device : /\ dev'[e].reg = dev[e].reg /\ (dev'[e].up => dev[e].up) /\ dev'[e].held = dev[e].held
                           /\ dev'[e].ref = IF e = d THEN dev[e].ref - 1 ELSE dev[e].ref
  BY <1>1, <1>2, PutFacts DEF NetTypeOK
<1>6. todo' \in Seq(Device) /\ ToSet(todo') = ToSet(todo) \cup {d} /\ Distinct(todo')
  BY <1>1, <1>2, <1>3, Members, AppendFacts DEF ListsInv
<1>7. NetTypeOK'
  <2>1. /\ pc' \in [Thread -> {"idle", "sysfs", "notify", "put", "unlock", "mutex", "dead"} \cup Working]
        /\ unreg' \in [Thread -> Device \cup {None}]
    BY DEF PutLast, Goto, NetTypeOK
  <2>2. QED BY <1>1, <1>5, <1>6, <2>1 DEF NetTypeOK
<1>8. LocksInv'
  BY <1>1, <1>2, <1>5, Members DEF LocksInv, Working
<1>9. ListsInv'
  <2>1. \A u \in Thread : \A e \in ToSet(snap[u]) : dev'[e].reg = dev[e].reg
    BY <1>5, Members
  <2>3. \A u \in Thread : pc'[u] \in Working <=> pc[u] \in Working
    BY <1>1 DEF Working
  <2>4. \A u \in Thread : pc'[u] \in {"flush", "wait"} <=> pc[u] \in {"flush", "wait"}
    BY <1>1
  <2>5. \A u \in Thread : unreg'[u] # d /\ unreg'[u] \in {None, unreg[u]}
    BY <1>1, <1>2, Members
  <2>6. \A e \in ToSet(todo) : dev'[e].reg = dev[e].reg
    BY <1>5, Members
  <2>7. snap' = snap /\ dev'[d].reg = "unregistering"
    BY <1>1, <1>2, <1>5
  <2> HIDE DEF NetInv
  <2>8. QED BY <1>2, <1>3, <1>6, <2>1, <2>3, <2>4, <2>5, <2>6, <2>7, ListedToDo
<1>10. AskedInv'
  <2>1. \A u \in Thread : \A e \in asked[u] : dev'[e].reg = dev[e].reg
    BY <1>5, Members
  <2>2. QED BY <1>1, <1>2, <1>4, <1>6, <2>1 DEF AskedInv, Working
<1>11. SlavesInv'
  <2>1. \A e \in Device : Listed(e)' <=> Listed(e)
    BY <1>5 DEF Listed
  <2>2. \A e \in slaves \cup {Bond} : e \in Device
    BY Members DEF NetTypeOK
  <2>3. \A e \in Device : Told(e) => Told(e)'
    BY <1>1, <1>2, <2>1 DEF Told
  <2>4. QED BY <1>1, <1>5, <2>1, <2>2, <2>3, Members DEF SlavesInv
<1>12. RefsExact'
  <2> SUFFICES ASSUME NEW e \in Device \ strays PROVE (dev[e].ref = Holders(e))'
    BY <1>1 DEF RefsExact
  <2>1. dev[e].ref = Holders(e)
    BY DEF RefsExact
  <2>2. Cardinality(Queued(backlog, e)) \in Nat /\ Cardinality(Receiving(busy, e)) \in Nat /\ Cardinality(slaves) \in Nat
        /\ dev[e].held \in Int /\ dev[e].ref \in Int
    BY QueuedFacts, ReceivingFacts, FS_CardinalityType, DeviceFacts DEF NetTypeOK
  <2>3. UNCHANGED <<ver, busy, backlog, slaves>>
    BY <1>1
  <2>4. /\ e = d => Own(e) /\ ~Own(e)'
        /\ e # d => (Own(e)' <=> Own(e))
    <3>1. dev'[e].reg = dev[e].reg /\ e # None
      BY <1>5, Members
    <3>2. \A u \in Thread : unreg'[u] = None \/ unreg'[u] = unreg[u]
      BY <1>1
    <3>3. \A u \in Thread : unreg[u] = e => u = t /\ e = d
      BY <1>2, <3>1 DEF d
    <3>4. unreg[t] = d /\ unreg'[t] = None
      BY <1>1 DEF d
    <3>5. QED BY <1>2, <3>1, <3>2, <3>3, <3>4 DEF Own
  <2> HIDE DEF NetInv
  <2>5. QED BY <1>5, <2>1, <2>2, <2>3, <2>4 DEF Holders
<1>13. LeftInv'
  BY <1>1, <1>2, <1>5 DEF LeftInv
<1>14. FlushedInv'
  <2>1. \A u \in Thread : pc'[u] = "flush" <=> pc[u] = "flush"
    BY <1>1
  <2>2. QED BY <1>1, <1>5, <2>1 DEF FlushedInv
<1>15. NoBugOn'
  BY <1>1 DEF NoBugOn
<1>16. QED BY <1>7, <1>8, <1>9, <1>10, <1>11, <1>12, <1>13, <1>14, <1>15

-------------------------------------------------------------------------------
(***************************************************************************)
(* The end of an unregistration.                                           *)
(***************************************************************************)

(* A queue has no packet of a device if none of its places has one.        *)
LEMMA NoneQueued ==
  ASSUME NEW q \in Queues, NEW d
  PROVE  Queued(q, d) = {} <=> \A c \in Cpu : d \notin ToSet(q[c])
<1>1. ASSUME NEW c \in Cpu
      PROVE  /\ DOMAIN q[c] = 1..Len(q[c]) /\ Len(q[c]) \in Nat /\ Len(q[c]) <= MaxBacklog + 1
             /\ \A i \in 1..Len(q[c]) : i \in 1..(MaxBacklog + 1)
  <2>1. q[c] \in Seq(Nic) /\ Len(q[c]) <= MaxBacklog + 1 /\ MaxBacklog \in Nat
    BY NetAssumption DEF Queues
  <2>2. QED BY <2>1
<1>2. ASSUME NEW c \in Cpu, d \in ToSet(q[c]) PROVE Queued(q, d) # {}
  <2>1. PICK i \in 1..Len(q[c]) : q[c][i] = d
    BY <1>1, <1>2 DEF ToSet
  <2>2. <<c, i>> \in Queued(q, d)
    BY <1>1, <2>1 DEF Queued
  <2>3. QED BY <2>2
<1>3. ASSUME NEW p \in Queued(q, d) PROVE \E c \in Cpu : d \in ToSet(q[c])
  <2>1. p[1] \in Cpu /\ p[2] \in 1..(MaxBacklog + 1) /\ p[2] <= Len(q[p[1]]) /\ q[p[1]][p[2]] = d
    BY DEF Queued
  <2>2. p[2] \in 1..Len(q[p[1]])
    BY <1>1, <2>1
  <2>3. QED BY <1>1, <2>1, <2>2 DEF ToSet
<1>4. QED BY <1>2, <1>3

(* The device a thread is busy with in netdev_run_todo is on no other list *)
(* and is not the bonding driver's.                                        *)
LEMMA AtHead ==
  ASSUME NetInv, NEW t \in Thread, snap[t] # <<>>, NEW d, d = Head(snap[t])
  PROVE  /\ d \in Device /\ d \in ToSet(snap[t]) /\ d \notin ToSet(todo)
         /\ \A u \in Thread : unreg[u] # d /\ (u # t => d \notin ToSet(snap[u]))
         /\ dev[d].reg = IF pc[t] \in {"flush", "wait"} THEN "unregistered" ELSE "unregistering"
         /\ d \notin slaves
         /\ d = Bond => slaves = {} /\ ~bondList
<1> USE DEF NetInv
<1>1. d \in ToSet(snap[t]) /\ d \in Device
  BY Members, ListFacts
<1>2. d \notin ToSet(todo) /\ \A u \in Thread : unreg[u] # d
  BY <1>1 DEF ListsInv
<1>3. \A u \in Thread : u # t => d \notin ToSet(snap[u])
  BY <1>1 DEF ListsInv
<1>4. dev[d].reg = IF pc[t] \in {"flush", "wait"} THEN "unregistered" ELSE "unregistering"
  BY <1>1 DEF ListsInv
<1>5. ~Listed(d) /\ ~Told(d)
  BY <1>2, <1>4 DEF Listed, Told
<1>6. d \notin slaves /\ (d = Bond => slaves = {} /\ ~bondList)
  BY <1>5 DEF SlavesInv
<1>7. QED BY <1>1, <1>2, <1>3, <1>4, <1>6

(* What the bond knows does not change while no device is registered or    *)
(* unlisted.                                                               *)
LEMMA SlavesKeep ==
  ASSUME NetInv, slaves' = slaves, bondList' = bondList, creator' = creator, unreg' = unreg,
         \A e \in Device : /\ dev'[e].reg = "registered" <=> dev[e].reg = "registered"
                           /\ dev'[e].reg = "uninitialized" => dev[e].reg = "uninitialized"
                           /\ (dev'[e].up => dev[e].up) /\ dev'[e].held = dev[e].held,
         \A u \in Thread : pc[u] = "notify" => pc'[u] = "notify"
  PROVE  SlavesInv'
<1> USE DEF NetInv
<1>1. \A e \in Device : Listed(e)' <=> Listed(e)
  BY DEF Listed
<1>2. \A e \in Device : Told(e) => Told(e)'
  BY <1>1 DEF Told
<1>3. \A e \in slaves \cup {Bond} : e \in Device
  BY Members DEF NetTypeOK
<1>4. SlavesInv
  OBVIOUS
<1>5. Bond \in Device /\ Nic \subseteq Device
  BY Members
<1> HIDE DEF NetInv
<1>6. QED BY <1>1, <1>2, <1>3, <1>4, <1>5 DEF SlavesInv

(* No reference is counted or forgotten.                                   *)
LEMMA RefsKeep ==
  ASSUME NetInv, ver' = ver, slaves' = slaves, unreg' = unreg, busy' = busy, strays \subseteq strays',
         ver = "2.6.27" \/ backlog' = backlog,
         \A e \in Device : /\ dev'[e].reg = "registered" <=> dev[e].reg = "registered"
                           /\ dev'[e].held = dev[e].held /\ dev'[e].ref = dev[e].ref
  PROVE  RefsExact'
<1> SUFFICES ASSUME NEW e \in Device \ strays PROVE (dev[e].ref = Holders(e))'
  BY DEF RefsExact
<1>1. dev[e].ref = Holders(e)
  BY DEF NetInv, RefsExact
<1>2. Own(e)' <=> Own(e)
  BY DEF Own
<1>3. CASE ver = "2.6.27"
  BY <1>1, <1>2, <1>3 DEF Holders
<1>4. CASE backlog' = backlog
  BY <1>1, <1>2, <1>4 DEF Holders
<1>5. QED BY <1>3, <1>4

(* netdev_wait_allrefs tells again; the bonding driver has heard it.       *)
LEMMA RebroadcastKeeps ==
  ASSUME NetInv, crashed = "no", NEW t \in Thread, Rebroadcast(t)
  PROVE  NetInv'
<1> USE DEF NetInv
<1> DEFINE d == Head(snap[t])
<1>1. /\ pc[t] = "wait" /\ rtnl = None /\ NotifyUnregister(d)
      /\ UNCHANGED <<ver, byslave, rtnl, mutex, pc, unreg, creator, asked, snap, backlog, polling, busy, alive, strays>>
  BY DEF Rebroadcast, cpuVars
<1>2. snap[t] # <<>>
  BY <1>1 DEF ListsInv
<1>3. /\ d \in Device /\ d \in ToSet(snap[t]) /\ dev[d].reg = "unregistered" /\ d \notin slaves
      /\ d = Bond => slaves = {}
  BY <1>1, <1>2, AtHead
<1> HIDE DEF d
<1>4. /\ dev' \in Devices /\ crashed' = crashed
      /\ slaves' = IF d = Bond THEN {} ELSE slaves \ {d}
      /\ \A e \in Device \ {Bond} :
           /\ dev'[e].reg = dev[e].reg /\ (dev'[e].up => dev[e].up)
           /\ dev'[e].held = IF e = d THEN 0 ELSE dev[e].held
           /\ dev'[e].ref = IF e = d THEN dev[e].ref - dev[e].held ELSE dev[e].ref
      /\ todo' = todo
      /\ dev'[Bond].reg = dev[Bond].reg /\ (dev'[Bond].up => dev[Bond].up)
      /\ dev'[Bond].held = IF d = Bond THEN 0 ELSE dev[Bond].held
      /\ dev'[Bond].ref = dev[Bond].ref - (IF d = Bond THEN dev[Bond].held ELSE 0)
                             - (Cardinality(slaves) - Cardinality(slaves'))
  BY <1>1, <1>3, NotifyFacts
<1>5. slaves' = slaves
  BY <1>3, <1>4
<1>6. bondList' = bondList
  BY <1>1, <1>3 DEF NotifyUnregister, NetTypeOK
<1>7. \A e \in Device : /\ dev'[e].reg = dev[e].reg /\ (dev'[e].up => dev[e].up)
                        /\ dev'[e].held = IF e = d THEN 0 ELSE dev[e].held
                        /\ dev'[e].ref = IF e = d THEN dev[e].ref - dev[e].held ELSE dev[e].ref
  <2>1. Cardinality(slaves) \in Nat /\ dev[Bond].ref \in Int /\ dev[Bond].held \in Int
    BY FS_CardinalityType, DeviceFacts, Members DEF NetTypeOK
  <2>2. Cardinality(slaves) - Cardinality(slaves') = 0
    BY <1>5, <2>1
  <2> HIDE DEF NetInv
  <2>3. dev'[Bond].ref = IF Bond = d THEN dev[Bond].ref - dev[Bond].held ELSE dev[Bond].ref
    <3>1. dev'[Bond].ref = dev[Bond].ref - (IF d = Bond THEN dev[Bond].held ELSE 0) - 0
      BY <1>4, <2>2
    <3>2. QED BY <2>1, <3>1
  <2>4. QED BY <1>4, <2>3
<1>8. LocksInv' /\ ListsInv' /\ AskedInv' /\ SlavesInv' /\ NoBugOn'
  <2>1. dev[Bond].reg = "uninitialized" => dev'[Bond].held = 0
    BY <1>3, <1>7, Members DEF SlavesInv
  <2>2. UNCHANGED <<ver, bondVars, threadVars, crashed>>
    BY <1>1, <1>4, <1>5, <1>6 DEF bondVars, threadVars
  <2> HIDE DEF NetInv
  <2>3. QED BY <1>4, <1>7, <2>1, <2>2, PacketsKeep
<1>9. NetTypeOK'
  BY <1>1, <1>4, <1>5, <1>6 DEF NetTypeOK
<1>10. RefsExact'
  <2> SUFFICES ASSUME NEW e \in Device \ strays PROVE (dev[e].ref = Holders(e))'
    BY <1>1 DEF RefsExact
  <2>1. dev[e].ref = Holders(e) /\ dev[e].ref \in Int /\ dev[e].held \in Int /\ Cardinality(slaves) \in Nat
        /\ Cardinality(Queued(backlog, e)) \in Nat /\ Cardinality(Receiving(busy, e)) \in Nat
    BY DeviceFacts, FS_CardinalityType, QueuedFacts, ReceivingFacts DEF RefsExact, NetTypeOK
  <2>2. UNCHANGED <<ver, slaves, unreg, busy, backlog>>
    BY <1>1, <1>5
  <2>3. Own(e)' <=> Own(e)
    BY <1>7, <2>2 DEF Own
  <2> HIDE DEF NetInv
  <2>4. QED BY <1>7, <2>1, <2>2, <2>3 DEF Holders
<1>11. LeftInv'
  BY <1>1, <1>3, <1>7 DEF LeftInv
<1>12. FlushedInv'
  BY <1>1, <1>7 DEF FlushedInv
<1>13. QED BY <1>8, <1>9, <1>10, <1>11, <1>12

(* 2.6.27: who unlocks rtnl takes what is on net_todo_list with it.        *)
LEMMA UnlockRtnl27Keeps ==
  ASSUME NetInv, crashed = "no", NEW t \in Thread, UnlockRtnl27(t)
  PROVE  NetInv'
<1> USE DEF NetInv
<1>1. /\ ver = "2.6.27" /\ pc[t] = "unlock" /\ todo' = <<>> /\ rtnl' = None
      /\ \A u \in Thread : snap'[u] = IF u = t THEN todo ELSE snap[u]
      /\ \A u \in Thread : pc'[u] = IF u = t THEN "todo" ELSE pc[u]
      /\ UNCHANGED <<ver, dev, slaves, byslave, bondList, mutex, unreg, creator, asked, backlog, polling, busy, alive,
                     strays, crashed>>
  BY DEF UnlockRtnl27, Goto, cpuVars, bondVars, NetTypeOK
<1>2. /\ rtnl = t /\ unreg[t] = None /\ snap[t] = <<>> /\ ToSet(snap[t]) = {}
      /\ \A u \in Thread : u # None
      /\ \A u \in Thread \ {t} : unreg[u] = None /\ pc[u] \notin {"notify", "put", "unlock", "dead"}
  BY <1>1, Members, EmptyFacts DEF LocksInv, ListsInv, Working
<1>3. NetTypeOK'
  <2>1. snap' \in [Thread -> Seq(Device)] /\ todo' \in Seq(Device)
        /\ pc' \in [Thread -> {"idle", "sysfs", "notify", "put", "unlock", "mutex", "dead"} \cup Working]
    BY DEF UnlockRtnl27, Goto, NetTypeOK, Working
  <2>2. QED BY <1>1, <2>1 DEF NetTypeOK
<1>4. LocksInv'
  BY <1>1, <1>2 DEF LocksInv, Working
<1>5. ListsInv'
  <2>1. Distinct(todo') /\ ToSet(todo') = {}
    BY <1>1, EmptyFacts
  <2>2. ASSUME NEW u \in Thread
        PROVE  /\ Distinct(snap'[u])
               /\ snap'[u] # <<>> => pc'[u] \in Working
               /\ pc'[u] \in {"flush", "wait"} => snap'[u] # <<>>
               /\ \A e \in ToSet(snap'[u]) :
                    dev[e].reg = IF pc'[u] \in {"flush", "wait"} /\ e = Head(snap'[u]) THEN "unregistered" ELSE "unregistering"
               /\ \A v \in Thread : /\ v # u => ToSet(snap'[u]) \cap ToSet(snap'[v]) = {}
                                    /\ unreg[v] \notin ToSet(snap'[u])
    <3>1. CASE u = t
      BY <1>1, <1>2, <3>1 DEF ListsInv, Working
    <3>2. CASE u # t
      <4>1. snap'[u] = snap[u] /\ pc'[u] = pc[u]
        BY <1>1, <3>2
      <4>2. /\ Distinct(snap[u]) /\ (snap[u] # <<>> => pc[u] \in Working) /\ (pc[u] \in {"flush", "wait"} => snap[u] # <<>>)
            /\ \A e \in ToSet(snap[u]) :
                    dev[e].reg = IF pc[u] \in {"flush", "wait"} /\ e = Head(snap[u]) THEN "unregistered" ELSE "unregistering"
            /\ ToSet(snap[u]) \cap ToSet(todo) = {}
            /\ \A v \in Thread : /\ v # u => ToSet(snap[u]) \cap ToSet(snap[v]) = {}
                                 /\ unreg[v] \notin ToSet(snap[u])
        BY DEF ListsInv
      <4> HIDE DEF NetInv
      <4>3. QED BY <1>1, <4>1, <4>2
    <3>3. QED BY <3>1, <3>2
  <2>3. dev' = dev /\ unreg' = unreg
    BY <1>1
  <2> HIDE DEF NetInv
  <2>4. QED BY <2>1, <2>2, <2>3 DEF ListsInv
<1>6. AskedInv'
  <2> SUFFICES ASSUME NEW u \in Thread, NEW e \in asked[u]
      PROVE  /\ dev[e].reg \in {"unregistering", "unregistered"}
             /\ pc'[u] \in Working
             /\ e \in ToSet(snap'[u]) \/ dev[e].reg = "unregistered"
             /\ \A v \in Thread \ {u} : e \notin asked[v] /\ unreg[v] # e /\ e \notin ToSet(snap'[v])
    BY <1>1, EmptyFacts DEF AskedInv, Working
  <2>1. /\ dev[e].reg \in {"unregistering", "unregistered"}
        /\ pc[u] \in {"notify", "put", "unlock", "mutex"} \cup Working
        /\ pc[u] \in {"unlock", "mutex"} =>
              e \in ToSet(todo) \/ dev[e].reg = "unregistered" \/ \E v \in Thread : mutex = v /\ e \in ToSet(snap[v])
        /\ pc[u] \in Working => e \in ToSet(snap[u]) \/ dev[e].reg = "unregistered"
        /\ \A v \in Thread \ {u} : e \notin asked[v] /\ unreg[v] # e /\ e \notin ToSet(snap[v])
        /\ e \in ToSet(todo) => u = t
    BY <1>1, <1>2 DEF AskedInv
  <2>2. \A v \in Thread : mutex # v /\ pc[v] # "mutex"
    BY <1>1 DEF LocksInv
  <2> HIDE DEF NetInv
  <2>3. QED BY <1>1, <1>2, <2>1, <2>2 DEF Working
<1>7. SlavesInv' /\ RefsExact'
  <2>1. /\ \A u \in Thread : pc[u] = "notify" => pc'[u] = "notify"
        /\ slaves' = slaves /\ bondList' = bondList /\ creator' = creator /\ unreg' = unreg /\ dev' = dev
        /\ ver' = ver /\ busy' = busy /\ strays' = strays /\ backlog' = backlog
    BY <1>1
  <2> HIDE DEF NetInv
  <2>2. QED BY <2>1, SlavesKeep, RefsKeep
<1>8. LeftInv'
  <2>1. ASSUME NEW e, \A u \in Thread : e \notin ToSet(snap'[u]) PROVE \A u \in Thread : e \notin ToSet(snap[u])
    BY <1>1, <1>2, <2>1
  <2>2. QED BY <1>1, <2>1 DEF LeftInv
<1>9. FlushedInv'
  <2>1. ASSUME NEW e, \A u \in Thread : ~(pc'[u] = "flush" /\ e = Head(snap'[u]))
        PROVE \A u \in Thread : ~(pc[u] = "flush" /\ e = Head(snap[u]))
    BY <1>1, <2>1
  <2>2. QED BY <1>1, <2>1 DEF FlushedInv
<1>10. NoBugOn'
  BY <1>1, <1>2 DEF NoBugOn
<1>11. QED BY <1>3, <1>4, <1>5, <1>6, <1>7, <1>8, <1>9, <1>10

(* 2.6.24: who unlocks rtnl waits for net_todo_run_mutex.                  *)
LEMMA UnlockRtnl24Keeps ==
  ASSUME NetInv, crashed = "no", NEW t \in Thread, UnlockRtnl24(t)
  PROVE  NetInv'
<1> USE DEF NetInv
<1>1. /\ ver = "2.6.24" /\ pc[t] = "unlock" /\ rtnl' = None
      /\ \A u \in Thread : pc'[u] = IF u = t THEN "mutex" ELSE pc[u]
      /\ ver' = ver /\ dev' = dev /\ slaves' = slaves /\ bondList' = bondList /\ mutex' = mutex /\ unreg' = unreg
      /\ creator' = creator /\ asked' = asked /\ todo' = todo /\ snap' = snap /\ backlog' = backlog /\ busy' = busy
      /\ strays' = strays /\ crashed' = crashed
  BY DEF UnlockRtnl24, Goto, cpuVars, bondVars, NetTypeOK
<1>2. /\ rtnl = t /\ unreg[t] = None /\ snap[t] = <<>>
      /\ \A u \in Thread : u # None
      /\ \A u \in Thread \ {t} : pc[u] \notin {"notify", "put", "unlock", "dead"}
  BY <1>1, Members DEF LocksInv, ListsInv, Working
<1>3. NetTypeOK'
  BY DEF UnlockRtnl24, Goto, cpuVars, bondVars, NetTypeOK
<1>4. LocksInv'
  BY <1>1, <1>2 DEF LocksInv, Working
<1>5. ListsInv'
  <2>1. \A u \in Thread : /\ pc[u] \in Working => pc'[u] \in Working
                          /\ pc'[u] \in {"flush", "wait"} <=> pc[u] \in {"flush", "wait"}
    BY <1>1 DEF Working
  <2> HIDE DEF NetInv
  <2>2. QED BY <1>1, <2>1, ListsKeep
<1>6. AskedInv'
  BY <1>1, <1>2 DEF AskedInv, Working
<1>7. SlavesInv' /\ RefsExact'
  <2>1. \A u \in Thread : pc[u] = "notify" => pc'[u] = "notify"
    BY <1>1
  <2> HIDE DEF NetInv
  <2>2. QED BY <1>1, <2>1, SlavesKeep, RefsKeep
<1>8. LeftInv'
  BY <1>1 DEF LeftInv
<1>9. FlushedInv'
  BY <1>1 DEF FlushedInv
<1>10. NoBugOn'
  BY <1>1, <1>2 DEF NoBugOn
<1>11. QED BY <1>3, <1>4, <1>5, <1>6, <1>7, <1>8, <1>9, <1>10

(* 2.6.24: who has net_todo_run_mutex takes what is on net_todo_list; all  *)
(* who had it before are done.                                             *)
LEMMA RunTodo24Keeps ==
  ASSUME NetInv, crashed = "no", NEW t \in Thread, RunTodo24(t)
  PROVE  NetInv'
<1> USE DEF NetInv
<1>1. /\ pc[t] = "mutex" /\ mutex = None /\ mutex' = t /\ todo' = <<>>
      /\ \A u \in Thread : snap'[u] = IF u = t THEN todo ELSE snap[u]
      /\ \A u \in Thread : pc'[u] = IF u = t THEN "todo" ELSE pc[u]
      /\ ver' = ver /\ dev' = dev /\ slaves' = slaves /\ bondList' = bondList /\ rtnl' = rtnl /\ unreg' = unreg
      /\ creator' = creator /\ asked' = asked /\ backlog' = backlog /\ busy' = busy
      /\ strays' = strays /\ crashed' = crashed
  BY DEF RunTodo24, Goto, cpuVars, bondVars, NetTypeOK
<1>2. /\ ver = "2.6.24" /\ unreg[t] = None /\ \A u \in Thread : u # None
  BY <1>1, Members DEF LocksInv, NetTypeOK
<1>3. \A u \in Thread : pc[u] \notin Working /\ snap[u] = <<>> /\ ToSet(snap[u]) = {}
  BY <1>1, <1>2, EmptyFacts DEF LocksInv, ListsInv
<1>4. NetTypeOK'
  <2>1. /\ snap' \in [Thread -> Seq(Device)] /\ todo' \in Seq(Device) /\ mutex' \in Thread
        /\ pc' \in [Thread -> {"idle", "sysfs", "notify", "put", "unlock", "mutex", "dead"} \cup Working]
    BY DEF RunTodo24, Goto, NetTypeOK, Working
  <2>2. QED BY <2>1 DEF NetTypeOK, RunTodo24, cpuVars, bondVars
<1>5. LocksInv'
  BY <1>1, <1>2, <1>3 DEF LocksInv, Working
<1>6. ListsInv'
  <2>1. Distinct(todo') /\ ToSet(todo') = {}
    BY <1>1, EmptyFacts
  <2>2. ASSUME NEW u \in Thread
        PROVE  /\ Distinct(snap'[u])
               /\ snap'[u] # <<>> => pc'[u] \in Working
               /\ pc'[u] \notin {"flush", "wait"}
               /\ \A e \in ToSet(snap'[u]) : dev[e].reg = "unregistering"
               /\ \A v \in Thread : v # u => ToSet(snap'[u]) \cap ToSet(snap'[v]) = {}
               /\ \A v \in Thread : unreg[v] \notin ToSet(snap'[u])
    <3>1. CASE u = t
      BY <1>1, <1>3, <3>1 DEF ListsInv, Working
    <3>2. CASE u # t
      BY <1>1, <1>3, <3>2, EmptyFacts DEF Working
    <3>3. QED BY <3>1, <3>2
  <2> HIDE DEF NetInv
  <2>3. QED BY <1>1, <2>1, <2>2 DEF ListsInv
<1>7. AskedInv'
  <2> SUFFICES ASSUME NEW u \in Thread, NEW e \in asked[u]
      PROVE  /\ dev[e].reg \in {"unregistering", "unregistered"}
             /\ pc'[u] \in {"notify", "put", "unlock", "mutex"} \cup Working
             /\ pc'[u] \in {"notify", "put"} => unreg[u] = e
             /\ pc'[u] \in {"unlock", "mutex"} =>
                  dev[e].reg = "unregistered" \/ \E v \in Thread : mutex' = v /\ e \in ToSet(snap'[v])
             /\ pc'[u] \in Working => e \in ToSet(snap'[u]) \/ dev[e].reg = "unregistered"
             /\ \A v \in Thread \ {u} : e \notin asked[v] /\ unreg[v] # e
    BY <1>1, <1>2 DEF AskedInv
  <2>1. /\ dev[e].reg \in {"unregistering", "unregistered"}
        /\ pc[u] \in {"notify", "put", "unlock", "mutex"}
        /\ pc[u] \in {"notify", "put"} => unreg[u] = e
        /\ pc[u] \in {"unlock", "mutex"} => e \in ToSet(todo) \/ dev[e].reg = "unregistered"
        /\ \A v \in Thread \ {u} : e \notin asked[v] /\ unreg[v] # e
    BY <1>3 DEF AskedInv
  <2> HIDE DEF NetInv
  <2>2. QED BY <1>1, <2>1 DEF Working
<1>8. SlavesInv' /\ RefsExact'
  <2>1. \A u \in Thread : pc[u] = "notify" => pc'[u] = "notify"
    BY <1>1
  <2> HIDE DEF NetInv
  <2>2. QED BY <1>1, <2>1, SlavesKeep, RefsKeep
<1>9. LeftInv'
  BY <1>1, <1>3 DEF LeftInv
<1>10. FlushedInv'
  BY <1>1, <1>2 DEF FlushedInv
<1>11. NoBugOn'
  BY <1>1 DEF NoBugOn
<1>12. QED BY <1>4, <1>5, <1>6, <1>7, <1>8, <1>9, <1>10, <1>11

(* A device is unregistered, the next one of its list.                     *)
LEMMA TodoNextKeeps ==
  ASSUME NetInv, crashed = "no", NEW t \in Thread, TodoNext(t)
  PROVE  NetInv'
<1> USE DEF NetInv
<1> DEFINE d == Head(snap[t])
<1>1. /\ pc[t] = "todo" /\ snap[t] # <<>> /\ dev' = [dev EXCEPT ![d].reg = "unregistered"]
      /\ \A u \in Thread : pc'[u] = IF u = t THEN (IF ver = "2.6.24" THEN "wait" ELSE "flush") ELSE pc[u]
      /\ ver' = ver /\ slaves' = slaves /\ bondList' = bondList /\ rtnl' = rtnl /\ mutex' = mutex /\ unreg' = unreg
      /\ creator' = creator /\ asked' = asked /\ todo' = todo /\ snap' = snap /\ backlog' = backlog /\ busy' = busy
      /\ strays' = strays /\ crashed' = crashed
  BY DEF TodoNext, Goto, cpuVars, bondVars, NetTypeOK
<1>2. /\ d \in Device /\ d \in ToSet(snap[t]) /\ d \notin ToSet(todo)
      /\ \A u \in Thread : unreg[u] # d /\ (u # t => d \notin ToSet(snap[u]))
      /\ dev[d].reg = "unregistering"
  BY <1>1, AtHead
<1> DEFINE D == [dev EXCEPT ![d].reg = "unregistered"]
<1>3. /\ D \in Devices
      /\ \A e \in Device : /\ D[e].reg = IF e = d THEN "unregistered" ELSE dev[e].reg
                           /\ (D[e].up => dev[e].up) /\ D[e].held = dev[e].held /\ D[e].ref = dev[e].ref
  BY <1>2 DEF NetTypeOK, Devices, NetDevice
<1>4. dev' = D
  BY <1>1
<1> HIDE DEF d, D
<1>5. /\ dev' \in Devices
      /\ \A e \in Device : /\ dev'[e].reg = IF e = d THEN "unregistered" ELSE dev[e].reg
                           /\ (dev'[e].up => dev[e].up) /\ dev'[e].held = dev[e].held /\ dev'[e].ref = dev[e].ref
  BY <1>3, <1>4
<1>6. NetTypeOK'
  <2>1. pc' \in [Thread -> {"idle", "sysfs", "notify", "put", "unlock", "mutex", "dead"} \cup Working]
    BY DEF TodoNext, Goto, NetTypeOK, Working
  <2>2. QED BY <1>5, <2>1 DEF NetTypeOK, TodoNext, cpuVars, bondVars
<1>7. LocksInv'
  <2>1. \A u \in Thread : unreg[u] # None => dev'[unreg[u]].reg = "unregistering"
    BY <1>2, <1>5, Members DEF LocksInv
  <2>2. \A u \in Thread : pc'[u] \in Working <=> pc[u] \in Working
    BY <1>1 DEF Working
  <2>3. ver \in {"2.6.24", "2.6.27"}
    BY DEF NetTypeOK
  <2>4. QED BY <1>1, <2>1, <2>2, <2>3 DEF LocksInv, Working
<1>8. ListsInv'
  <2>1. Distinct(todo) /\ \A e \in ToSet(todo) : dev'[e].reg = "unregistering"
    BY <1>2, <1>5, Members DEF ListsInv
  <2>2. ASSUME NEW u \in Thread
        PROVE  /\ Distinct(snap[u])
               /\ snap[u] # <<>> => pc'[u] \in Working
               /\ pc'[u] \in {"flush", "wait"} => snap[u] # <<>>
               /\ \A e \in ToSet(snap[u]) :
                    dev'[e].reg = IF pc'[u] \in {"flush", "wait"} /\ e = Head(snap[u]) THEN "unregistered" ELSE "unregistering"
               /\ ToSet(snap[u]) \cap ToSet(todo) = {}
               /\ \A v \in Thread : /\ v # u => ToSet(snap[u]) \cap ToSet(snap[v]) = {}
                                    /\ unreg[v] \notin ToSet(todo) \cup ToSet(snap[u])
    <3>1. /\ Distinct(snap[u]) /\ ToSet(snap[u]) \subseteq Device
          /\ snap[u] # <<>> => pc[u] \in Working
          /\ pc[u] \in {"flush", "wait"} => snap[u] # <<>>
          /\ \A e \in ToSet(snap[u]) :
                dev[e].reg = IF pc[u] \in {"flush", "wait"} /\ e = Head(snap[u]) THEN "unregistered" ELSE "unregistering"
          /\ ToSet(snap[u]) \cap ToSet(todo) = {}
          /\ \A v \in Thread : /\ v # u => ToSet(snap[u]) \cap ToSet(snap[v]) = {}
                               /\ unreg[v] \notin ToSet(todo) \cup ToSet(snap[u])
      BY Members DEF ListsInv
    <3> HIDE DEF NetInv
    <3>2. CASE u = t
      BY <1>1, <1>2, <1>5, <3>1, <3>2 DEF Working, d
    <3>3. CASE u # t
      BY <1>1, <1>2, <1>5, <3>1, <3>3
    <3>4. QED BY <3>2, <3>3
  <2>3. todo' = todo /\ snap' = snap /\ unreg' = unreg
    BY <1>1
  <2> HIDE DEF NetInv
  <2>4. QED BY <2>1, <2>2, <2>3 DEF ListsInv
<1>9. AskedInv'
  <2>1. \A u \in Thread : \A e \in asked[u] :
          dev'[e].reg \in {"unregistering", "unregistered"} /\ (dev[e].reg = "unregistered" => dev'[e].reg = "unregistered")
    BY <1>5, Members DEF AskedInv
  <2>2. \A u \in Thread : /\ pc'[u] \in Working <=> pc[u] \in Working
                          /\ pc[u] \notin Working => pc'[u] = pc[u]
    BY <1>1 DEF Working
  <2>3. QED BY <1>1, <2>1, <2>2 DEF AskedInv, Working
<1>10. SlavesInv' /\ RefsExact'
  <2>1. \A u \in Thread : pc[u] = "notify" => pc'[u] = "notify"
    BY <1>1
  <2> HIDE DEF NetInv
  <2>2. QED BY <1>1, <1>2, <1>5, <2>1, SlavesKeep, RefsKeep
<1>11. LeftInv'
  BY <1>1, <1>2, <1>5 DEF LeftInv
<1>12. FlushedInv'
  <2> SUFFICES ASSUME NEW e \in Device \ strays, ver = "2.6.27", dev'[e].reg \in {"unregistered", "released"},
                      \A u \in Thread : ~(pc'[u] = "flush" /\ e = Head(snap[u]))
               PROVE  Receiving(busy, e) = {} /\ Queued(backlog, e) = {}
    BY <1>1 DEF FlushedInv
  <2>1. e # d
    BY <1>1 DEF d
  <2>2. \A u \in Thread : ~(pc[u] = "flush" /\ e = Head(snap[u]))
    BY <1>1
  <2>3. QED BY <1>5, <2>1, <2>2 DEF FlushedInv
<1>13. NoBugOn'
  BY <1>1 DEF NoBugOn
<1>14. QED BY <1>6, <1>7, <1>8, <1>9, <1>10, <1>11, <1>12, <1>13

(* The packets of a device are flushed; those the flush does not see make  *)
(* it a stray.                                                             *)
LEMMA FlushBacklogKeeps ==
  ASSUME NetInv, crashed = "no", NEW t \in Thread, FlushBacklog(t)
  PROVE  NetInv'
<1> USE DEF NetInv
<1> DEFINE d == Head(snap[t])
<1>1. /\ pc[t] = "flush" /\ strays \subseteq strays'
      /\ \A c \in Cpu : backlog'[c] = IF c \in alive THEN Without(backlog[c], d) ELSE backlog[c]
      /\ (\E c \in Cpu : busy[c] = d \/ (c \notin alive /\ d \in ToSet(backlog[c]))) => d \in strays'
      /\ \A u \in Thread : pc'[u] = IF u = t THEN "wait" ELSE pc[u]
      /\ ver' = ver /\ dev' = dev /\ slaves' = slaves /\ bondList' = bondList /\ rtnl' = rtnl /\ mutex' = mutex
      /\ unreg' = unreg /\ creator' = creator /\ asked' = asked /\ todo' = todo /\ snap' = snap /\ busy' = busy
      /\ crashed' = crashed
  BY DEF FlushBacklog, Goto, bondVars, NetTypeOK
<1>2. /\ snap[t] # <<>> /\ ver = "2.6.27"
      /\ backlog' = [c \in Cpu |-> IF c \in alive THEN Without(backlog[c], d) ELSE backlog[c]]
      /\ strays' = strays \cup (IF \E c \in Cpu : busy[c] = d \/ (c \notin alive /\ d \in ToSet(backlog[c])) THEN {d} ELSE {})
  BY <1>1 DEF ListsInv, LocksInv, NetTypeOK, FlushBacklog
<1>3. d \in Device /\ d \in ToSet(snap[t])
  BY <1>2, AtHead
<1> HIDE DEF d
<1>4. /\ backlog' \in Queues
      /\ \A c \in Cpu : ToSet(backlog'[c]) \subseteq ToSet(backlog[c]) /\ (c \in alive => d \notin ToSet(backlog'[c]))
  <2>1. ASSUME NEW c \in Cpu
        PROVE  /\ backlog'[c] \in Seq(Nic) /\ Len(backlog'[c]) <= MaxBacklog + 1
               /\ ToSet(backlog'[c]) \subseteq ToSet(backlog[c]) /\ (c \in alive => d \notin ToSet(backlog'[c]))
    <3>1. backlog[c] \in Seq(Nic) /\ Len(backlog[c]) <= MaxBacklog + 1 /\ Len(backlog[c]) \in Nat
      BY DEF NetTypeOK, Queues
    <3>2. backlog'[c] = IF c \in alive THEN Without(backlog[c], d) ELSE backlog[c]
      BY <1>1
    <3> DEFINE w == Without(backlog[c], d)
    <3>3. /\ w \in Seq(Nic) /\ Len(w) <= Len(backlog[c]) /\ Len(w) \in Nat
          /\ ToSet(w) \subseteq ToSet(backlog[c]) \ {d}
      BY <3>1, WithoutFacts
    <3> HIDE DEF w, NetInv
    <3>4. backlog'[c] = w \/ (backlog'[c] = backlog[c] /\ c \notin alive)
      BY <3>2 DEF w
    <3>5. MaxBacklog \in Nat
      BY NetAssumption
    <3>6. CASE backlog'[c] = w
      BY <3>1, <3>3, <3>5, <3>6
    <3>7. CASE backlog'[c] = backlog[c] /\ c \notin alive
      BY <3>1, <3>7
    <3>8. QED BY <3>4, <3>6, <3>7
  <2>2. backlog' = [c \in Cpu |-> backlog'[c]]
    BY <1>2
  <2> HIDE DEF NetInv
  <2>3. backlog' \in [Cpu -> Seq(Nic)]
    BY <2>1, <2>2
  <2>4. QED BY <2>1, <2>3 DEF Queues
<1>5. NetTypeOK'
  <2>1. /\ pc' \in [Thread -> {"idle", "sysfs", "notify", "put", "unlock", "mutex", "dead"} \cup Working]
        /\ strays' \in SUBSET Device
    BY <1>2, <1>3 DEF FlushBacklog, Goto, NetTypeOK, Working
  <2>2. UNCHANGED <<ver, dev, slaves, byslave, bondList, rtnl, mutex, unreg, creator, asked, todo, snap, polling, busy,
                    alive, crashed>>
    BY DEF FlushBacklog, bondVars
  <2>3. QED BY <1>4, <2>1, <2>2 DEF NetTypeOK
<1>6. /\ \A u \in Thread : /\ pc'[u] \in Working <=> pc[u] \in Working
                           /\ pc'[u] \in {"flush", "wait"} <=> pc[u] \in {"flush", "wait"}
                           /\ pc[u] \notin Working => pc'[u] = pc[u]
      /\ \A u \in Thread : pc[u] = "notify" => pc'[u] = "notify"
  BY <1>1 DEF Working
<1>7. LocksInv'
  BY <1>1, <1>2, <1>6 DEF LocksInv, Working
<1>8. ListsInv'
  <2> HIDE DEF NetInv
  <2>1. QED BY <1>1, <1>6, ListsKeep
<1>9. AskedInv'
  BY <1>1, <1>6 DEF AskedInv, Working
<1>10. SlavesInv' /\ RefsExact'
  <2> HIDE DEF NetInv
  <2>1. QED BY <1>1, <1>2, <1>6, SlavesKeep, RefsKeep
<1>11. LeftInv'
  BY <1>1 DEF LeftInv
<1>12. FlushedInv'
  <2> SUFFICES ASSUME NEW e \in Device, e \notin strays', dev[e].reg \in {"unregistered", "released"},
                      \A u \in Thread : ~(pc'[u] = "flush" /\ e = Head(snap[u]))
               PROVE  Receiving(busy, e) = {} /\ \A c \in Cpu : e \notin ToSet(backlog'[c])
    BY <1>1, <1>4, NoneQueued DEF FlushedInv
  <2>1. CASE e = d
    BY <1>1, <1>4, <2>1 DEF Receiving
  <2>2. CASE e # d
    <3>1. \A u \in Thread : ~(pc[u] = "flush" /\ e = Head(snap[u]))
      BY <1>1, <2>2 DEF d
    <3>2. Receiving(busy, e) = {} /\ Queued(backlog, e) = {}
      BY <1>1, <1>2, <3>1 DEF FlushedInv
    <3>3. \A c \in Cpu : e \notin ToSet(backlog[c])
      BY <3>2, NoneQueued DEF NetTypeOK
    <3>4. QED BY <1>4, <3>2, <3>3
  <2>3. QED BY <2>1, <2>2
<1>13. NoBugOn'
  BY <1>1 DEF NoBugOn
<1>14. QED BY <1>5, <1>7, <1>8, <1>9, <1>10, <1>11, <1>12, <1>13

(* A device that nobody holds any more leaves its list.                    *)
LEMMA WaitEndsKeeps ==
  ASSUME NetInv, crashed = "no", NEW t \in Thread, WaitEnds(t)
  PROVE  NetInv'
<1> USE DEF NetInv
<1> DEFINE d == Head(snap[t])
<1> DEFINE D == IF d = Bond THEN [dev EXCEPT ![Bond].reg = "released"] ELSE dev
<1>1. /\ pc[t] = "wait" /\ dev[d].ref = 0 /\ dev' = D
      /\ \A u \in Thread : snap'[u] = IF u = t THEN Tail(snap[t]) ELSE snap[u]
      /\ \A u \in Thread : pc'[u] = IF u = t THEN "todo" ELSE pc[u]
      /\ ver' = ver /\ slaves' = slaves /\ bondList' = bondList /\ rtnl' = rtnl /\ mutex' = mutex /\ unreg' = unreg
      /\ creator' = creator /\ asked' = asked /\ todo' = todo /\ backlog' = backlog /\ busy' = busy
      /\ strays' = strays /\ crashed' = crashed
  BY DEF WaitEnds, Goto, cpuVars, bondVars, NetTypeOK
<1>2. snap[t] # <<>>
  BY <1>1 DEF ListsInv
<1>3. /\ d \in Device /\ d \in ToSet(snap[t]) /\ d \notin ToSet(todo)
      /\ \A u \in Thread : unreg[u] # d /\ (u # t => d \notin ToSet(snap[u]))
      /\ dev[d].reg = "unregistered"
  BY <1>1, <1>2, AtHead
<1>4. /\ D \in Devices
      /\ \A e \in Device : /\ D[e].reg = (IF e = d /\ d = Bond THEN "released" ELSE dev[e].reg)
                           /\ (D[e].up => dev[e].up) /\ D[e].held = dev[e].held /\ D[e].ref = dev[e].ref
  BY <1>3 DEF NetTypeOK, Devices, NetDevice
<1>5. /\ Tail(snap[t]) \in Seq(Device) /\ ToSet(snap[t]) = {d} \cup ToSet(Tail(snap[t]))
      /\ Distinct(Tail(snap[t])) /\ d \notin ToSet(Tail(snap[t]))
  BY <1>2, Members, TailFacts DEF ListsInv
<1>6. D = dev'
  BY <1>1
<1> HIDE DEF D
<1>7. /\ dev' \in Devices
      /\ \A e \in Device : /\ dev'[e].reg = (IF e = d /\ d = Bond THEN "released" ELSE dev[e].reg)
                           /\ (dev'[e].up => dev[e].up) /\ dev'[e].held = dev[e].held /\ dev'[e].ref = dev[e].ref
  BY <1>4, <1>6
<1>8. /\ pc[t] = "wait" /\ dev[d].ref = 0
      /\ \A u \in Thread : snap'[u] = IF u = t THEN Tail(snap[t]) ELSE snap[u]
      /\ \A u \in Thread : pc'[u] = IF u = t THEN "todo" ELSE pc[u]
      /\ ver' = ver /\ slaves' = slaves /\ bondList' = bondList /\ rtnl' = rtnl /\ mutex' = mutex /\ unreg' = unreg
      /\ creator' = creator /\ asked' = asked /\ todo' = todo /\ backlog' = backlog /\ busy' = busy
      /\ strays' = strays /\ crashed' = crashed
  BY <1>1
<1>9. NetTypeOK'
  <2>1. /\ pc' \in [Thread -> {"idle", "sysfs", "notify", "put", "unlock", "mutex", "dead"} \cup Working]
        /\ snap' \in [Thread -> Seq(Device)]
    BY <1>5 DEF WaitEnds, Goto, NetTypeOK, Working
  <2>2. UNCHANGED <<ver, slaves, byslave, bondList, rtnl, mutex, unreg, creator, asked, todo, cpuVars, strays, crashed>>
    BY DEF WaitEnds, bondVars
  <2>3. QED BY <1>7, <2>1, <2>2 DEF NetTypeOK, cpuVars
<1> HIDE DEF d
<1>10. \A u \in Thread : pc'[u] \in Working <=> pc[u] \in Working
  BY <1>8 DEF Working
<1>11. LocksInv'
  <2>1. \A u \in Thread : unreg[u] # None => dev'[unreg[u]].reg = "unregistering"
    BY <1>3, <1>7, Members DEF LocksInv
  <2>2. QED BY <1>8, <1>10, <2>1 DEF LocksInv, Working
<1>12. ListsInv'
  <2>1. Distinct(todo) /\ \A e \in ToSet(todo) : dev'[e].reg = "unregistering"
    BY <1>3, <1>7, Members DEF ListsInv
  <2>2. ASSUME NEW u \in Thread
        PROVE  /\ Distinct(snap'[u])
               /\ snap'[u] # <<>> => pc'[u] \in Working
               /\ pc'[u] \in {"flush", "wait"} => snap'[u] # <<>>
               /\ \A e \in ToSet(snap'[u]) :
                    dev'[e].reg = IF pc'[u] \in {"flush", "wait"} /\ e = Head(snap'[u]) THEN "unregistered" ELSE "unregistering"
               /\ ToSet(snap'[u]) \cap ToSet(todo) = {}
               /\ \A v \in Thread : /\ v # u => ToSet(snap'[u]) \cap ToSet(snap'[v]) = {}
                                    /\ unreg[v] \notin ToSet(todo) \cup ToSet(snap'[u])
    <3>1. /\ Distinct(snap[u]) /\ ToSet(snap[u]) \subseteq Device
          /\ snap[u] # <<>> => pc[u] \in Working
          /\ pc[u] \in {"flush", "wait"} => snap[u] # <<>>
          /\ \A e \in ToSet(snap[u]) :
                dev[e].reg = IF pc[u] \in {"flush", "wait"} /\ e = Head(snap[u]) THEN "unregistered" ELSE "unregistering"
          /\ ToSet(snap[u]) \cap ToSet(todo) = {}
          /\ \A v \in Thread : /\ v # u => ToSet(snap[u]) \cap ToSet(snap[v]) = {}
                               /\ unreg[v] \notin ToSet(todo) \cup ToSet(snap[u])
      BY Members DEF ListsInv
    <3>2. \A v \in Thread : ToSet(snap'[v]) \subseteq ToSet(snap[v])
      BY <1>5, <1>8
    <3>3. \A v \in Thread : /\ v # u => ToSet(snap'[u]) \cap ToSet(snap'[v]) = {}
                            /\ unreg[v] \notin ToSet(todo) \cup ToSet(snap'[u])
      <4> HIDE DEF NetInv
      <4>1. QED BY <3>1, <3>2
    <3> HIDE DEF NetInv
    <3>4. CASE u = t
      <4>1. snap'[u] = Tail(snap[t]) /\ pc'[u] = "todo"
        BY <1>8, <3>4
      <4>2. \A e \in ToSet(snap'[u]) : e # d /\ e \in ToSet(snap[u])
        BY <1>5, <3>2, <4>1
      <4>3. QED BY <1>5, <1>7, <3>1, <3>3, <3>4, <4>1, <4>2 DEF Working, d
    <3>5. CASE u # t
      BY <1>3, <1>7, <1>8, <3>1, <3>3, <3>5
    <3>6. QED BY <3>4, <3>5
  <2>3. todo' = todo /\ unreg' = unreg
    BY <1>8
  <2> HIDE DEF NetInv
  <2>4. QED BY <2>1, <2>2, <2>3 DEF ListsInv
<1>13. AskedInv'
  <2> SUFFICES ASSUME NEW u \in Thread, NEW e \in asked[u]
      PROVE  /\ dev'[e].reg \in {"unregistering", "unregistered"}
             /\ pc'[u] \in {"notify", "put", "unlock", "mutex"} \cup Working
             /\ pc'[u] \in {"notify", "put"} => unreg[u] = e
             /\ pc'[u] \in {"unlock", "mutex"} =>
                  e \in ToSet(todo) \/ dev'[e].reg = "unregistered" \/ \E v \in Thread : mutex = v /\ e \in ToSet(snap'[v])
             /\ pc'[u] \in Working => e \in ToSet(snap'[u]) \/ dev'[e].reg = "unregistered"
             /\ \A v \in Thread \ {u} : e \notin asked[v] /\ unreg[v] # e /\ (ver = "2.6.27" => e \notin ToSet(snap'[v]))
             /\ ver = "2.6.27" /\ e \in ToSet(todo) => rtnl = u
    BY <1>8 DEF AskedInv
  <2>1. e # Bond /\ e \in Device
    BY Members
  <2>2. /\ dev[e].reg \in {"unregistering", "unregistered"}
        /\ pc[u] \in {"notify", "put", "unlock", "mutex"} \cup Working
        /\ pc[u] \in {"notify", "put"} => unreg[u] = e
        /\ pc[u] \in {"unlock", "mutex"} =>
             e \in ToSet(todo) \/ dev[e].reg = "unregistered" \/ \E v \in Thread : mutex = v /\ e \in ToSet(snap[v])
        /\ pc[u] \in Working => e \in ToSet(snap[u]) \/ dev[e].reg = "unregistered"
        /\ \A v \in Thread \ {u} : e \notin asked[v] /\ unreg[v] # e /\ (ver = "2.6.27" => e \notin ToSet(snap[v]))
        /\ ver = "2.6.27" /\ e \in ToSet(todo) => rtnl = u
    BY DEF AskedInv
  <2>3. dev'[e].reg = dev[e].reg
    BY <1>7, <2>1
  <2>4. \A v \in Thread : /\ e \in ToSet(snap[v]) => e \in ToSet(snap'[v]) \/ dev[e].reg = "unregistered"
                          /\ e \in ToSet(snap'[v]) => e \in ToSet(snap[v])
    <3> HIDE DEF NetInv
    <3>1. QED BY <1>3, <1>5, <1>8
  <2>5. pc[u] \notin Working => pc'[u] = pc[u]
    BY <1>8 DEF Working
  <2> HIDE DEF NetInv
  <2>6. QED BY <1>10, <2>2, <2>3, <2>4, <2>5 DEF Working
<1>14. SlavesInv' /\ RefsExact'
  <2>1. \A u \in Thread : pc[u] = "notify" => pc'[u] = "notify"
    BY <1>8
  <2>2. \A e \in Device : /\ dev'[e].reg = "registered" <=> dev[e].reg = "registered"
                          /\ dev'[e].reg = "uninitialized" => dev[e].reg = "uninitialized"
    BY <1>3, <1>7
  <2> HIDE DEF NetInv
  <2>3. QED BY <1>7, <1>8, <2>1, <2>2, SlavesKeep, RefsKeep
<1>15. LeftInv'
  <2> SUFFICES ASSUME NEW e \in Device \ strays, dev'[e].reg \in {"unregistered", "released"},
                      \A u \in Thread : e \notin ToSet(snap'[u])
               PROVE  dev[e].ref = 0
    BY <1>7, <1>8 DEF LeftInv
  <2>1. CASE e = d
    BY <1>8, <2>1
  <2>2. CASE e # d
    <3>1. \A u \in Thread : e \notin ToSet(snap[u])
      BY <1>5, <1>8, <2>2
    <3>2. QED BY <1>7, <2>2, <3>1 DEF LeftInv
  <2>3. QED BY <2>1, <2>2
<1>16. FlushedInv'
  <2> SUFFICES ASSUME NEW e \in Device \ strays, ver = "2.6.27", dev'[e].reg \in {"unregistered", "released"},
                      \A u \in Thread : ~(pc'[u] = "flush" /\ e = Head(snap'[u]))
               PROVE  Receiving(busy, e) = {} /\ Queued(backlog, e) = {}
    BY <1>8 DEF FlushedInv
  <2>1. dev[e].reg \in {"unregistered", "released"}
    BY <1>3, <1>7
  <2>2. \A u \in Thread : ~(pc[u] = "flush" /\ e = Head(snap[u]))
    BY <1>8
  <2>3. QED BY <2>1, <2>2 DEF FlushedInv
<1>17. NoBugOn'
  BY <1>8 DEF NoBugOn
<1>18. QED BY <1>9, <1>11, <1>12, <1>13, <1>14, <1>15, <1>16, <1>17

(* A thread is done with its list, and the driver frees its devices, which *)
(* nobody else works off.                                                  *)
LEMMA TodoDoneKeeps ==
  ASSUME NetInv, crashed = "no", NEW t \in Thread, TodoDone(t)
  PROVE  NetInv'
<1> USE DEF NetInv
<1>1. /\ pc[t] = "todo" /\ snap[t] = <<>>
      /\ mutex' = (IF mutex = t THEN None ELSE mutex)
      /\ \A e \in Device : dev'[e] = IF e \in asked[t] THEN [dev[e] EXCEPT !.reg = "released"] ELSE dev[e]
      /\ dev' = [d \in Device |-> dev'[d]]
      /\ \A u \in Thread : asked'[u] = IF u = t THEN {} ELSE asked[u]
      /\ \A u \in Thread : pc'[u] = IF u = t THEN (IF creator = t THEN "sysfs" ELSE "idle") ELSE pc[u]
      /\ ver' = ver /\ slaves' = slaves /\ bondList' = bondList /\ rtnl' = rtnl /\ unreg' = unreg
      /\ creator' = creator /\ snap' = snap /\ todo' = todo /\ backlog' = backlog /\ busy' = busy
      /\ strays' = strays
  BY DEF TodoDone, Goto, cpuVars, bondVars, NetTypeOK
<1>2. ToSet(snap[t]) = {} /\ \A u \in Thread : u # None
  BY <1>1, Members, EmptyFacts
<1>3. ASSUME NEW e \in asked[t]
      PROVE  e \in Nic /\ e \in Device /\ e # Bond /\ dev[e].reg = "unregistered" /\ \A u \in Thread : e \notin ToSet(snap[u])
  <2>1. e \in Nic /\ e \in Device /\ e # Bond
    BY Members
  <2>2. dev[e].reg = "unregistered"
    BY <1>1, <1>2 DEF AskedInv, Working
  <2>3. CASE ver = "2.6.27"
    BY <1>2, <2>1, <2>2, <2>3 DEF AskedInv
  <2>4. CASE ver = "2.6.24"
    <3>1. mutex = t
      BY <1>1, <2>4 DEF LocksInv, Working
    <3>2. \A u \in Thread : u # t => snap[u] = <<>>
      BY <2>4, <3>1 DEF LocksInv, ListsInv
    <3>3. QED BY <1>2, <2>1, <2>2, <3>2, EmptyFacts
  <2>5. QED BY <2>3, <2>4 DEF NetTypeOK
<1>4. /\ dev' \in Devices
      /\ \A e \in Device : /\ dev'[e].reg = (IF e \in asked[t] THEN "released" ELSE dev[e].reg)
                           /\ (dev'[e].up => dev[e].up) /\ dev'[e].held = dev[e].held /\ dev'[e].ref = dev[e].ref
  <2>1. ASSUME NEW e \in Device
        PROVE  /\ dev'[e] \in NetDevice
               /\ dev'[e].reg = (IF e \in asked[t] THEN "released" ELSE dev[e].reg)
               /\ (dev'[e].up => dev[e].up) /\ dev'[e].held = dev[e].held /\ dev'[e].ref = dev[e].ref
    <3>1. dev[e] \in NetDevice
      BY DEF NetTypeOK, Devices
    <3>2. dev'[e] = IF e \in asked[t] THEN [dev[e] EXCEPT !.reg = "released"] ELSE dev[e]
      BY <1>1
    <3> DEFINE x == dev[e]
    <3> HIDE DEF x, NetInv
    <3>3. x \in NetDevice /\ dev'[e] = IF e \in asked[t] THEN [x EXCEPT !.reg = "released"] ELSE x
      BY <3>1, <3>2 DEF x
    <3>4. /\ dev'[e] \in NetDevice
          /\ dev'[e].reg = (IF e \in asked[t] THEN "released" ELSE x.reg)
          /\ (dev'[e].up => x.up) /\ dev'[e].held = x.held /\ dev'[e].ref = x.ref
      BY <3>3 DEF NetDevice
    <3>5. QED BY <3>4 DEF x
  <2>2. dev' = [e \in Device |-> dev'[e]]
    BY <1>1
  <2> HIDE DEF NetInv
  <2>3. QED BY <2>1, <2>2 DEF Devices
<1>5. crashed' = crashed
  BY <1>3 DEF TodoDone
<1>6. \A e \in Device : dev[e].reg # "unregistered" => dev'[e].reg = dev[e].reg
  BY <1>3, <1>4
<1>7. NetTypeOK'
  <2>1. /\ pc' \in [Thread -> {"idle", "sysfs", "notify", "put", "unlock", "mutex", "dead"} \cup Working]
        /\ asked' \in [Thread -> SUBSET Nic] /\ mutex' \in Thread \cup {None}
    BY DEF TodoDone, Goto, NetTypeOK
  <2>2. UNCHANGED <<ver, slaves, byslave, bondList, rtnl, unreg, creator, snap, todo, cpuVars, strays>>
    BY DEF TodoDone, bondVars
  <2>3. QED BY <1>4, <1>5, <2>1, <2>2 DEF NetTypeOK, cpuVars
<1>8. LocksInv'
  <2>1. \A u \in Thread : unreg[u] # None => dev'[unreg[u]].reg = "unregistering"
    BY <1>6, Members DEF LocksInv
  <2>2. \A u \in Thread : mutex' = u <=> (mutex = u /\ u # t)
    BY <1>1, <1>2
  <2>3. QED BY <1>1, <1>2, <1>5, <2>1, <2>2 DEF LocksInv, Working
<1>9. ListsInv'
  <2>1. \A e \in ToSet(todo) : dev'[e].reg = dev[e].reg
    BY <1>6, Members DEF ListsInv
  <2>2. \A u \in Thread : \A e \in ToSet(snap[u]) : dev'[e].reg = dev[e].reg
    BY <1>3, <1>4, Members
  <2>3. \A u \in Thread : /\ pc[u] \in Working /\ snap[u] # <<>> => pc'[u] \in Working
                          /\ pc'[u] \in {"flush", "wait"} <=> pc[u] \in {"flush", "wait"}
    BY <1>1
  <2>4. todo' = todo /\ snap' = snap /\ unreg' = unreg
    BY <1>1
  <2> HIDE DEF NetInv
  <2>5. QED BY <2>1, <2>2, <2>3, <2>4, ListsKeep
<1>10. AskedInv'
  <2> SUFFICES ASSUME NEW u \in Thread, NEW e \in asked'[u]
      PROVE  /\ dev'[e].reg \in {"unregistering", "unregistered"}
             /\ pc'[u] \in {"notify", "put", "unlock", "mutex"} \cup Working
             /\ pc'[u] \in {"notify", "put"} => unreg[u] = e
             /\ pc'[u] \in {"unlock", "mutex"} =>
                  e \in ToSet(todo) \/ dev'[e].reg = "unregistered" \/ \E v \in Thread : mutex' = v /\ e \in ToSet(snap[v])
             /\ pc'[u] \in Working => e \in ToSet(snap[u]) \/ dev'[e].reg = "unregistered"
             /\ \A v \in Thread \ {u} : e \notin asked'[v] /\ unreg[v] # e /\ (ver = "2.6.27" => e \notin ToSet(snap[v]))
             /\ ver = "2.6.27" /\ e \in ToSet(todo) => rtnl = u
    <3>1. ver' = ver /\ rtnl' = rtnl /\ todo' = todo /\ snap' = snap /\ unreg' = unreg
      BY <1>1
    <3> HIDE DEF NetInv
    <3>2. QED BY <3>1 DEF AskedInv
  <2>1. u # t /\ e \in asked[u] /\ e \in Device
    BY <1>1, Members
  <2>2. /\ dev[e].reg \in {"unregistering", "unregistered"}
        /\ pc[u] \in {"notify", "put", "unlock", "mutex"} \cup Working
        /\ pc[u] \in {"notify", "put"} => unreg[u] = e
        /\ pc[u] \in {"unlock", "mutex"} =>
             e \in ToSet(todo) \/ dev[e].reg = "unregistered" \/ \E v \in Thread : mutex = v /\ e \in ToSet(snap[v])
        /\ pc[u] \in Working => e \in ToSet(snap[u]) \/ dev[e].reg = "unregistered"
        /\ \A v \in Thread \ {u} : e \notin asked[v] /\ unreg[v] # e /\ (ver = "2.6.27" => e \notin ToSet(snap[v]))
        /\ ver = "2.6.27" /\ e \in ToSet(todo) => rtnl = u
    BY <2>1 DEF AskedInv
  <2>3. dev'[e].reg = dev[e].reg /\ pc'[u] = pc[u] /\ \A v \in Thread : asked'[v] \subseteq asked[v]
    BY <1>1, <1>4, <2>1, <2>2
  <2>4. \A v \in Thread : mutex = v /\ e \in ToSet(snap[v]) => mutex' = v
    BY <1>1, <1>2
  <2> HIDE DEF NetInv
  <2>5. QED BY <2>2, <2>3, <2>4
<1>11. SlavesInv' /\ RefsExact'
  <2>1. \A u \in Thread : pc[u] = "notify" => pc'[u] = "notify"
    BY <1>1
  <2>2. \A e \in Device : /\ dev'[e].reg = "registered" <=> dev[e].reg = "registered"
                          /\ dev'[e].reg = "uninitialized" => dev[e].reg = "uninitialized"
    BY <1>3, <1>4
  <2>3. ver' = ver /\ slaves' = slaves /\ bondList' = bondList /\ unreg' = unreg /\ creator' = creator
        /\ backlog' = backlog /\ busy' = busy /\ strays' = strays
    BY <1>1
  <2> HIDE DEF NetInv
  <2>4. QED BY <1>4, <2>1, <2>2, <2>3, SlavesKeep, RefsKeep
<1>12. LeftInv'
  <2> SUFFICES ASSUME NEW e \in Device \ strays, dev'[e].reg \in {"unregistered", "released"},
                      \A u \in Thread : e \notin ToSet(snap[u])
               PROVE  dev[e].ref = 0
    <3>1. strays' = strays /\ snap' = snap
      BY <1>1
    <3> HIDE DEF NetInv
    <3>2. QED BY <1>4, <3>1 DEF LeftInv
  <2>1. QED BY <1>3, <1>4 DEF LeftInv
<1>13. FlushedInv'
  <2> SUFFICES ASSUME NEW e \in Device \ strays, ver = "2.6.27", dev'[e].reg \in {"unregistered", "released"},
                      \A u \in Thread : ~(pc'[u] = "flush" /\ e = Head(snap[u]))
               PROVE  Receiving(busy, e) = {} /\ Queued(backlog, e) = {}
    <3>1. strays' = strays /\ snap' = snap /\ ver' = ver /\ busy' = busy /\ backlog' = backlog
      BY <1>1
    <3> HIDE DEF NetInv
    <3>2. QED BY <3>1 DEF FlushedInv
  <2>1. dev[e].reg \in {"unregistered", "released"}
    BY <1>3, <1>4
  <2>2. \A u \in Thread : ~(pc[u] = "flush" /\ e = Head(snap[u]))
    BY <1>1
  <2>3. QED BY <2>1, <2>2 DEF FlushedInv
<1>14. NoBugOn'
  <2>1. \A u \in Thread : pc[u] = "dead" => pc'[u] = "dead"
    BY <1>1
  <2>2. QED BY <1>1, <1>5, <2>1 DEF NoBugOn
<1>15. QED BY <1>7, <1>8, <1>9, <1>10, <1>11, <1>12, <1>13, <1>14

-------------------------------------------------------------------------------
(***************************************************************************)
(* The specification.                                                      *)
(***************************************************************************)

(* Nothing holds at the start that would have to be let go.                *)
LEMMA InitiallyNet == NetInit => NetInv
<1> SUFFICES ASSUME NetInit PROVE NetInv
  OBVIOUS
<1> USE DEF NetInit
<1>1. /\ Bond \in Device /\ Bond \notin Nic /\ None \notin Device /\ None \notin Thread /\ Nic \subseteq Device
      /\ \A e \in Device : e = Bond \/ e \in Nic
      /\ MaxBacklog \in Nat
  BY NetAssumption DEF Device
<1>2. /\ ToSet(<<>>) = {} /\ Distinct(<<>>) /\ <<>> \in Seq(Nic) /\ <<>> \in Seq(Device) /\ Len(<<>>) = 0
  BY EmptyFacts
<1>3. dev \in Devices
  BY DEF Devices, NetDevice
<1>4. backlog \in Queues
  BY <1>1, <1>2 DEF Queues
<1>5. NetTypeOK
  BY <1>1, <1>2, <1>3, <1>4, FS_EmptySet DEF NetTypeOK
<1>6. \A e \in Device : dev[e].reg = IF e = Bond THEN "uninitialized" ELSE "registered"
  OBVIOUS
<1>7. LocksInv
  BY <1>1 DEF LocksInv, Working
<1>8. ListsInv
  BY <1>1, <1>2 DEF ListsInv
<1>9. AskedInv
  BY DEF AskedInv
<1>10. SlavesInv
  BY <1>1 DEF SlavesInv, Listed
<1>11. \A e \in Device : Queued(backlog, e) = {} /\ Receiving(busy, e) = {}
  BY <1>1, <1>2, <1>4, NoneQueued DEF Receiving
<1>12. RefsExact
  <2> SUFFICES ASSUME NEW e \in Device PROVE dev[e].ref = Holders(e)
    BY DEF RefsExact
  <2>1. Cardinality({}) = 0
    BY FS_EmptySet
  <2>2. Own(e) <=> e # Bond
    BY <1>1 DEF Own
  <2>3. dev[e].held = 0 /\ dev[e].ref = (IF e = Bond THEN 0 ELSE 1) /\ slaves = {}
    OBVIOUS
  <2>4. Holders(e) = 0 + (IF Own(e) THEN 1 ELSE 0) + 0 + 0
    <3>1. Cardinality(Receiving(busy, e)) = 0 /\ Cardinality(Queued(backlog, e)) = 0 /\ Cardinality(slaves) = 0
      BY <1>11, <2>1, <2>3
    <3> HIDE DEF NetInit
    <3>2. QED BY <2>3, <3>1 DEF Holders
  <2> HIDE DEF NetInit
  <2>5. QED BY <2>2, <2>3, <2>4
<1>13. LeftInv
  BY <1>6 DEF LeftInv
<1>14. FlushedInv
  BY <1>11 DEF FlushedInv
<1>15. NoBugOn
  BY DEF NoBugOn
<1>16. QED BY <1>5, <1>7, <1>8, <1>9, <1>10, <1>12, <1>13, <1>14, <1>15 DEF NetInv

(* Every step of every thread and processor keeps it.                      *)
LEMMA StepNet ==
  ASSUME NetInv, [NetNext]_netVars
  PROVE  NetInv'
<1>1. CASE UNCHANGED netVars
  <2>1. UNCHANGED <<ver, dev, slaves, byslave, bondList, rtnl, mutex, pc, unreg, creator, asked, todo, snap, backlog,
                    polling, busy, alive, strays, crashed>>
    BY <1>1 DEF netVars, bondVars, threadVars, cpuVars
  <2>2. NetTypeOK' /\ LocksInv' /\ NoBugOn'
    BY <2>1 DEF NetInv, NetTypeOK, LocksInv, NoBugOn, Listed
  <2>3. ListsInv' /\ AskedInv'
    <3>1. ListsInv /\ AskedInv
      BY DEF NetInv
    <3>2. ListsInv'
      BY <2>1, <3>1 DEF ListsInv
    <3>3. AskedInv'
      BY <2>1, <3>1 DEF AskedInv
    <3>4. QED BY <3>2, <3>3
  <2>4. SlavesInv' /\ RefsExact'
    BY <2>1 DEF NetInv, SlavesInv, Told, Listed, RefsExact, Holders, Own
  <2>5. LeftInv' /\ FlushedInv'
    BY <2>1 DEF NetInv, LeftInv, FlushedInv
  <2>6. QED BY <2>2, <2>3, <2>4, <2>5 DEF NetInv
<1>2. ASSUME crashed = "no", NEW t \in Thread, Operation(t) PROVE NetInv'
  BY <1>2, CreateBondKeeps, DestroyBondKeeps, SysfsFails27Keeps, SysfsFails24Keeps, UnregisterNicKeeps,
     EnslaveNicKeeps, OpenFails27Keeps, OpenFails24Keeps, ReleaseNicKeeps, OpenOrCloseKeeps DEF Operation
<1>3. ASSUME crashed = "no", NEW t \in Thread, Continue(t) PROVE NetInv'
  BY <1>3, NotifyKeeps, PutLastKeeps, UnlockRtnl27Keeps, UnlockRtnl24Keeps, SysfsDoneKeeps, TodoNextKeeps,
     FlushBacklogKeeps, WaitEndsKeeps, TodoDoneKeeps DEF Continue
<1>4. ASSUME crashed = "no", NEW c \in Cpu, Softirq(c) PROVE NetInv'
  BY <1>4, ProcessBacklogKeeps, NetifReceiveKeeps, DevCpuCallbackKeeps DEF Softirq
<1>5. ASSUME crashed = "no", NEW c \in Irq
      PROVE  /\ CpuDies(c) => NetInv'
             /\ \A d \in Talker : NetifRx(c, d) => NetInv'
  BY <1>5, NetAssumption, CpuDiesKeeps, NetifRxKeeps
<1>6. QED BY <1>1, <1>2, <1>3, <1>4, <1>5, RunTodo24Keeps, RebroadcastKeeps DEF NetNext

(* Whoever takes rtnl finds the bond and all its slaves registered.        *)
LEMMA InvListed == NetInv => SlavesListed
  BY NobodyNotified DEF SlavesListed

(* What is released is past its list, so it is held by nobody; what still  *)
(* has a slave, a master or a packet is held by it or, in 2.6.27, flushed. *)
LEMMA InvDangling == NetInv => NoDangling
<1> SUFFICES ASSUME NetInv, NEW d \in Device \ strays, dev[d].reg = "released"
             PROVE  /\ dev[d].ref = 0
                    /\ d \notin slaves /\ (d = Bond => slaves = {} /\ ~bondList)
                    /\ \A c \in Cpu : busy[c] # d /\ d \notin ToSet(backlog[c])
  BY DEF NoDangling
<1>1. ASSUME NEW t \in Thread PROVE d \notin ToSet(snap[t]) /\ unreg[t] # d
  <2>1. unreg[t] # d
    BY Members DEF NetInv, LocksInv
  <2>2. \A e \in ToSet(snap[t]) : dev[e].reg \in {"unregistered", "unregistering"}
    BY DEF NetInv, ListsInv
  <2>3. QED BY <2>1, <2>2
<1>2. dev[d].ref = 0
  BY <1>1 DEF NetInv, LeftInv
<1>3. d \notin slaves /\ (d = Bond => slaves = {} /\ ~bondList)
  BY <1>1 DEF NetInv, SlavesInv, Told, Listed
<1>4. Receiving(busy, d) = {} /\ Queued(backlog, d) = {}
  <2>1. CASE ver = "2.6.27"
    <3>1. \A t \in Thread : pc[t] = "flush" => snap[t] # <<>> /\ snap[t] \in Seq(Device)
      BY Members DEF NetInv, ListsInv
    <3>2. \A t \in Thread : ~(pc[t] = "flush" /\ d = Head(snap[t]))
      BY <1>1, <3>1, ListFacts
    <3>3. QED BY <2>1, <3>2 DEF NetInv, FlushedInv
  <2>2. CASE ver = "2.6.24"
    <3> DEFINE r == Cardinality(Receiving(busy, d))
    <3> DEFINE q == Cardinality(Queued(backlog, d))
    <3> DEFINE s == IF d = Bond THEN Cardinality(slaves) ELSE 0
    <3> DEFINE h == dev[d].held
    <3> DEFINE o == IF Own(d) THEN 1 ELSE 0
    <3>1. r \in Nat /\ q \in Nat /\ s \in Nat /\ h \in Nat /\ o \in Nat
      <4>1. Cardinality(slaves) \in Nat /\ dev[d].held \in {0, 1}
        BY FS_CardinalityType, DeviceFacts DEF NetInv, NetTypeOK
      <4>2. QED BY <4>1, QueuedFacts, ReceivingFacts
    <3>2. h + o + s + (r + q) = 0
      BY <1>2, <2>2 DEF NetInv, RefsExact, Holders
    <3>3. r = 0 /\ q = 0
      <4> HIDE DEF r, q, s, h, o
      <4>1. QED BY <3>1, <3>2
    <3>4. QED BY <3>3, NoPackets
  <2>3. QED BY <2>1, <2>2 DEF NetInv, NetTypeOK
<1>5. \A c \in Cpu : busy[c] # d
  BY <1>4 DEF Receiving
<1>6. \A c \in Cpu : d \notin ToSet(backlog[c])
  BY <1>4, NoneQueued DEF NetInv, NetTypeOK
<1>7. QED BY <1>2, <1>3, <1>5, <1>6

(* The inductive invariant holds in every state: the type invariant, the   *)
(* locks, the lists, the slaves, the references and the flushed packets.   *)
THEOREM NetInvariant == NetSpec => []NetInv
<1>1. NetInv /\ [NetNext]_netVars => NetInv'
  BY StepNet
<1>2. QED BY <1>1, InitiallyNet, PTL DEF NetSpec

(* Every reference to a device is counted, and counted once (dev_hold,     *)
(* dev_put), in both kernels.                                              *)
THEOREM References == NetSpec => []RefsExact
<1>1. NetInv => RefsExact
  BY DEF NetInv
<1>2. QED BY <1>1, NetInvariant, PTL

(* No device that is freed is still in use (netdev_run_todo, free_netdev). *)
THEOREM Freeing == NetSpec => []NoDangling
<1>1. QED BY InvDangling, NetInvariant, PTL

(* Between two holders of rtnl the bond and its slaves are registered      *)
(* (bond_netdev_event).                                                    *)
THEOREM BetweenHolders == NetSpec => []SlavesListed
<1>1. QED BY InvListed, NetInvariant, PTL

(* The BUG_ONs of dev.c are not hit, but for the two that bond_create hits *)
(* when its sysfs entry fails: in 2.6.24 always, in 2.6.27 if the bond has *)
(* been destroyed since rtnl_unlock.  Nothing is assumed of the threads    *)
(* that enslave to or destroy a bond that is being made.                   *)
THEOREM BugOns == NetSpec => []NoBugOn
<1>1. NetInv => NoBugOn
  BY DEF NetInv
<1>2. QED BY <1>1, NetInvariant, PTL

-------------------------------------------------------------------------------
(***************************************************************************)
(* The backlog, whatever the threads do.                                   *)
(***************************************************************************)
PolledInv ==
  /\ backlog \in [Cpu -> {backlog[c] : c \in Cpu}] /\ polling \in [Cpu -> BOOLEAN] /\ alive \subseteq Cpu
  /\ BacklogPolled

(* A flush leaves an empty queue empty.                                    *)
LEMMA NothingLeft ==
  ASSUME NEW d
  PROVE  Without(<<>>, d) = <<>>
<1>1. <<>> \in Seq({})
  BY EmptyFacts
<1>2. QED BY <1>1, WithoutFacts

(* A processor with packets is polled: who queues the first one starts the *)
(* poll, and who ends the poll has found the queue empty.                  *)
LEMMA StepPolled ==
  ASSUME PolledInv, [NetNext]_netVars
  PROVE  PolledInv'
<1> USE DEF PolledInv
<1>1. CASE UNCHANGED cpuVars
  BY <1>1 DEF cpuVars, BacklogPolled
<1>2. ASSUME NEW t \in Thread, FlushBacklog(t) PROVE PolledInv'
  <2>1. /\ polling' = polling /\ alive' = alive
        /\ \A c \in Cpu : backlog[c] = <<>> => backlog'[c] = <<>>
        /\ backlog' = [c \in Cpu |-> backlog'[c]]
    BY <1>2, NothingLeft DEF FlushBacklog
  <2>2. BacklogPolled'
    BY <2>1 DEF BacklogPolled
  <2>3. backlog' \in [Cpu -> {backlog'[c] : c \in Cpu}]
    BY <2>1
  <2>4. QED BY <2>1, <2>2, <2>3
<1>3. ASSUME NEW c \in Cpu, NEW d \in Nic, NetifRx(c, d) PROVE PolledInv'
  <2>1. /\ alive' = alive
        /\ \A x \in Cpu : x # c => backlog'[x] = backlog[x] /\ polling'[x] = polling[x]
        /\ polling'[c] = (polling[c] \/ backlog[c] = <<>>)
        /\ polling' = [polling EXCEPT ![c] = polling[c] \/ backlog[c] = <<>>]
        /\ backlog' = [x \in Cpu |-> backlog'[x]]
    BY <1>3 DEF NetifRx
  <2>2. polling[c] \/ backlog[c] = <<>>
    BY <1>3 DEF NetifRx, BacklogPolled
  <2>3. polling'[c]
    BY <2>1, <2>2
  <2>4. BacklogPolled'
    BY <2>1, <2>3 DEF BacklogPolled
  <2>5. backlog' \in [Cpu -> {backlog'[x] : x \in Cpu}] /\ polling' \in [Cpu -> BOOLEAN]
    BY <2>1
  <2>6. QED BY <2>1, <2>4, <2>5
<1>4. ASSUME NEW c \in Cpu, ProcessBacklog(c) PROVE PolledInv'
  <2>1. CASE backlog[c] = <<>>
    <3>1. /\ backlog' = backlog /\ alive' = alive /\ polling' = [polling EXCEPT ![c] = FALSE]
      BY <1>4, <2>1 DEF ProcessBacklog
    <3>2. QED BY <2>1, <3>1 DEF BacklogPolled
  <2>2. CASE backlog[c] # <<>>
    <3>1. /\ polling' = polling /\ alive' = alive /\ polling[c]
          /\ \A x \in Cpu : x # c => backlog'[x] = backlog[x]
          /\ backlog' = [x \in Cpu |-> backlog'[x]]
      BY <1>4, <2>2 DEF ProcessBacklog
    <3>2. BacklogPolled'
      BY <3>1 DEF BacklogPolled
    <3>3. backlog' \in [Cpu -> {backlog'[x] : x \in Cpu}]
      BY <3>1
    <3>4. QED BY <3>1, <3>2, <3>3
  <2>3. QED BY <2>1, <2>2
<1>5. ASSUME NEW c \in Cpu, CpuDies(c) PROVE PolledInv'
  BY <1>5 DEF CpuDies, BacklogPolled
<1>6. ASSUME NEW c \in Cpu, NEW to \in Cpu, DevCpuCallback(c, to) PROVE PolledInv'
  <2> DEFINE fits == Len(backlog[to]) <= MaxBacklog
  <2>1. /\ alive' = alive /\ c \notin alive /\ to \in alive
        /\ \A x \in Cpu : x # c /\ x # to => backlog'[x] = backlog[x]
        /\ ~fits => backlog'[to] = backlog[to]
        /\ polling' = [polling EXCEPT ![to] = polling[to] \/ (fits /\ backlog[to] = <<>>)]
        /\ backlog' = [x \in Cpu |-> backlog'[x]]
    BY <1>6 DEF DevCpuCallback
  <2> HIDE DEF fits
  <2>2. /\ \A x \in Cpu : x # to => polling'[x] = polling[x]
        /\ polling'[to] = (polling[to] \/ (fits /\ backlog[to] = <<>>))
        /\ polling' \in [Cpu -> BOOLEAN]
    BY <2>1
  <2>3. backlog'[to] # <<>> => polling'[to]
    BY <2>1, <2>2 DEF BacklogPolled
  <2>4. \A x \in alive : x # to => (backlog'[x] # <<>> => polling'[x])
    BY <2>1, <2>2 DEF BacklogPolled
  <2>5. backlog' \in [Cpu -> {backlog'[x] : x \in Cpu}]
    BY <2>1
  <2>6. QED BY <2>1, <2>2, <2>3, <2>4, <2>5 DEF BacklogPolled
<1>7. ASSUME NEW c \in Cpu, NetifReceive(c) PROVE PolledInv'
  BY <1>7 DEF NetifReceive, BacklogPolled
<1>8. ASSUME NEW t \in Thread, Operation(t) \/ RunTodo24(t) \/ Rebroadcast(t) PROVE UNCHANGED cpuVars
  BY <1>8 DEF Operation, CreateBond, LockForShort, DestroyBond, Unregister, SysfsFails27, SysfsFails24, UnregisterNic,
              BeginEnslave, EnslaveNic, OpenFails27, OpenFails24, ReleaseNic, OpenOrClose, RunTodo24, Rebroadcast
<1>9. ASSUME NEW t \in Thread, Continue(t) PROVE UNCHANGED cpuVars \/ FlushBacklog(t)
  BY <1>9 DEF Continue, Notify, PutLast, UnlockRtnl27, UnlockRtnl24, SysfsDone, TodoNext, WaitEnds, TodoDone
<1>10. UNCHANGED netVars => UNCHANGED cpuVars
  BY DEF netVars
<1> HIDE DEF PolledInv
<1>11. QED BY <1>1, <1>2, <1>3, <1>4, <1>5, <1>6, <1>7, <1>8, <1>9, <1>10, NetAssumption DEF NetNext, Softirq

(* No packet is left in a queue that nobody polls (netif_rx,               *)
(* process_backlog, flush_backlog, dev_cpu_callback).                      *)
THEOREM Polling == NetSpec => []BacklogPolled
<1>1. NetInit => PolledInv
  BY DEF NetInit, PolledInv, BacklogPolled
<1>2. PolledInv /\ [NetNext]_netVars => PolledInv'
  BY StepPolled
<1>3. PolledInv => BacklogPolled
  BY DEF PolledInv
<1>4. QED BY <1>1, <1>2, <1>3, PTL DEF NetSpec
===============================================================================
