------------------------------ MODULE SlaveList ------------------------------
(***************************************************************************)
(* The circular list of slaves of a bonding device and the searches the    *)
(* driver makes on it (27/bonding.h and 27/bond_main.c).  A list is the    *)
(* sequence of slaves in the order in which the "next" pointers visit them *)
(* starting at bond->first_slave; a slave is named by its network device.  *)
(***************************************************************************)
EXTENDS Integers, Sequences, SequencesExt

CONSTANTS Dev,      \* network devices that can be enslaved
          NoSlave   \* the NULL slave pointer

ASSUME NoSlaveAssumption == NoSlave \notin Dev

(***************************************************************************)
(* bond_for_each_slave_from: one turn of the circle that starts at s.      *)
(***************************************************************************)
TurnFrom(list, s) ==
  LET i == CHOOSE i \in 1..Len(list) : list[i] = s
  IN  [k \in 1..Len(list) |-> list[((i + k - 2) % Len(list)) + 1]]

(***************************************************************************)
(* The first slave the iteration meets for which Test holds, or NULL: the  *)
(* loops that end in a break or a return at the first match.               *)
(***************************************************************************)
FirstSuch(seq, Test(_)) ==
  LET IsFirst(k) == Test(seq[k]) /\ \A j \in 1..(k-1) : ~Test(seq[j])
  IN  IF \E k \in 1..Len(seq) : IsFirst(k)
        THEN seq[CHOOSE k \in 1..Len(seq) : IsFirst(k)]
        ELSE NoSlave

(***************************************************************************)
(* bond_get_slave_by_dev.  When no slave matches the loop ends because its *)
(* counter reaches slave_cnt, and the cursor has then gone once round the  *)
(* circle: the value returned is the first slave, not NULL.                *)
(***************************************************************************)
SlaveByDev(list, d) ==
  IF d \in ToSet(list) THEN d
  ELSE IF list = <<>> THEN NoSlave ELSE list[1]

(***************************************************************************)
(* bond_attach_slave and bond_detach_slave.                                *)
(***************************************************************************)
Attach(list, s) == Append(list, s)

Detach(list, s) == RemoveAt(list, CHOOSE i \in 1..Len(list) : list[i] = s)

(* No slave is on the list twice.                                          *)
Once(list) == \A i, j \in 1..Len(list) : list[i] = list[j] => i = j

(***************************************************************************)
(* The first slave that is not the active one: what MAKE switches to and   *)
(* what GETPASSIVE reports.                                                *)
(***************************************************************************)
Passive(list, active) ==
  LET IsPassive(s) == s # active IN FirstSuch(list, IsPassive)
==============================================================================
