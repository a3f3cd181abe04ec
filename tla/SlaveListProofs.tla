--------------------------- MODULE SlaveListProofs ---------------------------
(***************************************************************************)
(* What the operations on the slave list do to its members.                *)
(***************************************************************************)
EXTENDS SlaveList, SequenceTheorems, FiniteSetTheorems, TLAPS

(* A sequence maps the numbers up to its length to its members.            *)
LEMMA SeqFacts ==
  ASSUME NEW S, NEW seq \in Seq(S)
  PROVE  /\ Len(seq) \in Nat /\ DOMAIN seq = 1..Len(seq)
         /\ \A k \in 1..Len(seq) : seq[k] \in S
         /\ ToSet(seq) = {seq[k] : k \in 1..Len(seq)}
  BY DEF ToSet

(* Attaching adds the new slave, and it alone, at the end.                 *)
LEMMA AttachMembers ==
  ASSUME NEW list \in Seq(Dev), NEW d \in Dev, d \notin ToSet(list), Once(list)
  PROVE  /\ Attach(list, d) \in Seq(Dev)
         /\ ToSet(Attach(list, d)) = ToSet(list) \cup {d}
         /\ Once(Attach(list, d))
  BY DEF Attach, ToSet, Once

(* Detaching removes the slave, and it alone.                              *)
LEMMA DetachMembers ==
  ASSUME NEW list \in Seq(Dev), NEW d \in ToSet(list), Once(list)
  PROVE  /\ Detach(list, d) \in Seq(Dev) /\ Len(Detach(list, d)) = Len(list) - 1
         /\ ToSet(Detach(list, d)) = ToSet(list) \ {d}
         /\ Once(Detach(list, d))
<1> DEFINE i == CHOOSE k \in 1..Len(list) : list[k] = d
           rest == Detach(list, d)
<1>0. Len(list) \in Nat /\ \A k \in 1..Len(list) : list[k] \in Dev
  BY SeqFacts
<1>1. i \in 1..Len(list) /\ list[i] = d
  BY SeqFacts
<1>2. rest = SubSeq(list, 1, i - 1) \o SubSeq(list, i + 1, Len(list))
  BY DEF Detach, RemoveAt
<1> HIDE DEF i, rest
<1>3. /\ rest \in Seq(Dev)
      /\ Len(rest) = Len(list) - 1
      /\ \A k \in 1..Len(rest) : rest[k] = IF k < i THEN list[k] ELSE list[k + 1]
  <2> DEFINE front == SubSeq(list, 1, i - 1)
             back  == SubSeq(list, i + 1, Len(list))
  <2>1. /\ front \in Seq(Dev) /\ Len(front) = i - 1
        /\ \A k \in 1..(i - 1) : front[k] = list[k]
    BY <1>0, <1>1
  <2>2. /\ back \in Seq(Dev) /\ Len(back) = Len(list) - i
        /\ \A k \in 1..(Len(list) - i) : back[k] = list[i + k]
    BY <1>0, <1>1
  <2> HIDE DEF front, back
  <2>3. /\ front \o back \in Seq(Dev) /\ Len(front \o back) = Len(list) - 1
        /\ \A k \in 1..(Len(list) - 1) :
             (front \o back)[k] = IF k <= i - 1 THEN front[k] ELSE back[k - (i - 1)]
    <3>1. /\ front \o back \in Seq(Dev) /\ Len(front \o back) = Len(front) + Len(back)
          /\ \A k \in 1..(Len(front) + Len(back)) :
               (front \o back)[k] = IF k <= Len(front) THEN front[k] ELSE back[k - Len(front)]
      BY <2>1, <2>2, ConcatProperties
    <3>2. Len(front) + Len(back) = Len(list) - 1
      BY <1>0, <1>1, <2>1, <2>2
    <3>3. QED BY <2>1, <3>1, <3>2
  <2>4. rest = front \o back
    BY <1>2 DEF front, back
  <2>5. ASSUME NEW k \in 1..(Len(list) - 1)
        PROVE  rest[k] = IF k < i THEN list[k] ELSE list[k + 1]
    <3>1. CASE k < i
      BY <3>1, <1>0, <1>1, <2>1, <2>3, <2>4
    <3>2. CASE k >= i
      <4>1. rest[k] = back[k - (i - 1)] /\ k - (i - 1) \in 1..(Len(list) - i)
        BY <3>2, <1>0, <1>1, <2>3, <2>4
      <4>2. back[k - (i - 1)] = list[i + (k - (i - 1))] /\ i + (k - (i - 1)) = k + 1
        BY <4>1, <1>0, <1>1, <2>2
      <4>3. QED BY <3>2, <4>1, <4>2, <1>0, <1>1
    <3>3. QED BY <3>1, <3>2, <1>0, <1>1
  <2>6. QED BY <2>3, <2>4, <2>5
<1>4. Once(rest)
  BY <1>0, <1>1, <1>3 DEF Once
<1>5. ToSet(rest) \subseteq ToSet(list) \ {d}
  <2>1. ASSUME NEW k \in 1..Len(rest) PROVE rest[k] \in ToSet(list) \ {d}
    <3>1. CASE k < i
      <4>1. rest[k] = list[k] /\ k \in 1..Len(list) /\ k # i
        BY <3>1, <1>0, <1>1, <1>3
      <4>2. QED BY <4>1, <1>1, SeqFacts DEF Once
    <3>2. CASE k >= i
      <4>1. rest[k] = list[k + 1] /\ k + 1 \in 1..Len(list) /\ k + 1 # i
        BY <3>2, <1>0, <1>1, <1>3
      <4>2. QED BY <4>1, <1>1, SeqFacts DEF Once
    <3>3. QED BY <3>1, <3>2, <1>0, <1>1, <1>3
  <2>2. QED BY <1>3, <2>1, SeqFacts
<1>6. ASSUME NEW s \in ToSet(list) \ {d} PROVE s \in ToSet(rest)
  <2>1. PICK k \in 1..Len(list) : list[k] = s
    BY SeqFacts
  <2>2. CASE k < i
    <3>1. k \in 1..Len(rest) /\ rest[k] = s
      BY <2>1, <2>2, <1>0, <1>1, <1>3
    <3>2. QED BY <1>3, <3>1, SeqFacts
  <2>3. CASE k > i
    <3>1. k - 1 \in 1..Len(rest) /\ rest[k - 1] = s
      BY <2>1, <2>3, <1>0, <1>1, <1>3
    <3>2. QED BY <1>3, <3>1, SeqFacts
  <2>4. QED BY <1>0, <1>1, <2>1, <2>2, <2>3
<1>7. QED BY <1>3, <1>4, <1>5, <1>6 DEF rest

(* Dropping the first slave, as bond_release_all does.                     *)
LEMMA TailMembers ==
  ASSUME NEW list \in Seq(Dev), list # <<>>, Once(list)
  PROVE  /\ Tail(list) \in Seq(Dev)
         /\ list[1] \in Dev
         /\ ToSet(Tail(list)) = ToSet(list) \ {list[1]}
         /\ Once(Tail(list))
<1>1. /\ Tail(list) \in Seq(Dev) /\ Len(Tail(list)) = Len(list) - 1
      /\ \A k \in 1..Len(Tail(list)) : Tail(list)[k] = list[k + 1]
      /\ 1 \in 1..Len(list)
  OBVIOUS
<1>2. Once(Tail(list))
  BY <1>1 DEF Once
<1>3. ASSUME NEW k \in 1..Len(Tail(list)) PROVE Tail(list)[k] \in ToSet(list) \ {list[1]}
  BY <1>1, SeqFacts DEF Once
<1>4. ASSUME NEW s \in ToSet(list) \ {list[1]}
      PROVE  \E k \in 1..Len(Tail(list)) : Tail(list)[k] = s
  <2>1. PICK k \in 1..Len(list) : list[k] = s
    BY SeqFacts
  <2>2. k - 1 \in 1..Len(Tail(list)) /\ Tail(list)[k - 1] = s
    BY <1>1, <2>1, SeqFacts
  <2>3. QED BY <2>2
<1>5. ToSet(Tail(list)) = {Tail(list)[k] : k \in 1..Len(Tail(list))}
  BY <1>1, SeqFacts
<1>6. QED BY <1>1, <1>2, <1>3, <1>4, <1>5, SeqFacts

(* One turn of the circle visits slaves of the list only.                  *)
LEMMA TurnMembers ==
  ASSUME NEW list \in Seq(Dev), NEW s \in ToSet(list)
  PROVE  /\ TurnFrom(list, s) \in Seq(Dev)
         /\ ToSet(TurnFrom(list, s)) \subseteq ToSet(list)
<1> DEFINE i == CHOOSE j \in 1..Len(list) : list[j] = s
           n == Len(list)
           At(k) == ((i + k - 2) % n) + 1
<1>1. n \in Nat /\ i \in 1..n /\ \A k \in 1..n : list[k] \in Dev
  BY SeqFacts
<1>2. TurnFrom(list, s) = [k \in 1..n |-> list[At(k)]]
  BY DEF TurnFrom
<1> HIDE DEF i, n
<1>3. \A k \in 1..n : At(k) \in 1..n
  BY <1>1
<1> HIDE DEF At
<1>4. \A k \in 1..n : list[At(k)] \in Dev
  BY <1>1, <1>3
<1>5. TurnFrom(list, s) \in Seq(Dev) /\ Len(TurnFrom(list, s)) = n
  BY <1>1, <1>2, <1>4
<1>6. ASSUME NEW k \in 1..n PROVE TurnFrom(list, s)[k] \in ToSet(list)
  BY <1>2, <1>3, SeqFacts DEF n
<1>7. QED BY <1>5, <1>6, SeqFacts

(* The turn begins with the slave it starts at.                            *)
LEMMA TurnHead ==
  ASSUME NEW list \in Seq(Dev), NEW s \in ToSet(list)
  PROVE  /\ TurnFrom(list, s) \in Seq(Dev) /\ 1 \in 1..Len(TurnFrom(list, s))
         /\ TurnFrom(list, s)[1] = s
<1> DEFINE i == CHOOSE j \in 1..Len(list) : list[j] = s
           n == Len(list)
<1>1. n \in Nat /\ i \in 1..n /\ list[i] = s
  BY SeqFacts
<1>2. TurnFrom(list, s) = [k \in 1..n |-> list[((i + k - 2) % n) + 1]]
  BY DEF TurnFrom
<1> HIDE DEF i, n
<1>3. n > 0 /\ i - 1 \in 0..(n - 1) /\ i + 1 - 2 = i - 1
  BY <1>1
<1>4. (i - 1) % n = i - 1
  BY <1>3, <1>1
<1>5. TurnFrom(list, s)[1] = list[i] /\ Len(TurnFrom(list, s)) = n
  <2>1. 1 \in 1..n /\ i + 1 - 2 = i - 1
    BY <1>1, <1>3
  <2>2. TurnFrom(list, s)[1] = list[((i + 1 - 2) % n) + 1]
    BY <1>2, <2>1
  <2>3. ((i + 1 - 2) % n) + 1 = i
    BY <1>1, <1>4, <2>1
  <2>4. TurnFrom(list, s) \in Seq(Dev) /\ DOMAIN TurnFrom(list, s) = 1..n
    BY <1>2, TurnMembers
  <2>5. Len(TurnFrom(list, s)) = n
    BY <1>1, <2>4
  <2>6. QED BY <2>2, <2>3, <2>5
<1>6. QED BY <1>1, <1>3, <1>5, TurnMembers

(* The turn visits every slave of the list.                                *)
LEMMA TurnVisits ==
  ASSUME NEW list \in Seq(Dev), NEW s \in ToSet(list)
  PROVE  ToSet(TurnFrom(list, s)) = ToSet(list)
<1> DEFINE i == CHOOSE j \in 1..Len(list) : list[j] = s
           n == Len(list)
           turn == TurnFrom(list, s)
<1>1. n \in Nat /\ i \in 1..n
  BY SeqFacts
<1>2. turn = [k \in 1..n |-> list[((i + k - 2) % n) + 1]]
  BY DEF TurnFrom
<1>3. turn \in Seq(Dev) /\ ToSet(turn) \subseteq ToSet(list)
  BY TurnMembers
<1> HIDE DEF i, n
<1>4. Len(turn) = n
  BY <1>1, <1>2, <1>3
<1>5. ASSUME NEW j \in 1..n PROVE list[j] \in ToSet(turn)
  <2> DEFINE k == IF j >= i THEN j - i + 1 ELSE j - i + 1 + n
  <2>1. k \in 1..n /\ n > 0
    BY <1>1, <1>5
  <2>2. (i + k - 2) % n = j - 1
    <3>1. j - 1 \in 0..(n - 1)
      BY <1>1, <1>5
    <3>2. ASSUME NEW m \in 0..(n - 1) PROVE m % n = m /\ (m + n) % n = m
      <4>1. n \in Nat /\ n > 0
        BY <1>1, <2>1
      <4>2. m % n = m
        BY <4>1
      <4>3. (m + n) % n = m
        BY <4>1
      <4>4. QED BY <4>2, <4>3
    <3>3. i + k - 2 = j - 1 \/ i + k - 2 = j - 1 + n
      BY <1>1, <1>5
    <3>4. QED BY <3>1, <3>2, <3>3
  <2>3. turn[k] = list[j]
    <3>1. (j - 1) + 1 = j
      BY <1>1, <1>5
    <3> HIDE DEF k
    <3>2. turn[k] = list[((i + k - 2) % n) + 1]
      BY <1>2, <2>1
    <3>3. QED BY <2>2, <3>1, <3>2
  <2> HIDE DEF k, turn
  <2>4. QED BY <1>3, <1>4, <2>1, <2>3, SeqFacts
<1>6. ToSet(list) = {list[j] : j \in 1..n}
  BY SeqFacts DEF n
<1>7. QED BY <1>3, <1>5, <1>6

(* A search that can succeed has a first hit.                              *)
LEMMA FirstHit ==
  ASSUME NEW n \in Nat, NEW T \in SUBSET (1..n), T # {}
  PROVE  \E k \in T : \A j \in 1..(k - 1) : j \notin T
<1> DEFINE I == {1..m : m \in T}
<1>1. I \subseteq FiniteSubsetsOf(Nat) /\ I # {}
  <2>1. ASSUME NEW m \in T PROVE 1..m \in FiniteSubsetsOf(Nat)
    BY FS_Interval DEF FiniteSubsetsOf
  <2>2. QED BY <2>1
<1>2. PICK x \in I : \A y \in I : <<y, x>> \notin StrictSubsetOrdering(Nat)
  <2> HIDE DEF I
  <2>1. QED BY <1>1, FS_StrictSubsetOrderingWellFounded, WFMin
<1>3. PICK k \in T : x = 1..k
  OBVIOUS
<1>4. ASSUME NEW j \in 1..(k - 1), j \in T PROVE FALSE
  <2>1. 1..j \subseteq 1..k /\ k \in 1..k /\ k \notin 1..j
    BY <1>4
  <2>2. <<1..j, 1..k>> \in StrictSubsetOrdering(Nat)
    BY <2>1 DEF StrictSubsetOrdering
  <2>3. QED BY <1>2, <1>3, <1>4, <2>2
<1>5. QED BY <1>4

(* MAKE finds a slave of the list other than the active one, or none.      *)
LEMMA PassiveMember ==
  ASSUME NEW list \in Seq(Dev), NEW a
  PROVE  Passive(list, a) \in (ToSet(list) \ {a}) \cup {NoSlave}
<1> DEFINE Hit(k) == list[k] # a /\ \A j \in 1..(k - 1) : ~(list[j] # a)
           first == CHOOSE k \in 1..Len(list) : Hit(k)
<1>1. Passive(list, a) = IF \E k \in 1..Len(list) : Hit(k) THEN list[first] ELSE NoSlave
  BY DEF Passive, FirstSuch
<1>2. CASE \E k \in 1..Len(list) : Hit(k)
  <2>1. first \in 1..Len(list) /\ Hit(first)
    BY <1>2
  <2>2. QED BY <1>1, <1>2, <2>1, SeqFacts
<1>3. CASE ~ \E k \in 1..Len(list) : Hit(k)
  BY <1>1, <1>3
<1>4. QED BY <1>2, <1>3

(* The search by device ends on a slave of the list unless it is empty.    *)
LEMMA SlaveByDevMember ==
  ASSUME NEW list \in Seq(Dev), list # <<>>, NEW d
  PROVE  SlaveByDev(list, d) \in ToSet(list)
  BY DEF SlaveByDev, ToSet
==============================================================================
