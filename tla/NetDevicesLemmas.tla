-------------------------- MODULE NetDevicesLemmas --------------------------
(***************************************************************************)
(* What the operators of the life of the devices return: lists, packets    *)
(* that are counted, and what dev.c does to a table of devices.            *)
(***************************************************************************)
EXTENDS NetDevices, FiniteSetTheorems, TLAPS

-------------------------------------------------------------------------------
(***************************************************************************)
(* The operators of the model.                                             *)
(***************************************************************************)

(* Appending to a list adds one element.                                   *)
LEMMA AppendFacts ==
  ASSUME NEW S, NEW s \in Seq(S), NEW x \in S
  PROVE  /\ Append(s, x) \in Seq(S) /\ Len(Append(s, x)) = Len(s) + 1
         /\ \A i \in 1..Len(s) : Append(s, x)[i] = s[i]
         /\ Append(s, x)[Len(s) + 1] = x
         /\ ToSet(Append(s, x)) = ToSet(s) \cup {x}
         /\ Distinct(s) /\ x \notin ToSet(s) => Distinct(Append(s, x))
<1>1. /\ Append(s, x) \in Seq(S) /\ Len(Append(s, x)) = Len(s) + 1
      /\ \A i \in 1..Len(s) : Append(s, x)[i] = s[i]
      /\ Append(s, x)[Len(s) + 1] = x
      /\ DOMAIN s = 1..Len(s) /\ DOMAIN Append(s, x) = 1..(Len(s) + 1)
  OBVIOUS
<1> DEFINE n == Len(s)
<1> DEFINE a == Append(s, x)
<1>2. n \in Nat
  OBVIOUS
<1> HIDE DEF n, a
<1>3. ToSet(a) = ToSet(s) \cup {x}
  BY <1>1, <1>2 DEF ToSet, n, a
<1>4. Distinct(s) /\ x \notin ToSet(s) => Distinct(a)
  BY <1>1, <1>2 DEF Distinct, ToSet, n, a
<1>5. QED BY <1>1, <1>3, <1>4 DEF a

(* Taking the first element of a list without duplicates takes it away.    *)
LEMMA TailFacts ==
  ASSUME NEW S, NEW s \in Seq(S), s # <<>>
  PROVE  /\ Head(s) \in S /\ Tail(s) \in Seq(S) /\ Len(s) \in Nat \ {0} /\ Len(Tail(s)) = Len(s) - 1
         /\ Head(s) = s[1] /\ \A i \in 1..(Len(s) - 1) : Tail(s)[i] = s[i + 1]
         /\ ToSet(s) = {Head(s)} \cup ToSet(Tail(s))
         /\ Distinct(s) => Distinct(Tail(s)) /\ Head(s) \notin ToSet(Tail(s))
<1>1. /\ Head(s) \in S /\ Tail(s) \in Seq(S) /\ Len(s) \in Nat \ {0} /\ Len(Tail(s)) = Len(s) - 1
      /\ Head(s) = s[1] /\ \A i \in 1..(Len(s) - 1) : Tail(s)[i] = s[i + 1]
      /\ DOMAIN s = 1..Len(s) /\ DOMAIN Tail(s) = 1..(Len(s) - 1)
  OBVIOUS
<1> DEFINE n == Len(s)
<1> DEFINE r == Tail(s)
<1>2. /\ n \in Nat \ {0} /\ DOMAIN s = 1..n /\ DOMAIN r = 1..(n - 1)
      /\ \A i \in 1..(n - 1) : r[i] = s[i + 1] 
      /\ Head(s) = s[1]
  BY <1>1
<1> HIDE DEF n, r
<1>3. ToSet(s) = {Head(s)} \cup ToSet(r)
  <2>1. ASSUME NEW i \in 1..n PROVE s[i] \in {Head(s)} \cup ToSet(r)
    <3>1. i = 1 \/ (i - 1 \in 1..(n - 1) /\ (i - 1) + 1 = i)
      BY <1>2
    <3>2. QED BY <1>2, <3>1 DEF ToSet
  <2>2. ASSUME NEW i \in 1..(n - 1) PROVE r[i] \in ToSet(s)
    <3>1. i + 1 \in 1..n
      BY <1>2
    <3>2. QED BY <1>2, <3>1 DEF ToSet
  <2>3. Head(s) \in ToSet(s)
    BY <1>2 DEF ToSet
  <2>4. QED BY <1>2, <2>1, <2>2, <2>3 DEF ToSet
<1>4. Distinct(s) => Distinct(r) /\ Head(s) \notin ToSet(r)
  <2> SUFFICES ASSUME Distinct(s) PROVE Distinct(r) /\ Head(s) \notin ToSet(r)
    OBVIOUS
  <2>1. ASSUME NEW i \in 1..(n - 1), NEW j \in 1..(n - 1), r[i] = r[j] PROVE i = j
    <3>1. i + 1 \in 1..n /\ j + 1 \in 1..n
      BY <1>2
    <3>2. i + 1 = j + 1
      BY <1>2, <2>1, <3>1 DEF Distinct
    <3>3. QED BY <3>2
  <2>2. ASSUME NEW i \in 1..(n - 1) PROVE r[i] # Head(s)
    <3>1. i + 1 \in 1..n /\ 1 \in 1..n /\ i + 1 # 1
      BY <1>2
    <3>2. QED BY <1>2, <3>1 DEF Distinct
  <2>3. QED BY <1>2, <2>1, <2>2 DEF Distinct, ToSet
<1>5. QED BY <1>1, <1>3, <1>4 DEF r

(* The empty list.                                                         *)
LEMMA EmptyFacts ==
  ASSUME NEW S
  PROVE  <<>> \in Seq(S) /\ ToSet(<<>>) = {} /\ Distinct(<<>>) /\ Len(<<>>) = 0
  BY DEF ToSet, Distinct

(* A list that is not empty has an element, and its first is one.          *)
LEMMA ListFacts ==
  ASSUME NEW S, NEW s \in Seq(S)
  PROVE  /\ ToSet(s) \subseteq S /\ (s = <<>> <=> ToSet(s) = {})
         /\ s # <<>> => Head(s) \in ToSet(s)
<1>1. Len(s) \in Nat /\ DOMAIN s = 1..Len(s) /\ \A i \in 1..Len(s) : s[i] \in S
  OBVIOUS
<1>2. ToSet(s) \subseteq S
  BY <1>1 DEF ToSet
<1>3. CASE s = <<>>
  BY <1>2, <1>3, EmptyFacts
<1>4. CASE s # <<>>
  BY <1>2, <1>4, TailFacts
<1>5. QED BY <1>3, <1>4

(* The least-number principle for a set: the intervals up to its members   *)
(* are well ordered by inclusion.                                          *)
LEMMA LeastNumber ==
  ASSUME NEW T \in SUBSET Nat, T # {}
  PROVE  \E m \in T : \A j \in T : m <= j
<1> DEFINE I == {1..m : m \in T}
<1>1. I \subseteq FiniteSubsetsOf(Nat) /\ I # {}
  <2>1. ASSUME NEW m \in T PROVE 1..m \in FiniteSubsetsOf(Nat)
    BY FS_Interval DEF FiniteSubsetsOf
  <2>2. QED BY <2>1
<1>2. PICK x \in I : \A y \in I : <<y, x>> \notin StrictSubsetOrdering(Nat)
  <2> HIDE DEF I
  <2>1. QED BY <1>1, FS_StrictSubsetOrderingWellFounded, WFMin
<1>3. PICK m \in T : x = 1..m
  OBVIOUS
<1>4. ASSUME NEW j \in T, j < m PROVE FALSE
  <2>1. 1..j \subseteq 1..m /\ 1..j # 1..m
    <3>1. m \in 1..m /\ m \notin 1..j
      BY <1>4
    <3>2. 1..j \subseteq 1..m
      BY <1>4
    <3>3. QED BY <3>1, <3>2
  <2>2. <<1..j, 1..m>> \in StrictSubsetOrdering(Nat)
    BY <2>1 DEF StrictSubsetOrdering
  <2>3. QED BY <1>2, <1>3, <2>2
<1>5. QED BY <1>4

(* There is a k-th element.                                                *)
LEMMA NthFacts ==
  ASSUME NEW n \in Nat, NEW K \in SUBSET (1..n), NEW k \in 1..Cardinality(K)
  PROVE  Nth(K, k) \in K
<1> DEFINE B(m) == {j \in K : j <= m}
<1> DEFINE T == {m \in 0..n : k <= Cardinality(B(m))}
<1>1. IsFiniteSet(K) /\ \A m \in 0..n : IsFiniteSet(B(m)) /\ Cardinality(B(m)) \in Nat
  <2>1. IsFiniteSet(K)
    <3>1. IsFiniteSet(1..n)
      BY FS_Interval
    <3>2. QED BY <3>1, FS_Subset
  <2>2. ASSUME NEW m \in 0..n PROVE IsFiniteSet(B(m)) /\ Cardinality(B(m)) \in Nat
    <3>1. B(m) \in SUBSET K
      OBVIOUS
    <3> HIDE DEF B
    <3>2. QED BY <2>1, <3>1, FS_Subset, FS_CardinalityType
  <2>3. QED BY <2>1, <2>2
<1>2. B(0) = {} /\ B(n) = K /\ Cardinality(B(0)) = 0
  <2>0. \A j \in K : j \in Nat /\ 0 < j /\ j <= n
    OBVIOUS
  <2>1. B(0) = {}
    <3>1. \A j \in K : ~(j <= 0)
      BY <2>0
    <3>2. QED BY <3>1, Zenon
  <2>2. B(n) = K
    BY <2>0
  <2>3. QED BY <2>1, <2>2, FS_EmptySet
<1>3. n \in T
  <2>1. B(n) = K /\ Cardinality(K) \in Nat
    BY <1>1, <1>2
  <2> HIDE DEF B
  <2>2. QED BY <2>1
<1>4. PICK m \in T : \A j \in T : m <= j
  <2>1. T \in SUBSET Nat /\ T # {}
    BY <1>3
  <2> HIDE DEF T
  <2>2. QED BY <2>1, LeastNumber
<1>5. m \in 1..n /\ m - 1 \in 0..n
  BY <1>2
<1>6. Cardinality(B(m - 1)) < k
  <2>1. m - 1 \notin T
    <3> HIDE DEF T
    <3>1. QED BY <1>4, <1>5
  <2>2. Cardinality(B(m - 1)) \in Nat
    BY <1>1, <1>5
  <2>3. ~(k <= Cardinality(B(m - 1)))
    BY <1>5, <2>1
  <2> HIDE DEF B, T
  <2>4. QED BY <2>2, <2>3
<1>7. m \in K /\ Cardinality(B(m)) = k
  <2>1. B(m) = IF m \in K THEN B(m - 1) \cup {m} ELSE B(m - 1)
    <3>1. \A j \in K : j <= m <=> (j <= m - 1 \/ j = m)
      BY <1>5
    <3>2. QED BY <3>1
  <2>2. m \notin B(m - 1)
    BY <1>5
  <2>3. k <= Cardinality(B(m))
    OBVIOUS
  <2> HIDE DEF B, T
  <2>4. m \in K
    BY <1>1, <1>5, <1>6, <2>1, <2>3
  <2>5. Cardinality(B(m)) = Cardinality(B(m - 1)) + 1
    BY <1>1, <1>5, <2>1, <2>2, <2>4, FS_AddElement
  <2>6. QED BY <1>1, <1>5, <1>6, <2>3, <2>4, <2>5
<1>8. QED BY <1>7 DEF Nth

(* What is left of a queue is from the queue, and of no packet of d.       *)
LEMMA WithoutFacts ==
  ASSUME NEW S, NEW s \in Seq(S), NEW d
  PROVE  /\ Without(s, d) \in Seq(S) /\ Len(Without(s, d)) <= Len(s)
         /\ ToSet(Without(s, d)) \subseteq ToSet(s) \ {d}
         /\ s = <<>> => Without(s, d) = <<>>
<1> DEFINE K == {i \in DOMAIN s : s[i] # d}
<1> DEFINE n == Len(s)
<1> DEFINE w == Without(s, d)
<1>1. n \in Nat /\ DOMAIN s = 1..n /\ K \in SUBSET (1..n) /\ \A i \in 1..n : s[i] \in S
  OBVIOUS
<1>2. IsFiniteSet(K) /\ Cardinality(K) \in Nat /\ Cardinality(K) <= n
  <2>1. IsFiniteSet(1..n) /\ Cardinality(1..n) = n
    BY <1>1, FS_Interval
  <2> HIDE DEF K
  <2>2. IsFiniteSet(K) /\ Cardinality(K) <= Cardinality(1..n)
    BY <1>1, <2>1, FS_Subset
  <2>3. QED BY <2>1, <2>2, FS_CardinalityType
<1>3. w = [k \in 1..Cardinality(K) |-> s[Nth(K, k)]]
  BY DEF Without
<1>4. \A k \in 1..Cardinality(K) : Nth(K, k) \in K
  <2> HIDE DEF K, n
  <2>1. QED BY <1>1, NthFacts
<1>5. \A k \in 1..Cardinality(K) : w[k] \in S /\ w[k] # d /\ w[k] \in ToSet(s)
  BY <1>1, <1>3, <1>4 DEF ToSet
<1>6. w \in Seq(S) /\ Len(w) = Cardinality(K)
  <2>0. \A k \in 1..Cardinality(K) : s[Nth(K, k)] \in S
    BY <1>1, <1>4
  <2> HIDE DEF K, w
  <2>1. QED BY <1>2, <1>3, <2>0
<1>7. ToSet(w) \subseteq ToSet(s) \ {d}
  <2>1. DOMAIN w = 1..Cardinality(K)
    BY <1>3
  <2> HIDE DEF w, K
  <2>2. QED BY <1>5, <2>1 DEF ToSet
<1>8. s = <<>> => w = <<>>
  <2> SUFFICES ASSUME s = <<>> PROVE w = <<>>
    OBVIOUS
  <2>1. Cardinality(K) = 0
    BY <1>2, FS_EmptySet
  <2> HIDE DEF w, K
  <2>2. QED BY <1>6, <2>1
<1>9. QED BY <1>2, <1>6, <1>7, <1>8

-------------------------------------------------------------------------------
(***************************************************************************)
(* Packets.                                                                *)
(***************************************************************************)
(* The places of the packets of a device can be counted.                   *)
LEMMA QueuedFacts ==
  ASSUME NEW q, NEW d
  PROVE  IsFiniteSet(Queued(q, d)) /\ Cardinality(Queued(q, d)) \in Nat
<1>1. IsFiniteSet(Cpu) /\ IsFiniteSet(1..(MaxBacklog + 1))
  BY NetAssumption, FS_Interval
<1>2. IsFiniteSet(Cpu \X (1..(MaxBacklog + 1)))
  BY <1>1, FS_Product
<1>3. Queued(q, d) \in SUBSET (Cpu \X (1..(MaxBacklog + 1)))
  BY DEF Queued
<1>4. QED BY <1>2, <1>3, FS_Subset, FS_CardinalityType

(* A packet that is queued is one more, of its device alone.               *)
LEMMA QueuedAppend ==
  ASSUME NEW q \in Queues, NEW c \in Cpu, NEW d \in Nic, Len(q[c]) <= MaxBacklog, NEW e,
         NEW r \in Queues, r[c] = Append(q[c], d), \A x \in Cpu \ {c} : r[x] = q[x]
  PROVE  Cardinality(Queued(r, e)) = IF e = d THEN Cardinality(Queued(q, e)) + 1 ELSE Cardinality(Queued(q, e))
<1> DEFINE n == Len(q[c])
<1> DEFINE a == Append(q[c], d)
<1>1. /\ q[c] \in Seq(Nic) /\ n \in Nat /\ n + 1 \in 1..(MaxBacklog + 1)
      /\ a \in Seq(Nic) /\ Len(a) = n + 1 /\ a[n + 1] = d /\ \A i \in 1..n : a[i] = q[c][i]
  BY NetAssumption, AppendFacts DEF Queues
<1>2. r[c] = a /\ \A x \in Cpu \ {c} : r[x] = q[x]
  OBVIOUS
<1> HIDE DEF a
<1>3. Queued(r, e) = IF e = d THEN Queued(q, e) \cup {<<c, n + 1>>} ELSE Queued(q, e)
  <2>1. ASSUME NEW x \in Cpu, NEW i \in 1..(MaxBacklog + 1)
        PROVE  <<x, i>> \in Queued(r, e) <=> (<<x, i>> \in Queued(q, e) \/ (e = d /\ x = c /\ i = n + 1))
    <3>1. CASE x # c
      BY <1>2, <3>1 DEF Queued
    <3>2. CASE x = c
      <4>1. i <= n + 1 <=> (i \in 1..n \/ i = n + 1)
        BY <1>1
      <4>2. ~(n + 1 <= n)
        BY <1>1
      <4>3. <<x, i>> \in Queued(r, e) <=> (i <= n + 1 /\ a[i] = e)
        BY <1>1, <1>2, <3>2 DEF Queued
      <4>4. <<x, i>> \in Queued(q, e) <=> (i <= n /\ q[c][i] = e)
        BY <3>2 DEF Queued
      <4> HIDE DEF n
      <4>5. QED BY <1>1, <3>2, <4>1, <4>2, <4>3, <4>4
    <3>3. QED BY <3>1, <3>2
  <2>2. \A p \in Queued(r, e) \cup Queued(q, e) :
          p = <<p[1], p[2]>> /\ p[1] \in Cpu /\ p[2] \in 1..(MaxBacklog + 1)
    BY DEF Queued
  <2> HIDE DEF n
  <2>3. ASSUME NEW p \in Queued(r, e) \cup Queued(q, e) \cup {<<c, n + 1>>}
        PROVE  p \in Queued(r, e) <=> (p \in Queued(q, e) \/ (e = d /\ p = <<c, n + 1>>))
    <3>1. p = <<p[1], p[2]>> /\ p[1] \in Cpu /\ p[2] \in 1..(MaxBacklog + 1)
      <4>1. CASE p \in Queued(r, e) \cup Queued(q, e)
        BY <2>2, <4>1
      <4>2. CASE p = <<c, n + 1>>
        <5>1. p[1] = c /\ p[2] = n + 1
          BY <4>2
        <5>2. QED BY <1>1, <4>2, <5>1
      <4>3. QED BY <4>1, <4>2
    <3>2. p = <<c, n + 1>> <=> (p[1] = c /\ p[2] = n + 1)
      BY <3>1
    <3>3. QED BY <2>1, <3>1, <3>2
  <2>4. QED BY <2>3
<1>4. <<c, n + 1>> \notin Queued(q, e)
  BY <1>1 DEF Queued
<1>5. QED BY <1>3, <1>4, QueuedFacts, FS_AddElement

(* A packet that is taken off a queue is one less, of its device alone;    *)
(* packets of other devices may be queued elsewhere.                       *)
LEMMA QueuedTail ==
  ASSUME NEW q \in Queues, NEW c \in Cpu, q[c] # <<>>, NEW e,
         NEW r \in Queues, r[c] = Tail(q[c]),
         \A x \in Cpu \ {c} : \/ r[x] = q[x]
                              \/ \E g \in Nic : g # e /\ r[x] = Append(q[x], g)
  PROVE  Cardinality(Queued(r, e)) = IF e = Head(q[c]) THEN Cardinality(Queued(q, e)) - 1 ELSE Cardinality(Queued(q, e))
<1> DEFINE P == Cpu \X (1..(MaxBacklog + 1))
<1> DEFINE A == Queued(q, e) \ {<<c, 1>>}
<1> DEFINE f == [p \in A |-> IF p[1] = c THEN <<c, p[2] - 1>> ELSE p]
<1> DEFINE n == Len(q[c])
<1>1. /\ n \in Nat \ {0} /\ n <= MaxBacklog + 1 /\ Len(r[c]) = n - 1 /\ Head(q[c]) = q[c][1]
      /\ \A i \in 1..(n - 1) : r[c][i] = q[c][i + 1]
  BY TailFacts DEF Queues
<1>2. MaxBacklog \in Nat
  BY NetAssumption
<1>3. ASSUME NEW x \in Cpu, x # c, NEW i \in 1..(MaxBacklog + 1)
      PROVE  <<x, i>> \in Queued(q, e) <=> <<x, i>> \in Queued(r, e)
  <2>1. CASE r[x] = q[x]
    BY <2>1 DEF Queued
  <2>2. CASE \E g \in Nic : g # e /\ r[x] = Append(q[x], g)
    <3>1. PICK g \in Nic : g # e /\ r[x] = Append(q[x], g)
      BY <2>2
    <3> DEFINE m == Len(q[x])
    <3>2. q[x] \in Seq(Nic) /\ m \in Nat
      BY DEF Queues
    <3>3. Len(r[x]) = m + 1 /\ r[x][m + 1] = g /\ \A j \in 1..m : r[x][j] = q[x][j]
      BY <3>1, <3>2, AppendFacts
    <3>4. <<x, i>> \in Queued(q, e) <=> (i <= m /\ q[x][i] = e)
      BY DEF Queued
    <3>5. <<x, i>> \in Queued(r, e) <=> (i <= m + 1 /\ r[x][i] = e)
      BY <3>3 DEF Queued
    <3> HIDE DEF m
    <3>6. i <= m + 1 <=> (i \in 1..m \/ i = m + 1)
      BY <3>2
    <3>7. i <= m <=> i \in 1..m
      BY <3>2
    <3>8. QED BY <3>1, <3>3, <3>4, <3>5, <3>6, <3>7
  <2>3. QED BY <1>3, <2>1, <2>2
<1>4. ASSUME NEW i \in 1..(MaxBacklog + 1)
      PROVE  /\ <<c, i>> \in Queued(q, e) <=> (i <= n /\ q[c][i] = e)
             /\ <<c, i>> \in Queued(r, e) <=> (i <= n - 1 /\ q[c][i + 1] = e)
  <2>1. <<c, i>> \in Queued(q, e) <=> (i <= n /\ q[c][i] = e)
    BY DEF Queued
  <2>2. <<c, i>> \in Queued(r, e) <=> (i <= n - 1 /\ r[c][i] = e)
    BY <1>1 DEF Queued
  <2> HIDE DEF n
  <2>3. i <= n - 1 <=> i \in 1..(n - 1)
    BY <1>1
  <2>4. QED BY <1>1, <2>1, <2>2, <2>3
<1>5. /\ Queued(q, e) \subseteq P /\ Queued(r, e) \subseteq P
      /\ \A p \in P : p = <<p[1], p[2]>> /\ p[1] \in Cpu /\ p[2] \in 1..(MaxBacklog + 1)
  BY DEF Queued
<1> HIDE DEF n, P
<1>6. ASSUME NEW p \in A
      PROVE  /\ p[1] = c => p[2] - 1 \in 1..(MaxBacklog + 1) /\ f[p] = <<c, p[2] - 1>>
             /\ p[1] # c => f[p] = p
             /\ f[p] \in Queued(r, e)
  <2>1. p = <<p[1], p[2]>> /\ p[1] \in Cpu /\ p[2] \in 1..(MaxBacklog + 1) /\ p \in Queued(q, e) /\ p # <<c, 1>>
    BY <1>5
  <2>2. CASE p[1] # c
    BY <1>3, <2>1, <2>2
  <2>3. CASE p[1] = c
    <3>1. p[2] # 1
      BY <2>1, <2>3
    <3>2. p[2] - 1 \in 1..(MaxBacklog + 1) /\ (p[2] - 1) + 1 = p[2]
      BY <1>2, <2>1, <3>1
    <3>3. p[2] <= n /\ q[c][p[2]] = e
      BY <1>4, <2>1, <2>3
    <3>4. p[2] - 1 <= n - 1
      BY <1>1, <2>1, <3>3
    <3>5. <<c, p[2] - 1>> \in Queued(r, e)
      BY <1>4, <3>2, <3>3, <3>4
    <3>6. QED BY <2>3, <3>2, <3>5
  <2>4. QED BY <2>2, <2>3
<1>7. f \in Injection(A, Queued(r, e))
  <2>1. ASSUME NEW p \in A, NEW s \in A, f[p] = f[s] PROVE p = s
    <3>1. p = <<p[1], p[2]>> /\ s = <<s[1], s[2]>> /\ p[2] \in Nat /\ s[2] \in Nat
      BY <1>2, <1>5
    <3> HIDE DEF f, A
    <3>2. CASE p[1] = c /\ s[1] = c
      <4>1. p[2] - 1 = s[2] - 1
        BY <1>6, <2>1, <3>2
      <4>2. QED BY <3>1, <3>2, <4>1
    <3>3. CASE p[1] # c \/ s[1] # c
      BY <1>6, <2>1, <3>1, <3>3
    <3>4. QED BY <3>2, <3>3
  <2>2. f \in [A -> Queued(r, e)]
    BY <1>6
  <2>3. DOMAIN f = A
    OBVIOUS
  <2> HIDE DEF f, A
  <2>4. QED BY <2>1, <2>2, <2>3 DEF Injection, IsInjective
<1>8. f \in Surjection(A, Queued(r, e))
  <2>1. ASSUME NEW s \in Queued(r, e) PROVE \E p \in A : f[p] = s
    <3>1. s = <<s[1], s[2]>> /\ s[1] \in Cpu /\ s[2] \in 1..(MaxBacklog + 1)
      BY <1>5
    <3>2. CASE s[1] # c
      <4>1. s \in A
        BY <1>3, <3>1, <3>2
      <4>2. QED BY <1>6, <3>2, <4>1
    <3>3. CASE s[1] = c
      <4> DEFINE p == <<c, s[2] + 1>>
      <4>1. s[2] <= n - 1 /\ q[c][s[2] + 1] = e
        BY <1>4, <3>1, <3>3
      <4>2. s[2] + 1 <= n /\ s[2] + 1 \in 1..(MaxBacklog + 1) /\ s[2] + 1 # 1 /\ (s[2] + 1) - 1 = s[2]
        BY <1>1, <1>2, <3>1, <4>1
      <4>3. p \in A
        BY <1>4, <4>1, <4>2
      <4>4. f[p] = s
        BY <1>6, <3>1, <3>3, <4>2, <4>3
      <4>5. QED BY <4>3, <4>4
    <3>4. QED BY <3>2, <3>3
  <2>2. f \in [A -> Queued(r, e)]
    BY <1>6
  <2> HIDE DEF f, A
  <2>3. QED BY <2>1, <2>2 DEF Surjection
<1>9. ExistsBijection(A, Queued(r, e))
  <2> HIDE DEF f, A
  <2>1. QED BY <1>7, <1>8 DEF ExistsBijection, Bijection
<1>10. <<c, 1>> \in Queued(q, e) <=> e = Head(q[c])
  <2>1. 1 \in 1..(MaxBacklog + 1) /\ 1 <= n
    BY <1>1, <1>2
  <2>2. QED BY <1>1, <1>4, <2>1
<1>11. Cardinality(Queued(r, e)) = Cardinality(A)
  <2>1. IsFiniteSet(A)
    BY QueuedFacts, FS_RemoveElement
  <2> HIDE DEF A
  <2>2. QED BY <1>9, <2>1, FS_Bijection
<1>12. QED BY <1>10, <1>11, QueuedFacts, FS_RemoveElement

-------------------------------------------------------------------------------
(***************************************************************************)
(* What the functions of dev.c do to a table of devices.                   *)
(***************************************************************************)

(* The members of the record of a device.                                  *)
LEMMA DeviceFacts ==
  ASSUME NEW D \in Devices, NEW d \in Device
  PROVE  /\ D[d].reg \in {"uninitialized", "registered", "unregistering", "unregistered", "released"}
         /\ D[d].up \in BOOLEAN /\ D[d].ref \in Int /\ D[d].held \in {0, 1}
  BY DEF Devices, NetDevice

(* dev_hold counts one reference more, and nothing else.                   *)
LEMMA HoldFacts ==
  ASSUME NEW D \in Devices, NEW d \in Device
  PROVE  /\ DevHold(D, d) \in Devices
         /\ \A e \in Device : /\ DevHold(D, d)[e].reg = D[e].reg /\ (DevHold(D, d)[e].up => D[e].up)
                              /\ DevHold(D, d)[e].held = D[e].held
                              /\ DevHold(D, d)[e].ref = IF e = d THEN D[e].ref + 1 ELSE D[e].ref
  BY DEF Devices, NetDevice, DevHold

(* dev_put counts one reference less.                                      *)
LEMMA PutFacts ==
  ASSUME NEW D \in Devices, NEW d \in Device
  PROVE  /\ DevPut(D, d) \in Devices
         /\ \A e \in Device : /\ DevPut(D, d)[e].reg = D[e].reg /\ (DevPut(D, d)[e].up => D[e].up)
                              /\ DevPut(D, d)[e].held = D[e].held
                              /\ DevPut(D, d)[e].ref = IF e = d THEN D[e].ref - 1 ELSE D[e].ref
  BY DEF Devices, NetDevice, DevPut

(* The protocols put back all they hold of one device.                     *)
LEMMA LetGoFacts ==
  ASSUME NEW D \in Devices, NEW d \in Device
  PROVE  /\ ProtocolsLetGo(D, d) \in Devices
         /\ \A e \in Device : /\ ProtocolsLetGo(D, d)[e].reg = D[e].reg
                              /\ (ProtocolsLetGo(D, d)[e].up => D[e].up)
                              /\ ProtocolsLetGo(D, d)[e].held = IF e = d THEN 0 ELSE D[e].held
                              /\ ProtocolsLetGo(D, d)[e].ref =
                                   IF e = d THEN D[e].ref - D[e].held ELSE D[e].ref
<1> DEFINE R == ProtocolsLetGo(D, d)
<1>1. R[d] = [D[d] EXCEPT !.ref = @ - D[d].held, !.held = 0] /\ \A e \in Device \ {d} : R[e] = D[e]
  BY DEF Devices, NetDevice, ProtocolsLetGo
<1>2. R = [e \in Device |-> R[e]]
  BY DEF Devices, NetDevice, ProtocolsLetGo
<1> HIDE DEF R
<1>3. D[d].held \in Int
  BY DEF Devices, NetDevice
<1> DEFINE x == D[d]
<1> DEFINE r == D[d].ref - D[d].held
<1>4. x \in NetDevice /\ r \in Int /\ R[d] = [x EXCEPT !.ref = r, !.held = 0]
  BY <1>1, <1>3 DEF Devices, NetDevice
<1>5. R[d] \in NetDevice /\ R[d].reg = x.reg /\ (R[d].up => x.up) /\ R[d].held = 0 /\ R[d].ref = r
  <2> HIDE DEF x, r
  <2>1. QED BY <1>4 DEF NetDevice
<1>6. R \in Devices
  BY <1>1, <1>2, <1>5 DEF Devices
<1>7. QED BY <1>1, <1>5, <1>6 DEF R

(* dev_open and dev_close count nothing.                                   *)
LEMMA OpenFacts ==
  ASSUME NEW D \in Devices, NEW d \in Device
  PROVE  /\ DevOpen(D, d) \in Devices
         /\ \A e \in Device : /\ DevOpen(D, d)[e].reg = D[e].reg /\ DevOpen(D, d)[e].held = D[e].held
                              /\ DevOpen(D, d)[e].ref = D[e].ref
                              /\ e # d /\ DevOpen(D, d)[e].up => D[e].up
  BY DEF Devices, NetDevice, DevOpen

(* A device that is closed is down.                                        *)
LEMMA CloseFacts ==
  ASSUME NEW D \in Devices, NEW d \in Device
  PROVE  /\ DevClose(D, d) \in Devices
         /\ \A e \in Device : /\ DevClose(D, d)[e].reg = D[e].reg /\ DevClose(D, d)[e].held = D[e].held
                              /\ DevClose(D, d)[e].ref = D[e].ref
                              /\ IF e = d THEN ~DevClose(D, d)[e].up ELSE (DevClose(D, d)[e].up => D[e].up)
  BY DEF Devices, NetDevice, DevClose

(* A device that is unlisted is closed.                                    *)
LEMMA UnlistedFacts ==
  ASSUME NEW D \in Devices, NEW d \in Device
  PROVE  /\ Unlisted(D, d) \in Devices
         /\ \A e \in Device :
              /\ Unlisted(D, d)[e].held = D[e].held /\ Unlisted(D, d)[e].ref = D[e].ref
              /\ IF e = d THEN Unlisted(D, d)[e].reg = "unregistering" /\ ~Unlisted(D, d)[e].up
                          ELSE Unlisted(D, d)[e].reg = D[e].reg /\ (Unlisted(D, d)[e].up => D[e].up)
<1> DEFINE C == DevClose(D, d)
<1> DEFINE R == Unlisted(D, d)
<1>1. R = [C EXCEPT ![d] = [C[d] EXCEPT !.reg = "unregistering"]]
  BY DEF Unlisted
<1>2. C \in Devices /\ \A e \in Device : /\ C[e].reg = D[e].reg /\ C[e].held = D[e].held /\ C[e].ref = D[e].ref
                                       /\ IF e = d THEN ~C[e].up ELSE (C[e].up => D[e].up)
  BY CloseFacts
<1> HIDE DEF C
<1>3. R[d] = [C[d] EXCEPT !.reg = "unregistering"] /\ \A e \in Device \ {d} : R[e] = C[e]
  BY <1>1, <1>2 DEF Devices
<1> DEFINE x == C[d]
<1>4. x \in NetDevice /\ R[d] = [x EXCEPT !.reg = "unregistering"]
  BY <1>2, <1>3 DEF Devices
<1>5. R[d] \in NetDevice /\ R[d].reg = "unregistering" /\ R[d].held = x.held /\ R[d].ref = x.ref /\ R[d].up = x.up
  <2> HIDE DEF x, R
  <2>1. QED BY <1>4 DEF NetDevice
<1>6. R \in Devices
  <2>1. R = [e \in Device |-> R[e]]
    BY <1>1, <1>2 DEF Devices
  <2> HIDE DEF R
  <2>2. QED BY <1>2, <1>3, <1>5, <2>1 DEF Devices
<1> HIDE DEF R
<1>7. ASSUME NEW e \in Device
      PROVE  /\ R[e].held = D[e].held /\ R[e].ref = D[e].ref
             /\ IF e = d THEN R[e].reg = "unregistering" /\ ~R[e].up
                         ELSE R[e].reg = D[e].reg /\ (R[e].up => D[e].up)
  <2>1. CASE e = d
    BY <1>2, <1>5, <2>1
  <2>2. CASE e # d
    BY <1>2, <1>3, <2>2
  <2>3. QED BY <2>1, <2>2
<1>8. QED BY <1>6, <1>7 DEF R

(* A new device has the reference of its registration.                     *)
LEMMA RegisteredFacts ==
  ASSUME NEW D \in Devices, NEW d \in Device
  PROVE  /\ Registered(D, d) \in Devices
         /\ \A e \in Device :
              /\ Registered(D, d)[e].held = D[e].held /\ (Registered(D, d)[e].up => D[e].up)
              /\ IF e = d THEN Registered(D, d)[e].reg = "registered" /\ Registered(D, d)[e].ref = 1
                          ELSE Registered(D, d)[e].reg = D[e].reg /\ Registered(D, d)[e].ref = D[e].ref
<1> DEFINE R == Registered(D, d)
<1>1. R[d] = [D[d] EXCEPT !.reg = "registered", !.ref = 1] /\ \A e \in Device \ {d} : R[e] = D[e]
  BY DEF Devices, NetDevice, Registered
<1>2. R = [e \in Device |-> R[e]]
  BY DEF Devices, NetDevice, Registered
<1> HIDE DEF R
<1> DEFINE x == D[d]
<1>3. x \in NetDevice /\ R[d] = [x EXCEPT !.reg = "registered", !.ref = 1]
  BY <1>1 DEF Devices
<1>4. R[d] \in NetDevice /\ R[d].reg = "registered" /\ R[d].ref = 1 /\ R[d].held = x.held /\ (R[d].up => x.up)
  <2> HIDE DEF x, R
  <2> DEFINE y == [x EXCEPT !.reg = "registered"]
  <2>1. y \in NetDevice /\ y.reg = "registered" /\ y.held = x.held /\ y.up = x.up
    BY <1>3 DEF NetDevice
  <2>2. R[d] = [y EXCEPT !.ref = 1]
    BY <1>3
  <2> HIDE DEF y
  <2>3. QED BY <2>1, <2>2 DEF NetDevice
<1>5. R \in Devices
  BY <1>1, <1>2, <1>4 DEF Devices
<1>6. QED BY <1>1, <1>4, <1>5 DEF R

(* Slaves that are released are closed, and the bond loses the reference   *)
(* of each.                                                                *)
LEMMA ReleasedFacts ==
  ASSUME NEW D \in Devices, NEW S \in SUBSET Nic, IsFiniteSet(S)
  PROVE  /\ Released(D, S) \in Devices
         /\ \A e \in Device :
              /\ Released(D, S)[e].reg = D[e].reg /\ Released(D, S)[e].held = D[e].held
              /\ Released(D, S)[e].ref = IF e = Bond THEN D[e].ref - Cardinality(S) ELSE D[e].ref
              /\ IF e \in S THEN ~Released(D, S)[e].up ELSE (Released(D, S)[e].up => D[e].up)
<1>1. Bond \notin S /\ S \subseteq Device /\ Bond \in Device /\ Cardinality(S) \in Nat
  BY NetAssumption, FS_CardinalityType DEF Device
<1> DEFINE R == Released(D, S)
<1>2. ASSUME NEW e \in Device
      PROVE  /\ R[e] \in NetDevice
             /\ R[e].reg = D[e].reg /\ R[e].held = D[e].held
             /\ R[e].ref = IF e = Bond THEN D[e].ref - Cardinality(S) ELSE D[e].ref
             /\ IF e \in S THEN ~R[e].up ELSE (R[e].up => D[e].up)
  <2>1. CASE e \in S
    <3>1. R[e] = DevClose(D, e)[e]
      BY <1>1, <2>1 DEF Released
    <3>2. DevClose(D, e) \in Devices
      BY CloseFacts
    <3>3. /\ DevClose(D, e)[e].reg = D[e].reg /\ DevClose(D, e)[e].held = D[e].held
          /\ DevClose(D, e)[e].ref = D[e].ref /\ ~DevClose(D, e)[e].up
      BY CloseFacts
    <3> HIDE DEF R
    <3>4. QED BY <1>1, <2>1, <3>1, <3>2, <3>3 DEF Devices, NetDevice
  <2>2. CASE e = Bond
    <3>1. R[e] = [D[e] EXCEPT !.ref = @ - Cardinality(S)]
      BY <1>1, <2>2 DEF Released
    <3> HIDE DEF R
    <3>2. QED BY <1>1, <2>2, <3>1 DEF Devices, NetDevice
  <2>3. CASE e \notin S /\ e # Bond
    <3>1. R[e] = D[e]
      BY <2>3 DEF Released
    <3> HIDE DEF R
    <3>2. QED BY <2>3, <3>1 DEF Devices, NetDevice
  <2>4. QED BY <2>1, <2>2, <2>3
<1>3. R \in Devices
  <2>1. R = [e \in Device |-> R[e]]
    BY DEF Released
  <2> HIDE DEF R
  <2>2. QED BY <1>2, <2>1 DEF Devices, NetDevice
<1>4. QED BY <1>2, <1>3

(* The bond that goes with its last slave keeps no reference of its own.   *)
LEMMA DestroyedFacts ==
  ASSUME NEW D \in Devices, NEW d \in Nic
  PROVE  /\ DestroyedWith(D, d) \in Devices
         /\ \A e \in Device \ {Bond} :
              /\ DestroyedWith(D, d)[e].reg = D[e].reg /\ DestroyedWith(D, d)[e].held = D[e].held
              /\ DestroyedWith(D, d)[e].ref = D[e].ref
              /\ IF e = d THEN ~DestroyedWith(D, d)[e].up ELSE (DestroyedWith(D, d)[e].up => D[e].up)
         /\ DestroyedWith(D, d)[Bond].reg = "unregistering" /\ ~DestroyedWith(D, d)[Bond].up
         /\ DestroyedWith(D, d)[Bond].held = 0
         /\ DestroyedWith(D, d)[Bond].ref = D[Bond].ref - D[Bond].held - 2
<1>1. Bond \in Device /\ d \in Device /\ d # Bond /\ {d} \in SUBSET Nic
  BY NetAssumption DEF Device
<1>2. IsFiniteSet({d}) /\ Cardinality({d}) = 1
  BY FS_Singleton
<1> DEFINE D1 == Released(D, {d})
<1> DEFINE D2 == Unlisted(D1, Bond)
<1> DEFINE D3 == ProtocolsLetGo(D2, Bond)
<1> DEFINE D4 == DevPut(D3, Bond)
<1>3. D4 = DestroyedWith(D, d)
  BY DEF DestroyedWith
<1>4. /\ D1 \in Devices
      /\ \A e \in Device :
           /\ D1[e].reg = D[e].reg /\ D1[e].held = D[e].held
           /\ D1[e].ref = IF e = Bond THEN D[e].ref - 1 ELSE D[e].ref
           /\ IF e = d THEN ~D1[e].up ELSE (D1[e].up => D[e].up)
  <2>1. Released(D, {d}) \in Devices
    BY <1>1, <1>2, ReleasedFacts
  <2>2. ASSUME NEW e \in Device
        PROVE  /\ D1[e].reg = D[e].reg /\ D1[e].held = D[e].held
               /\ D1[e].ref = IF e = Bond THEN D[e].ref - Cardinality({d}) ELSE D[e].ref
               /\ IF e \in {d} THEN ~D1[e].up ELSE (D1[e].up => D[e].up)
    BY <1>1, <1>2, ReleasedFacts
  <2>3. QED BY <1>2, <2>1, <2>2
<1> HIDE DEF D1
<1>5. /\ D2 \in Devices
      /\ \A e \in Device :
              /\ D2[e].held = D1[e].held /\ D2[e].ref = D1[e].ref
              /\ IF e = Bond THEN D2[e].reg = "unregistering" /\ ~D2[e].up
                          ELSE D2[e].reg = D1[e].reg /\ (D2[e].up => D1[e].up)
  BY <1>1, <1>4, UnlistedFacts
<1> HIDE DEF D2
<1>6. /\ D3 \in Devices
      /\ \A e \in Device : /\ D3[e].reg = D2[e].reg /\ (D3[e].up => D2[e].up)
                           /\ D3[e].held = IF e = Bond THEN 0 ELSE D2[e].held
                           /\ D3[e].ref = IF e = Bond THEN D2[e].ref - D2[e].held ELSE D2[e].ref
  BY <1>1, <1>5, LetGoFacts
<1> HIDE DEF D3
<1>7. /\ D4 \in Devices
      /\ \A e \in Device : /\ D4[e].reg = D3[e].reg /\ (D4[e].up => D3[e].up) /\ D4[e].held = D3[e].held
                           /\ D4[e].ref = IF e = Bond THEN D3[e].ref - 1 ELSE D3[e].ref
  BY <1>1, <1>6, PutFacts
<1> HIDE DEF D4
<1>8. D[Bond].ref \in Int /\ D[Bond].held \in Int
  BY <1>1, DeviceFacts
<1>9. D4[Bond].ref = D[Bond].ref - D[Bond].held - 2
  BY <1>1, <1>4, <1>5, <1>6, <1>7, <1>8
<1>10. QED BY <1>1, <1>3, <1>4, <1>5, <1>6, <1>7, <1>9
==============================================================================
