------------------------- MODULE InMemoryLinkProofs -------------------------
(***************************************************************************)
(* The filter of Connection::Process for every counter size and every      *)
(* number of states, the simulated network, and the filter over it, for    *)
(* every world: all latencies, chances and resets.  The invariant of the   *)
(* filter says that the two counters are the numbers they stand for,       *)
(* reduced, and that these are less than half a window apart; the work is  *)
(* in the arithmetic of WrappingCounterProofs.                             *)
(***************************************************************************)
EXTENDS InMemoryLink, WrappingCounterProofs, FiniteSetTheorems

-----------------------------------------------------------------------------
(* Counters are the numbers reduced, and the numbers are less than half    *)
(* the window apart: KeepsTheNewest alone does not say how far the sender  *)
(* is ahead, without which the comparison means nothing.                   *)
Window ==
  /\ counter = Wrap(count)
  /\ received = Wrap(newest)
  /\ count - newest < Half

IInv == TypeOK /\ Window

(* Default constructed counters satisfy the invariant.                     *)
LEMMA InitIInv == Init => IInv
<1> SUFFICES ASSUME Init PROVE IInv
  OBVIOUS
<1>1. Wrap(0) \in Sequence
  BY WrapType
<1> QED
  BY <1>1, HalfAssumption, MaxCountAssumption DEF Init, IInv, TypeOK, Window

(* Every step, the sender's and a delivery, keeps the invariant.           *)
LEMMA NextIInv == IInv /\ [Next]_vars => IInv'
<1> SUFFICES ASSUME IInv, [Next]_vars PROVE IInv'
  OBVIOUS
<1> USE DEF IInv
<1>1. CASE Advance
  <2>1. counter' = Wrap(count')
    BY <1>1, PlusOne DEF TypeOK, Window, Advance
  <2>2. counter' \in Sequence
    BY <1>1, <2>1, WrapType DEF TypeOK, Advance
  <2>3. TypeOK'
    BY <1>1, <2>2, MaxCountAssumption DEF TypeOK, Advance
  <2>4. Window'
    BY <1>1, <2>1 DEF TypeOK, Window, Advance
  <2> QED BY <2>3, <2>4
<1>2. ASSUME NEW n \in InTime, Deliver(n) PROVE IInv'
  <2>1. n \in 0 .. count /\ count - n < Half
    BY DEF InTime
  <2>2. Accepts(Wrap(n)) <=> n > newest
    BY <2>1, HalfAssumption, AcceptsIffNewer DEF Accepts, TypeOK, Window
  <2>3. received' = Wrap(newest')
    BY <1>2, <2>2 DEF Deliver, Window
  <2>4. newest' \in 0 .. count /\ count - newest' < Half
    BY <1>2, <2>1 DEF Deliver, TypeOK, Window
  <2>5. received' \in Sequence
    BY <2>3, <2>4, WrapType
  <2>6. TypeOK'
    BY <1>2, <2>4, <2>5 DEF Deliver, TypeOK
  <2>7. Window'
    BY <1>2, <2>3, <2>4 DEF Deliver, Window
  <2> QED BY <2>6, <2>7
<1>3. CASE UNCHANGED vars
  BY <1>3 DEF TypeOK, Window, vars
<1> QED BY <1>1, <1>2, <1>3 DEF Next

(* So it holds in every reachable state.                                   *)
LEMMA IInvAlways == Spec => []IInv
BY InitIInv, NextIInv, PTL DEF Spec

(* For every size of counter, its values stay within its bits.             *)
THEOREM TypeOKAlways == Spec => []TypeOK
<1>1. IInv => TypeOK
  BY DEF IInv
<1> QED BY <1>1, IInvAlways, PTL

(* For every size of counter, the filter of Connection::Process keeps the  *)
(* sequence of the newest delta delivered: none older or repeated is       *)
(* taken, none newer refused.                                              *)
THEOREM KeepsTheNewestAlways == Spec => []KeepsTheNewest
<1>1. IInv => KeepsTheNewest
  BY DEF IInv, Window, KeepsTheNewest
<1> QED BY <1>1, IInvAlways, PTL

(* For every size of counter, operator< on the two counters is the order   *)
(* of the states they stand for.                                           *)
THEOREM OrderIsKeptAlways == Spec => []OrderIsKept
<1>1. IInv => OrderIsKept
  <2> SUFFICES ASSUME IInv PROVE OrderIsKept
    OBVIOUS
  <2>1. CASE newest < count
    BY <2>1, LessForward DEF IInv, TypeOK, Window, OrderIsKept
  <2>2. CASE newest = count
    BY <2>2 DEF IInv, TypeOK, Window, OrderIsKept, Less
  <2> QED BY <2>1, <2>2 DEF IInv, TypeOK
<1> QED BY <1>1, IInvAlways, PTL

-----------------------------------------------------------------------------
(* Places of a queue in their order.                                       *)

(* How many places there are up to i.                                      *)
Rank(S, i) == Cardinality({ j \in S : j <= i })

(* A place that is further on has a larger rank.                           *)
LEMMA RankGrows ==
  ASSUME NEW n \in Nat, NEW S \in SUBSET (1 .. n)
  PROVE  /\ IsFiniteSet(S) /\ Cardinality(S) \in Nat
         /\ \A i \in Int : Rank(S, i) \in 0 .. Cardinality(S)
         /\ \A i \in Int, j \in S : i < j => Rank(S, i) < Rank(S, j)
         /\ \A i \in Int : i + 1 \notin S => Rank(S, i + 1) = Rank(S, i)
         /\ \A i \in Int : Rank(S, i + 1) <= Rank(S, i) + 1
<1> DEFINE Upto(i) == { j \in S : j <= i }
<1>0. \A j \in S : j \in Int
  OBVIOUS
<1>1. IsFiniteSet(1 .. n)
  <2>1. 1 \in Int /\ n \in Int
    OBVIOUS
  <2> QED BY <2>1, FS_Interval
<1>2. IsFiniteSet(S)
  BY <1>1, FS_Subset
<1>3. \A T \in SUBSET S : IsFiniteSet(T) /\ Cardinality(T) <= Cardinality(S)
  BY <1>2, FS_Subset
<1>4. \A T \in SUBSET S : Cardinality(T) \in Nat
  BY <1>3, FS_CardinalityType
<1>5. Cardinality(S) \in Nat
  BY <1>4
<1>6. ASSUME NEW i \in Int PROVE Rank(S, i) \in 0 .. Cardinality(S)
  <2>1. Upto(i) \in SUBSET S
    OBVIOUS
  <2>2. Cardinality(Upto(i)) \in Nat /\ Cardinality(Upto(i)) <= Cardinality(S)
    BY <1>3, <1>4, <2>1
  <2> HIDE DEF Upto
  <2>3. Cardinality(Upto(i)) \in 0 .. Cardinality(S)
    BY <1>5, <2>2
  <2> QED BY <2>3 DEF Rank, Upto
<1>7. ASSUME NEW i \in Int, NEW j \in S, i < j PROVE Rank(S, i) < Rank(S, j)
  <2>1. /\ Upto(i) \in SUBSET Upto(j) /\ Upto(i) # Upto(j)
        /\ Upto(j) \in SUBSET S /\ Upto(i) \in SUBSET S
    <3>1. i \in Int /\ j \in Int /\ j \in Upto(j) /\ j \notin Upto(i)
      BY <1>0, <1>7
    <3>2. \A k \in S : k <= i => k <= j
      BY <1>0, <1>7, <3>1
    <3> QED BY <3>1, <3>2
  <2> HIDE DEF Upto
  <2>2. IsFiniteSet(Upto(j))
    BY <1>3, <2>1
  <2>3. /\ Cardinality(Upto(i)) <= Cardinality(Upto(j))
        /\ Cardinality(Upto(i)) # Cardinality(Upto(j))
    BY <2>1, <2>2, FS_Subset
  <2>4. Cardinality(Upto(i)) \in Nat /\ Cardinality(Upto(j)) \in Nat
    BY <1>4, <2>1
  <2>5. Cardinality(Upto(i)) < Cardinality(Upto(j))
    BY <2>3, <2>4
  <2> QED BY <2>5 DEF Rank, Upto
<1>8. ASSUME NEW i \in Int
      PROVE  /\ i + 1 \notin S => Rank(S, i + 1) = Rank(S, i)
             /\ Rank(S, i + 1) <= Rank(S, i) + 1
  <2>1. Upto(i) \in SUBSET S
    OBVIOUS
  <2>2. CASE i + 1 \notin S
    <3>1. Upto(i + 1) = Upto(i)
      <4>1. \A k \in S : k <= i + 1 <=> k <= i
        BY <1>0, <2>2
      <4> QED BY <4>1
    <3>2. Cardinality(Upto(i)) \in Nat
      BY <1>4, <2>1
    <3> HIDE DEF Upto
    <3>3. /\ Cardinality(Upto(i + 1)) = Cardinality(Upto(i))
          /\ Cardinality(Upto(i + 1)) <= Cardinality(Upto(i)) + 1
      BY <3>1, <3>2
    <3> QED BY <3>3 DEF Rank, Upto
  <2>3. CASE i + 1 \in S
    <3>1. Upto(i + 1) = Upto(i) \cup {i + 1}
      <4>1. \A k \in S : k <= i + 1 <=> (k <= i \/ k = i + 1)
        BY <1>0, <2>3
      <4> QED BY <2>3, <4>1
    <3> HIDE DEF Upto
    <3>2. IsFiniteSet(Upto(i)) /\ Cardinality(Upto(i)) \in Nat
      BY <1>3, <1>4, <2>1
    <3>3. \/ Cardinality(Upto(i + 1)) = Cardinality(Upto(i))
          \/ Cardinality(Upto(i + 1)) = Cardinality(Upto(i)) + 1
      BY <3>1, <3>2, FS_AddElement
    <3>4. Cardinality(Upto(i + 1)) <= Cardinality(Upto(i)) + 1
      BY <3>2, <3>3
    <3> QED BY <2>3, <3>4 DEF Rank, Upto
  <2> QED BY <2>2, <2>3
<1> QED BY <1>2, <1>5, <1>6, <1>7, <1>8

(* Nth numbers the places in their order.                                  *)
LEMMA NthOfPlaces ==
  ASSUME NEW n \in Nat, NEW S \in SUBSET (1 .. n)
  PROVE  /\ Cardinality(S) \in Nat
         /\ \A k \in 1 .. Cardinality(S) : Net!Nth(S, k) \in S
         /\ \A k, l \in 1 .. Cardinality(S) : k < l => Net!Nth(S, k) < Net!Nth(S, l)
         /\ \A i \in S : \E k \in 1 .. Cardinality(S) : Net!Nth(S, k) = i
<1> DEFINE N == Cardinality(S)
<1>1. /\ N \in Nat
      /\ \A i \in Int : Rank(S, i) \in 0 .. N
      /\ \A i \in Int, j \in S : i < j => Rank(S, i) < Rank(S, j)
      /\ \A i \in Int : i + 1 \notin S => Rank(S, i + 1) = Rank(S, i)
      /\ \A i \in Int : Rank(S, i + 1) <= Rank(S, i) + 1
  BY RankGrows
<1>2. Rank(S, n) = N /\ Rank(S, 0) = 0
  <2>1. \A j \in S : j \in Int /\ 1 <= j /\ j <= n
    OBVIOUS
  <2>3. \A j \in S : j <= n /\ ~(j <= 0)
    BY <2>1
  <2>4. { j \in S : j <= n } = S /\ { j \in S : j <= 0 } = {}
    BY <2>3
  <2> QED BY <2>4, FS_EmptySet DEF Rank
<1> HIDE DEF N
<1>3. ASSUME NEW k \in 1 .. N PROVE \E i \in S : Rank(S, i) = k
  <2> DEFINE T == { i \in Nat : Rank(S, i) >= k }
  <2>1. n \in T
    BY <1>1, <1>2
  <2>2. PICK i \in T : \A j \in T : ~(j < i)
    BY <2>1, LeastNatural
  <2>3. i # 0
    BY <1>2, <2>2
  <2>4. i - 1 \in Nat /\ i - 1 < i /\ (i - 1) + 1 = i
    BY <2>2, <2>3
  <2>5. ~(Rank(S, i - 1) >= k)
    BY <2>2, <2>4
  <2>6. Rank(S, i) \in Int /\ Rank(S, i - 1) \in Int /\ Rank(S, i) >= k
    BY <1>1, <2>2, <2>4
  <2>7. Rank(S, i) <= Rank(S, i - 1) + 1
    BY <1>1, <2>4
  <2>8. i \in S
    <3>1. i \notin S => Rank(S, i) = Rank(S, i - 1)
      BY <1>1, <2>4
    <3> QED BY <2>5, <2>6, <3>1
  <2> QED BY <2>5, <2>6, <2>7, <2>8
<1>4. ASSUME NEW k \in 1 .. N
      PROVE  Net!Nth(S, k) \in S /\ Rank(S, Net!Nth(S, k)) = k
  <2>1. Net!Nth(S, k) = CHOOSE i \in S : Rank(S, i) = k
    BY DEF Net!Nth, Rank, Net!Cardinality, Cardinality
  <2> QED BY <1>3, <2>1
<1>5. ASSUME NEW i \in S, NEW j \in S, Rank(S, i) = Rank(S, j) PROVE i = j
  <2>1. i \in Int /\ j \in Int
    OBVIOUS
  <2>2. Rank(S, i) \in Int
    BY <1>1, <2>1
  <2>3. ~(i < j) /\ ~(j < i)
    BY <1>1, <1>5, <2>1, <2>2
  <2> QED BY <2>1, <2>3
<1>6. ASSUME NEW k \in 1 .. N, NEW l \in 1 .. N, k < l
      PROVE  Net!Nth(S, k) < Net!Nth(S, l)
  <2> DEFINE i == Net!Nth(S, k)
             j == Net!Nth(S, l)
  <2>1. i \in S /\ j \in S /\ Rank(S, i) = k /\ Rank(S, j) = l
    BY <1>4
  <2> HIDE DEF i, j
  <2>2. i \in Int /\ j \in Int
    BY <2>1
  <2>3. ~(j < i)
    <3>1. j < i => l < k
      BY <1>1, <2>1, <2>2
    <3> QED BY <1>6, <3>1
  <2>4. i # j
    BY <1>6, <2>1
  <2>5. i < j
    BY <2>2, <2>3, <2>4
  <2> QED BY <2>5 DEF i, j
<1>7. ASSUME NEW i \in S PROVE \E k \in 1 .. N : Net!Nth(S, k) = i
  <2>1. Rank(S, i) \in 0 .. N
    BY <1>1
  <2>2. Rank(S, i) # 0
    <3>1. 0 \in Int /\ 0 < i
      OBVIOUS
    <3>2. Rank(S, 0) < Rank(S, i)
      BY <1>1, <3>1
    <3> QED BY <1>2, <3>2
  <2>3. Rank(S, i) \in 1 .. N
    BY <1>1, <2>1, <2>2
  <2>4. Net!Nth(S, Rank(S, i)) = i
    BY <1>4, <1>5, <2>3
  <2> QED BY <2>3, <2>4
<1> QED BY <1>1, <1>4, <1>6, <1>7 DEF N

(* What is chosen of a queue: all that is at the places, in the order of   *)
(* the queue.                                                              *)
Selection(q, S, c) ==
  \E g \in [DOMAIN c -> S] :
    /\ \A k \in DOMAIN c : c[k] = q[g[k]]
    /\ \A k, l \in DOMAIN c : k < l => g[k] < g[l]
    /\ \A i \in S : \E k \in DOMAIN c : g[k] = i

LEMMA ChosenSelects ==
  ASSUME NEW X, NEW q \in Seq(X), NEW S \in SUBSET DOMAIN q
  PROVE  /\ Net!Chosen(q, S) \in Seq(X)
         /\ Selection(q, S, Net!Chosen(q, S))
<1> DEFINE N == Cardinality(S)
           c == Net!Chosen(q, S)
           g == [k \in 1 .. N |-> Net!Nth(S, k)]
<1>1. Len(q) \in Nat /\ S \in SUBSET (1 .. Len(q))
  OBVIOUS
<1>2. /\ N \in Nat
      /\ \A k \in 1 .. N : Net!Nth(S, k) \in S
      /\ \A k, l \in 1 .. N : k < l => Net!Nth(S, k) < Net!Nth(S, l)
      /\ \A i \in S : \E k \in 1 .. N : Net!Nth(S, k) = i
  BY <1>1, NthOfPlaces
<1>3. c = [k \in 1 .. N |-> q[Net!Nth(S, k)]]
  BY DEF Net!Chosen, Net!Cardinality, Cardinality
<1>4. \A k \in 1 .. N : q[Net!Nth(S, k)] \in X
  BY <1>2
<1> HIDE DEF N
<1>5. c \in Seq(X) /\ DOMAIN c = 1 .. N
  BY <1>2, <1>3, <1>4
<1>6. g \in [DOMAIN c -> S]
  BY <1>2, <1>5
<1>7. /\ \A k \in DOMAIN c : c[k] = q[g[k]]
      /\ \A k, l \in DOMAIN c : k < l => g[k] < g[l]
      /\ \A i \in S : \E k \in DOMAIN c : g[k] = i
  BY <1>2, <1>3, <1>5
<1> QED BY <1>5, <1>6, <1>7 DEF Selection

-----------------------------------------------------------------------------
(* Queues.                                                                 *)

NoRepeat(s) == \A i, j \in DOMAIN s : s[i] = s[j] => i = j

DataOf(queue) == [i \in DOMAIN queue |-> queue[i].data]

(* In the order of sending.                                                *)
Ordered(datagrams) ==
  \A i, j \in DOMAIN datagrams :
    i < j /\ datagrams[i].from = datagrams[j].from
      => datagrams[i].n < datagrams[j].n

Datagrams == [from : Peer, to : Peer, n : Nat, at : Nat]

Items == [release : Nat, data : Datagrams]

(* A selection repeats and reorders nothing.                               *)
LEMMA SelectionKeeps ==
  ASSUME NEW q \in Seq(Items), NEW S \in SUBSET DOMAIN q,
         NEW c \in Seq(Items), Selection(q, S, c)
  PROVE  /\ Range(c) = { q[i] : i \in S }
         /\ NoRepeat(DataOf(q)) => NoRepeat(DataOf(c))
         /\ Ordered(DataOf(q)) => Ordered(DataOf(c))
<1>1. PICK g \in [DOMAIN c -> S] :
        /\ \A k \in DOMAIN c : c[k] = q[g[k]]
        /\ \A k, l \in DOMAIN c : k < l => g[k] < g[l]
        /\ \A i \in S : \E k \in DOMAIN c : g[k] = i
  BY DEF Selection
<1>2. Range(c) = { q[i] : i \in S }
  BY <1>1 DEF Range
<1>3. \A k \in DOMAIN c : g[k] \in DOMAIN q /\ DataOf(c)[k] = DataOf(q)[g[k]]
  BY <1>1 DEF DataOf
<1>4. DOMAIN DataOf(c) = DOMAIN c /\ DOMAIN DataOf(q) = DOMAIN q
  BY DEF DataOf
<1>5. \A k, l \in DOMAIN c : g[k] = g[l] => k = l
  <2> SUFFICES ASSUME NEW k \in DOMAIN c, NEW l \in DOMAIN c, g[k] = g[l]
               PROVE  k = l
    OBVIOUS
  <2>1. k \in Int /\ l \in Int /\ g[k] \in Int /\ g[l] \in Int
    BY <1>3
  <2>2. ~(k < l) /\ ~(l < k)
    BY <1>1, <2>1
  <2> QED BY <2>1, <2>2
<1>6. ASSUME NoRepeat(DataOf(q)) PROVE NoRepeat(DataOf(c))
  BY <1>3, <1>4, <1>5, <1>6 DEF NoRepeat
<1>7. ASSUME Ordered(DataOf(q)) PROVE Ordered(DataOf(c))
  BY <1>1, <1>3, <1>4, <1>7 DEF Ordered
<1> QED BY <1>2, <1>6, <1>7

(* What is chosen of a queue.                                              *)
LEMMA ChosenKeeps ==
  ASSUME NEW q \in Seq(Items), NEW S \in SUBSET DOMAIN q
  PROVE  /\ Net!Chosen(q, S) \in Seq(Items)
         /\ Range(Net!Chosen(q, S)) = { q[i] : i \in S }
         /\ NoRepeat(DataOf(q)) => NoRepeat(DataOf(Net!Chosen(q, S)))
         /\ Ordered(DataOf(q)) => Ordered(DataOf(Net!Chosen(q, S)))
<1> DEFINE c == Net!Chosen(q, S)
<1>1. c \in Seq(Items) /\ Selection(q, S, c)
  BY ChosenSelects
<1> HIDE DEF c
<1>2. /\ Range(c) = { q[i] : i \in S }
      /\ NoRepeat(DataOf(q)) => NoRepeat(DataOf(c))
      /\ Ordered(DataOf(q)) => Ordered(DataOf(c))
  BY <1>1, SelectionKeeps
<1> QED BY <1>1, <1>2 DEF c

(* The swap of the first and the last loses and repeats nothing.           *)
LEMMA SwappedKeeps ==
  ASSUME NEW q \in Seq(Items)
  PROVE  /\ Net!Swapped(q) \in Seq(Items)
         /\ Range(Net!Swapped(q)) = Range(q)
         /\ NoRepeat(DataOf(q)) => NoRepeat(DataOf(Net!Swapped(q)))
<1> DEFINE s == Net!Swapped(q)
           f == [k \in DOMAIN q |-> IF k = 1 THEN Len(q) ELSE
                                    IF k = Len(q) THEN 1 ELSE k]
<1>1. CASE ~(Len(q) > 1)
  BY <1>1 DEF Net!Swapped
<1>2. CASE Len(q) > 1
  <2>1. s = [q EXCEPT ![1] = q[Len(q)], ![Len(q)] = q[1]]
    BY <1>2 DEF Net!Swapped
  <2>2. DOMAIN q = 1 .. Len(q) /\ Len(q) \in Nat
    OBVIOUS
  <2>3. f \in [DOMAIN q -> DOMAIN q] /\ \A k \in DOMAIN q : f[f[k]] = k
    BY <1>2, <2>2
  <2>4. DOMAIN s = DOMAIN q /\ \A k \in DOMAIN q : s[k] = q[f[k]]
    BY <1>2, <2>1, <2>2
  <2> HIDE DEF s, f
  <2>5. s \in Seq(Items)
    <3>1. \A k \in 1 .. Len(q) : s[k] \in Items
      BY <2>2, <2>3, <2>4
    <3>2. s = [k \in 1 .. Len(q) |-> s[k]]
      BY <2>1, <2>2, <2>4
    <3> QED BY <2>2, <3>1, <3>2
  <2>6. Range(s) = Range(q)
    <3>1. \A k \in DOMAIN q : f[k] \in DOMAIN q /\ s[f[k]] = q[k]
      BY <2>3, <2>4
    <3>2. \A k \in DOMAIN q : s[k] \in Range(q) /\ q[k] \in Range(s)
      BY <2>3, <2>4, <3>1 DEF Range
    <3> QED BY <2>4, <3>2 DEF Range
  <2>7. ASSUME NoRepeat(DataOf(q)) PROVE NoRepeat(DataOf(s))
    <3>1. /\ DOMAIN DataOf(s) = DOMAIN q /\ DOMAIN DataOf(q) = DOMAIN q
          /\ \A k \in DOMAIN q : DataOf(s)[k] = DataOf(q)[f[k]]
      BY <2>3, <2>4 DEF DataOf
    <3>2. \A k, l \in DOMAIN q : f[k] = f[l] => k = l
      BY <2>3
    <3> QED BY <2>3, <2>7, <3>1, <3>2 DEF NoRepeat
  <2> QED BY <2>5, <2>6, <2>7 DEF s
<1> QED BY <1>1, <1>2

(* One more item at the end of a queue.                                    *)
LEMMA OneMore ==
  ASSUME NEW q \in Seq(Items), NEW item \in Items
  PROVE  /\ q \o <<item>> \in Seq(Items)
         /\ Range(q \o <<item>>) = Range(q) \cup {item}
         /\ NoRepeat(DataOf(q)) /\ (\A e \in Range(q) : e.data # item.data)
              => NoRepeat(DataOf(q \o <<item>>))
         /\ /\ Ordered(DataOf(q))
            /\ \A e \in Range(q) :
                 e.data.from = item.data.from => e.data.n < item.data.n
            => Ordered(DataOf(q \o <<item>>))
<1> DEFINE s == q \o <<item>>
           m == Len(q) + 1
<1>1. /\ s \in Seq(Items) /\ DOMAIN s = 1 .. m /\ DOMAIN q = 1 .. Len(q)
      /\ Len(q) \in Nat /\ s[m] = item /\ \A k \in 1 .. Len(q) : s[k] = q[k]
  OBVIOUS
<1>2. /\ DOMAIN DataOf(s) = 1 .. m /\ DOMAIN DataOf(q) = 1 .. Len(q)
      /\ \A k \in 1 .. Len(q) : DataOf(s)[k] = DataOf(q)[k]
      /\ DataOf(s)[m] = item.data
      /\ \A k \in 1 .. Len(q) : q[k] \in Range(q) /\ DataOf(q)[k] = q[k].data
  BY <1>1 DEF DataOf, Range
<1> HIDE DEF s
<1>3. \A k \in 1 .. m : k \in 1 .. Len(q) \/ k = m
  BY <1>1
<1>4. Range(s) = Range(q) \cup {item}
  <2>1. m \in 1 .. m /\ \A k \in 1 .. Len(q) : k \in 1 .. m
    BY <1>1
  <2> HIDE DEF m
  <2> QED BY <1>1, <1>3, <2>1 DEF Range
<1>5. ASSUME NoRepeat(DataOf(q)), \A e \in Range(q) : e.data # item.data
      PROVE  NoRepeat(DataOf(s))
  <2> SUFFICES ASSUME NEW i \in 1 .. m, NEW j \in 1 .. m,
                      DataOf(s)[i] = DataOf(s)[j]
               PROVE  i = j
    BY <1>2 DEF NoRepeat
  <2> HIDE DEF m
  <2>1. CASE i \in 1 .. Len(q) /\ j \in 1 .. Len(q)
    BY <1>2, <1>5, <2>1 DEF NoRepeat
  <2>2. CASE i \in 1 .. Len(q) /\ j = m
    BY <1>2, <1>5, <2>2
  <2>3. CASE i = m /\ j \in 1 .. Len(q)
    BY <1>2, <1>5, <2>3
  <2> QED BY <1>3, <2>1, <2>2, <2>3
<1>6. ASSUME Ordered(DataOf(q)),
             \A e \in Range(q) :
               e.data.from = item.data.from => e.data.n < item.data.n
      PROVE  Ordered(DataOf(s))
  <2> SUFFICES ASSUME NEW i \in 1 .. m, NEW j \in 1 .. m, i < j,
                      DataOf(s)[i].from = DataOf(s)[j].from
               PROVE  DataOf(s)[i].n < DataOf(s)[j].n
    BY <1>2 DEF Ordered
  <2>1. i \in 1 .. Len(q)
    BY <1>1
  <2> HIDE DEF m
  <2>2. CASE j \in 1 .. Len(q)
    BY <1>2, <1>6, <2>1, <2>2 DEF Ordered
  <2>3. CASE j = m
    BY <1>2, <1>6, <2>1, <2>3
  <2> QED BY <1>3, <2>2, <2>3
<1> QED BY <1>1, <1>4, <1>5, <1>6 DEF s

-----------------------------------------------------------------------------
(* The inductive invariant.                                                *)

(* Who and what there is.                                                  *)
LinkTypes ==
  /\ packetsOf \in [Peer -> Seq(Items)]
  /\ currentSource \in Peer
  /\ now \in Nat
  /\ inbox \in Seq(Datagrams)
  /\ ran \in SUBSET Peer
  /\ sends \in [Peer -> Nat]
  /\ resets \in Nat
  /\ world \in Worlds

(* A turn is of one who had none on this tick, with its own settings, and  *)
(* only in it there is something to look at.  The server numbers its       *)
(* deltas as it sends them.                                                *)
Turns ==
  /\ phase \in {"idle", "running", "handling"}
  /\ phase # "idle" => /\ settings = Net!Validated(world[currentSource])
                       /\ currentSource \notin ran
  /\ phase # "handling" => inbox = << >>
  /\ count = sends[Server]

Longest == Max(LagsOf(Server))

LeastLag(p) == Net!Validated(world[p]).latencyMinimum

(* Nobody sends twice on one tick, so that a datagram is at most as many   *)
(* datagrams behind as it is old.                                          *)
Timely(d) ==
  /\ d.n \in 1 .. sends[d.from]
  /\ d.at <= now
  /\ sends[d.from] - d.n <= now - d.at
  /\ d.from \notin ran => sends[d.from] - d.n < now - d.at

Polled(p) == p \in ran \/ (phase = "handling" /\ currentSource = p)

(* What waits in a queue is for its owner, for whom it is not due but for  *)
(* what was sent since its last turn.                                      *)
Waiting(p, item) ==
  /\ item.data.to = p
  /\ Timely(item.data)
  /\ item.release >= item.data.at + LeastLag(item.data.from)
  /\ item.data.from = Server => item.release <= item.data.at + Longest
  /\ Polled(p) => (item.release > now \/ item.data.at = now)
  /\ ~Polled(p) => (item.release >= now \/ item.data.at + 1 = now)

(* What was received had waited as long as it must and no longer.          *)
Come(d) ==
  /\ d.to = currentSource
  /\ Timely(d)
  /\ now >= d.at + LeastLag(d.from)
  /\ d.from = Server => now - d.at <= Longest

QueuesWait == \A p \in Peer : \A item \in Range(packetsOf[p]) : Waiting(p, item)

InboxCame == \A d \in Range(inbox) : Come(d)

NoneTwice == \A p \in Peer : NoRepeat(DataOf(packetsOf[p]))

NoSwaps == \A p \in Peer : Net!Validated(world[p]).outOfOrder = 0

InOrder ==
  NoSwaps => /\ \A p \in Peer : Ordered(DataOf(packetsOf[p]))
             /\ Ordered(inbox)

Delta(d, n) == d.from = Server /\ d.n = n

(* The delta of this number is on its way to the receiver.                 *)
OnItsWay(n) ==
  \/ \E item \in Range(packetsOf[Receiver]) : Delta(item.data, n)
  \/ /\ currentSource = Receiver
     /\ \E d \in Range(inbox) : Delta(d, n)

Lossless == Net!Validated(world[Server]).lossPerPacket = 0

NoneMissing ==
  resets = 0 /\ Lossless => \A n \in newest + 1 .. count : OnItsWay(n)

LInv ==
  /\ IInv
  /\ LinkTypes
  /\ Turns
  /\ QueuesWait
  /\ InboxCame
  /\ NoneTwice
  /\ InOrder
  /\ NoneMissing

-----------------------------------------------------------------------------
(* Latencies.                                                              *)

(* The server's latencies are less than half the sequence numbers.         *)
LEMMA LongestBounds ==
  ASSUME LinkTypes
  PROVE  /\ Longest \in 1 .. Half - 1
         /\ \A lag \in LagsOf(Server) : lag <= Longest
<1> DEFINE w == world[Server]
           valid == Net!Validated(w)
<1>1. /\ w.latency \subseteq 0 .. Half - 1
      /\ w.latencyMinimum \in Nat /\ w.latencyMinimum < Half
      /\ Half \in Nat /\ Half > 1 /\ w \in Net!Settings
  BY InMemoryLinkAssumption, HalfAssumption DEF LinkTypes, Net!Settings, Peer
<1>2. /\ valid.latency \subseteq 0 .. Half - 1
      /\ valid.latencyMinimum \in 0 .. Half - 1
  <2>1. /\ valid.latency = w.latency
        /\ valid.latencyMinimum \in {w.latencyMinimum, 0}
    BY <1>1 DEF Net!Validated, Net!Settings
  <2> HIDE DEF valid, w
  <2> QED BY <1>1, <2>1
<1> DEFINE S == LagsOf(Server)
<1>3. S \in SUBSET (0 .. Half - 1) /\ 1 \in S
  <2>1. S = { drawn \in valid.latency : drawn > valid.latencyMinimum }
              \cup {valid.latencyMinimum, 1}
    BY DEF LagsOf
  <2> HIDE DEF valid, w, S
  <2> QED BY <1>1, <1>2, <2>1
<1> HIDE DEF S
<1>4. Max(S) \in S /\ \A j \in S : Max(S) >= j
  <2>1. Half - 1 \in Nat
    BY <1>1
  <2> QED BY <1>3, <2>1, MaxOfBounded
<1>5. /\ Max(S) \in 1 .. Half - 1
      /\ \A j \in S : j <= Max(S)
  <2>1. Max(S) \in 0 .. Half - 1 /\ Max(S) >= 1
    BY <1>3, <1>4
  <2>2. \A j \in S : j \in Int
    BY <1>1, <1>3
  <2> HIDE DEF S
  <2> QED BY <1>1, <1>4, <2>1, <2>2
<1> QED BY <1>5 DEF S, Longest

(* The least latency, also when there is none.                             *)
LEMMA LeastLagType ==
  ASSUME LinkTypes, NEW p \in Peer
  PROVE  /\ LeastLag(p) \in Nat
         /\ Net!Validated(world[p]) \in Net!Settings
<1>1. world[p] \in Net!Settings
  BY InMemoryLinkAssumption DEF LinkTypes
<1>2. Net!Validated(world[p]) \in Net!Settings
  BY <1>1 DEF Net!Validated, Net!Settings
<1> QED BY <1>2 DEF LeastLag, Net!Settings

(* What a sender draws is between its least latency and its longest.       *)
LEMMA LagsBetween ==
  ASSUME LinkTypes, settings = Net!Validated(world[currentSource]),
         NEW lag \in Net!Lags
  PROVE  /\ lag \in Nat
         /\ lag >= LeastLag(currentSource)
         /\ currentSource = Server => lag <= Longest
<1>1. settings \in Net!Settings /\ LeastLag(currentSource) = settings.latencyMinimum
  BY LeastLagType DEF LinkTypes, LeastLag
<1>2. settings.latency \subseteq Nat /\ settings.latencyMinimum \in Nat
  BY <1>1 DEF Net!Settings
<1>3. CASE settings.latencyMinimum > 0
  <2>1. PICK drawn \in settings.latency : lag = Net!Lag(drawn)
    BY <1>3 DEF Net!Lags
  <2>2. /\ lag \in Nat /\ lag >= settings.latencyMinimum
        /\ \/ lag = settings.latencyMinimum
           \/ lag = drawn /\ drawn > settings.latencyMinimum
    BY <1>2, <2>1 DEF Net!Lag
  <2>3. currentSource = Server => lag \in LagsOf(Server)
    BY <2>1, <2>2 DEF LagsOf
  <2> QED BY <1>1, <2>2, <2>3, LongestBounds
<1>4. CASE settings.latencyMinimum = 0
  <2>1. lag = 0
    BY <1>4 DEF Net!Lags
  <2>2. Longest \in Nat
    BY LongestBounds, HalfAssumption
  <2> QED BY <1>1, <1>4, <2>1, <2>2
<1> QED BY <1>2, <1>3, <1>4

-----------------------------------------------------------------------------
(* Sending.                                                                *)

Item(release, d) == [release |-> release, data |-> d]

(* Of a batch that names an address once, its queue gets one or none.      *)
LEMMA AddedOnce ==
  ASSUME NEW batch \in Seq(Datagrams), NEW lost \in [DOMAIN batch -> BOOLEAN],
         \A i, j \in DOMAIN batch : batch[i].to = batch[j].to => i = j,
         NEW release \in Nat, NEW p \in Peer
  PROVE  LET added == Net!Added(batch, lost, release, p)
         IN  \/ /\ added = << >>
                /\ \A i \in DOMAIN batch : lost[i] \/ batch[i].to # p
             \/ \E i \in DOMAIN batch :
                  ~lost[i] /\ batch[i].to = p /\ added = <<Item(release, batch[i])>>
<1> DEFINE q == [i \in DOMAIN batch |-> [release |-> release, data |-> batch[i]]]
           S == { i \in DOMAIN batch : ~lost[i] /\ batch[i].to = p }
           a == Net!Chosen(q, S)
<1>1. Net!Added(batch, lost, release, p) = a
  BY DEF Net!Added
<1>2. /\ q \in Seq(Items) /\ DOMAIN q = DOMAIN batch
      /\ \A i \in DOMAIN batch :
           batch[i] \in Datagrams /\ q[i] = Item(release, batch[i])
  <2>1. DOMAIN batch = 1 .. Len(batch) /\ Len(batch) \in Nat
    OBVIOUS
  <2>2. \A i \in DOMAIN batch : batch[i] \in Datagrams
    OBVIOUS
  <2>3. \A i \in DOMAIN batch : Item(release, batch[i]) \in Items
    BY <2>2 DEF Item, Items
  <2>4. q = [i \in 1 .. Len(batch) |-> Item(release, batch[i])]
    BY <2>1 DEF Item
  <2> HIDE DEF q
  <2>5. q \in Seq(Items)
    BY <2>1, <2>3, <2>4
  <2>6. DOMAIN q = DOMAIN batch
    BY <2>1, <2>4
  <2>7. \A i \in DOMAIN batch : q[i] = Item(release, batch[i])
    BY <2>1, <2>4
  <2> QED BY <2>2, <2>5, <2>6, <2>7
<1>3. S \in SUBSET DOMAIN q
  BY <1>2
<1>4. NoRepeat(DataOf(q))
  <2>1. DOMAIN DataOf(q) = DOMAIN batch
        /\ \A i \in DOMAIN batch : DataOf(q)[i] = batch[i]
    BY <1>2 DEF DataOf, Item
  <2> QED BY <2>1 DEF NoRepeat
<1> HIDE DEF q
<1>5. a \in Seq(Items) /\ Range(a) = { q[i] : i \in S } /\ NoRepeat(DataOf(a))
  BY <1>2, <1>3, <1>4, ChosenKeeps
<1>6. CASE S = {}
  <2>1. Range(a) = {}
    BY <1>5, <1>6
  <2> HIDE DEF a
  <2>2. DOMAIN a = {}
    <3>1. \A x \in DOMAIN a : a[x] \in Range(a)
      BY DEF Range
    <3> QED BY <2>1, <3>1
  <2>6. DOMAIN a = 1 .. Len(a) /\ Len(a) \in Nat
    BY <1>5
  <2>3. Len(a) = 0
    <3>1. Len(a) >= 1 => 1 \in DOMAIN a
      BY <2>6
    <3> QED BY <2>2, <2>6, <3>1
  <2>4. a = << >>
    BY <1>5, <2>3
  <2>5. \A i \in DOMAIN batch : lost[i] \/ batch[i].to # p
    BY <1>6
  <2> QED BY <1>1, <2>4, <2>5 DEF a
<1>7. CASE S # {}
  <2>1. PICK i \in S : TRUE
    BY <1>7
  <2>2. S = {i}
    BY <2>1
  <2>3. i \in DOMAIN batch /\ ~lost[i] /\ batch[i].to = p
    BY <2>1
  <2> HIDE DEF a, S
  <2>4. Range(a) = {q[i]}
    BY <1>5, <2>2
  <2>5. \A k \in DOMAIN a : a[k] = q[i]
    BY <2>4 DEF Range
  <2>6. DOMAIN a # {}
    BY <2>4 DEF Range
  <2>7. \A k, l \in DOMAIN a : k = l
    BY <1>5, <2>5 DEF NoRepeat, DataOf
  <2>8. DOMAIN a = 1 .. Len(a) /\ Len(a) \in Nat
    BY <1>5
  <2>9. Len(a) = 1
    <3>1. Len(a) # 0
      BY <2>6, <2>8
    <3>2. ~(Len(a) >= 2)
      <4>1. Len(a) >= 2 => 1 \in DOMAIN a /\ 2 \in DOMAIN a
        BY <2>8
      <4> QED BY <2>7, <4>1
    <3> QED BY <2>8, <3>1, <3>2
  <2>10. a = <<q[i]>>
    BY <1>5, <2>5, <2>8, <2>9
  <2>11. a = <<Item(release, batch[i])>>
    BY <1>2, <2>3, <2>10
  <2> QED BY <1>1, <2>3, <2>11 DEF a
<1> QED BY <1>6, <1>7

(* A batch for all of T: those of R get it, after one latency.             *)
SendsTo(T) ==
  \E lag \in Nat, R \in SUBSET T :
    /\ lag >= LeastLag(currentSource)
    /\ currentSource = Server => lag <= Longest
    /\ settings.lossPerPacket = 0 => R = T
    /\ \A p \in Peer :
         \E more \in Seq(Items) :
           /\ more = IF p \in R
                     THEN packetsOf[p] \o <<Item(now + lag, Datagram(p))>>
                     ELSE packetsOf[p]
           /\ \/ packetsOf'[p] = more
              \/ packetsOf'[p] = Net!Swapped(more) /\ settings.outOfOrder > 0

(* What PrivateSend does with a batch of the same datagram for several.    *)
LEMMA SendsBatch ==
  ASSUME LinkTypes, settings = Net!Validated(world[currentSource]),
         NEW T \in SUBSET Peer, NEW batch \in Seq(Datagrams),
         \A i \in DOMAIN batch : batch[i] = Datagram(batch[i].to) /\ batch[i].to \in T,
         \A i, j \in DOMAIN batch : batch[i].to = batch[j].to => i = j,
         \A p \in T : \E i \in DOMAIN batch : batch[i].to = p,
         Net!PrivateSend(batch)
  PROVE  SendsTo(T) /\ packetsOf' \in [Peer -> Seq(Items)]
<1>1. PICK lag \in Net!Lags, lost \in Net!Losses(batch), swap \in Net!Swaps :
        packetsOf' = [p \in Peer |->
          IF swap THEN Net!Swapped([r \in Peer |->
                         Net!Enqueued(packetsOf[r],
                                      Net!Added(batch, lost, now + lag, r))][p])
          ELSE [r \in Peer |->
                  Net!Enqueued(packetsOf[r],
                               Net!Added(batch, lost, now + lag, r))][p]]
  BY DEF Net!PrivateSend
<1> DEFINE Added(p) == Net!Added(batch, lost, now + lag, p)
           More(p) == packetsOf[p] \o Added(p)
           R == { p \in T : \E i \in DOMAIN batch : ~lost[i] /\ batch[i].to = p }
<1>2. /\ lag \in Nat
      /\ lag >= LeastLag(currentSource)
      /\ currentSource = Server => lag <= Longest
  BY LagsBetween
<1>3. /\ lost \in [DOMAIN batch -> BOOLEAN]
      /\ settings.lossPerPacket = 0 => \A i \in DOMAIN batch : ~lost[i]
  BY DEF Net!Losses
<1>4. swap => settings.outOfOrder > 0
  BY DEF Net!Swaps
<1>6. now + lag \in Nat
  BY <1>2 DEF LinkTypes
<1>7. \A p \in Peer : packetsOf'[p] = IF swap THEN Net!Swapped(More(p)) ELSE More(p)
  BY <1>1 DEF Net!Enqueued
<1>8. DOMAIN packetsOf' = Peer /\ packetsOf' = [p \in Peer |-> packetsOf'[p]]
  BY <1>1
<1>9. R \in SUBSET T /\ (settings.lossPerPacket = 0 => R = T)
  BY <1>3
<1>10. ASSUME NEW p \in Peer
       PROVE  /\ More(p) = IF p \in R
                           THEN packetsOf[p] \o <<Item(now + lag, Datagram(p))>>
                           ELSE packetsOf[p]
              /\ More(p) \in Seq(Items)
  <2>1. packetsOf[p] \in Seq(Items)
    BY DEF LinkTypes
  <2>2. \/ /\ Added(p) = << >>
           /\ \A i \in DOMAIN batch : lost[i] \/ batch[i].to # p
        \/ \E i \in DOMAIN batch :
             ~lost[i] /\ batch[i].to = p /\ Added(p) = <<Item(now + lag, batch[i])>>
    BY <1>3, <1>6, AddedOnce
  <2> HIDE DEF Added
  <2>3. CASE /\ Added(p) = << >>
             /\ \A i \in DOMAIN batch : lost[i] \/ batch[i].to # p
    <3>1. p \notin R
      BY <2>3
    <3>2. More(p) = packetsOf[p]
      BY <2>1, <2>3
    <3> QED BY <2>1, <3>1, <3>2
  <2>4. ASSUME NEW i \in DOMAIN batch, ~lost[i], batch[i].to = p,
               Added(p) = <<Item(now + lag, batch[i])>>
        PROVE  /\ More(p) = IF p \in R
                            THEN packetsOf[p] \o <<Item(now + lag, Datagram(p))>>
                            ELSE packetsOf[p]
               /\ More(p) \in Seq(Items)
    <3>1. p \in R /\ batch[i] = Datagram(p) /\ batch[i] \in Datagrams
      BY <2>4
    <3>2. Item(now + lag, batch[i]) \in Items
      BY <1>6, <3>1 DEF Item, Items
    <3>3. More(p) = packetsOf[p] \o <<Item(now + lag, Datagram(p))>>
      BY <2>4, <3>1
    <3>4. packetsOf[p] \o <<Item(now + lag, Datagram(p))>> \in Seq(Items)
      BY <2>1, <3>1, <3>2
    <3> QED BY <3>1, <3>3, <3>4
  <2> QED BY <2>2, <2>3, <2>4
<1> HIDE DEF More, R
<1>11. packetsOf' \in [Peer -> Seq(Items)]
  <2>1. ASSUME NEW p \in Peer PROVE packetsOf'[p] \in Seq(Items)
    <3>1. More(p) \in Seq(Items)
      BY <1>10
    <3>2. Net!Swapped(More(p)) \in Seq(Items)
      BY <3>1, SwappedKeeps
    <3> QED BY <1>7, <3>1, <3>2
  <2> QED BY <1>8, <2>1
<1>12. \A p \in Peer :
         \E more \in Seq(Items) :
           /\ more = IF p \in R
                     THEN packetsOf[p] \o <<Item(now + lag, Datagram(p))>>
                     ELSE packetsOf[p]
           /\ \/ packetsOf'[p] = more
              \/ packetsOf'[p] = Net!Swapped(more) /\ settings.outOfOrder > 0
  BY <1>4, <1>7, <1>10
<1> QED BY <1>2, <1>9, <1>11, <1>12 DEF SendsTo

(* After a send the queues hold what they held and, for R, one more.       *)
Arrivals(T) ==
  \E lag \in Nat, R \in SUBSET T :
    /\ lag >= LeastLag(currentSource)
    /\ currentSource = Server => lag <= Longest
    /\ settings.lossPerPacket = 0 => R = T
    /\ \A p \in Peer :
         /\ Range(packetsOf'[p]) =
              Range(packetsOf[p])
                \cup IF p \in R THEN {Item(now + lag, Datagram(p))} ELSE {}
         /\ NoRepeat(DataOf(packetsOf'[p]))
         /\ NoSwaps => Ordered(DataOf(packetsOf'[p]))

(* What a sender sends has a number that nothing of it in a queue has.     *)
LEMMA SendArrives ==
  ASSUME LInv, phase = "handling", NEW T \in SUBSET Peer, SendsTo(T)
  PROVE  Arrivals(T)
<1>1. LinkTypes /\ Turns /\ QueuesWait /\ NoneTwice /\ InOrder
  BY DEF LInv
<1>2. PICK lag \in Nat, R \in SUBSET T :
        /\ lag >= LeastLag(currentSource)
        /\ currentSource = Server => lag <= Longest
        /\ settings.lossPerPacket = 0 => R = T
        /\ \A p \in Peer :
             \E more \in Seq(Items) :
               /\ more = IF p \in R
                         THEN packetsOf[p] \o <<Item(now + lag, Datagram(p))>>
                         ELSE packetsOf[p]
               /\ \/ packetsOf'[p] = more
                  \/ packetsOf'[p] = Net!Swapped(more) /\ settings.outOfOrder > 0
  BY DEF SendsTo
<1>3. ASSUME NEW p \in Peer
      PROVE  /\ Range(packetsOf'[p]) =
                  Range(packetsOf[p])
                    \cup IF p \in R THEN {Item(now + lag, Datagram(p))} ELSE {}
             /\ NoRepeat(DataOf(packetsOf'[p]))
             /\ NoSwaps => Ordered(DataOf(packetsOf'[p]))
  <2> DEFINE q == packetsOf[p]
             item == Item(now + lag, Datagram(p))
  <2>1. PICK more \in Seq(Items) :
          /\ more = IF p \in R THEN q \o <<item>> ELSE q
          /\ \/ packetsOf'[p] = more
             \/ packetsOf'[p] = Net!Swapped(more) /\ settings.outOfOrder > 0
    BY <1>2
  <2>2. /\ q \in Seq(Items) /\ NoRepeat(DataOf(q))
        /\ NoSwaps => Ordered(DataOf(q))
        /\ \A e \in Range(q) : e \in Items /\ Timely(e.data)
    <3>1. q \in Seq(Items)
      BY <1>1 DEF LinkTypes
    <3>2. \A e \in Range(q) : e \in Items
      BY <3>1 DEF Range
    <3>3. \A e \in Range(q) : Timely(e.data)
      BY <1>1 DEF QueuesWait, Waiting
    <3> QED BY <1>1, <3>1, <3>2, <3>3 DEF NoneTwice, InOrder
  <2>3. /\ currentSource \in Peer /\ sends[currentSource] \in Nat
        /\ now \in Nat /\ now + lag \in Nat
    BY <1>1 DEF LinkTypes
  <2>4. item \in Items /\ item.data = Datagram(p)
    BY <2>3 DEF Item, Items, Datagram, Datagrams
  <2>5. /\ Datagram(p).from = currentSource
        /\ Datagram(p).n = sends[currentSource] + 1
    BY DEF Datagram
  <2>6. ASSUME NEW e \in Range(q), e.data.from = currentSource
        PROVE  e.data.n < item.data.n
    <3>1. e.data.n \in 1 .. sends[currentSource]
      BY <2>2, <2>6 DEF Timely
    <3> QED BY <2>3, <2>4, <2>5, <3>1
  <2>7. \A e \in Range(q) : e.data # item.data
    <3> SUFFICES ASSUME NEW e \in Range(q), e.data = item.data PROVE FALSE
      OBVIOUS
    <3>1. e.data.from = currentSource /\ e.data.n = item.data.n
      BY <2>4, <2>5
    <3>2. e.data.n < item.data.n /\ item.data.n \in Nat
      BY <2>3, <2>4, <2>5, <2>6, <3>1
    <3> QED BY <3>1, <3>2
  <2>8. \A e \in Range(q) :
          e.data.from = item.data.from => e.data.n < item.data.n
    BY <2>4, <2>5, <2>6
  <2> HIDE DEF q, item
  <2>9. /\ Range(more) = Range(q) \cup IF p \in R THEN {item} ELSE {}
        /\ NoRepeat(DataOf(more))
        /\ NoSwaps => Ordered(DataOf(more))
    <3>1. CASE p \notin R
      BY <2>1, <2>2, <3>1
    <3>2. CASE p \in R
      <4>1. more = q \o <<item>>
        BY <2>1, <3>2
      <4> QED BY <2>2, <2>4, <2>7, <2>8, <3>2, <4>1, OneMore
    <3> QED BY <3>1, <3>2
  <2>10. CASE packetsOf'[p] = more
    BY <2>9, <2>10 DEF q, item
  <2>11. CASE packetsOf'[p] = Net!Swapped(more) /\ settings.outOfOrder > 0
    <3>1. ~NoSwaps
      <4>1. settings = Net!Validated(world[currentSource])
        BY <1>1 DEF Turns
      <4>2. NoSwaps => settings.outOfOrder = 0
        BY <2>3, <4>1 DEF NoSwaps
      <4> QED BY <2>11, <4>2
    <3>2. /\ Range(packetsOf'[p]) = Range(more)
          /\ NoRepeat(DataOf(packetsOf'[p]))
      BY <2>9, <2>11, SwappedKeeps
    <3> QED BY <2>9, <3>1, <3>2 DEF q, item
  <2> QED BY <2>1, <2>10, <2>11
<1> QED BY <1>2, <1>3 DEF Arrivals

(* A send leaves the queues as the invariant says.                         *)
LEMMA SendKeeps ==
  ASSUME LInv, phase = "handling", inbox = << >>,
         NEW T \in SUBSET Peer, SendsTo(T), packetsOf' \in [Peer -> Seq(Items)],
         Sent, Done, UNCHANGED <<currentSource, now, inbox, resets, world>>
  PROVE  /\ LinkTypes'
         /\ QueuesWait'
         /\ InboxCame'
         /\ NoneTwice'
         /\ InOrder'
<1>1. LinkTypes /\ Turns /\ QueuesWait /\ NoneTwice /\ InOrder
  BY DEF LInv
<1>2. PICK lag \in Nat, R \in SUBSET T :
        /\ lag >= LeastLag(currentSource)
        /\ currentSource = Server => lag <= Longest
        /\ \A p \in Peer :
             /\ Range(packetsOf'[p]) =
                  Range(packetsOf[p])
                    \cup IF p \in R THEN {Item(now + lag, Datagram(p))} ELSE {}
             /\ NoRepeat(DataOf(packetsOf'[p]))
             /\ NoSwaps => Ordered(DataOf(packetsOf'[p]))
  <2>1. Arrivals(T)
    BY SendArrives
  <2> QED BY <2>1 DEF Arrivals
<1>3. /\ currentSource \in Peer /\ currentSource \notin ran
      /\ ran \in SUBSET Peer /\ now \in Nat /\ sends \in [Peer -> Nat]
      /\ ran' = ran \cup {currentSource} /\ phase' = "idle"
      /\ sends' = [sends EXCEPT ![currentSource] = @ + 1]
      /\ currentSource' = currentSource /\ now' = now /\ inbox' = << >>
      /\ resets' = resets /\ world' = world
  BY <1>1 DEF LinkTypes, Turns, Sent, Done
<1>4. LinkTypes'
  <2>1. sends' \in [Peer -> Nat]
    BY <1>3
  <2> QED BY <1>1, <1>3, <2>1 DEF LinkTypes
<1>5. Longest' = Longest /\ \A p \in Peer : LeastLag(p)' = LeastLag(p)
  BY <1>3 DEF Longest, LagsOf, LeastLag
<1>6. \A p \in Peer : Polled(p)' <=> Polled(p)
  BY <1>3 DEF Polled
<1>7. ASSUME NEW d \in Datagrams, Timely(d) PROVE Timely(d)'
  <2>1. d.from \in Peer /\ d.n \in Nat /\ d.at \in Nat
    BY DEF Datagrams
  <2>2. CASE d.from = currentSource
    <3>1. sends'[d.from] = sends[d.from] + 1 /\ d.from \in ran' /\ d.from \notin ran
      BY <1>3, <2>2
    <3>2. sends[d.from] \in Nat
      BY <1>3, <2>1
    <3> QED BY <1>3, <1>7, <2>1, <3>1, <3>2 DEF Timely
  <2>3. CASE d.from # currentSource
    <3>1. sends'[d.from] = sends[d.from] /\ (d.from \in ran' <=> d.from \in ran)
      BY <1>3, <2>1, <2>3
    <3> QED BY <1>3, <1>7, <3>1 DEF Timely
  <2> QED BY <2>2, <2>3
<1>8. ASSUME NEW p \in Peer, NEW item \in Items, Waiting(p, item)
      PROVE  Waiting(p, item)'
  <2>1. item.data \in Datagrams /\ item.data.from \in Peer
    BY DEF Items, Datagrams
  <2>2. Timely(item.data)'
    BY <1>7, <1>8, <2>1 DEF Waiting
  <2> QED BY <1>3, <1>5, <1>6, <1>8, <2>1, <2>2 DEF Waiting
<1>9. ASSUME NEW p \in Peer, NEW item, item = Item(now + lag, Datagram(p))
      PROVE  Waiting(p, item)'
  <2>1. /\ item.release = now + lag /\ item.data.from = currentSource
        /\ item.data.to = p /\ item.data.n = sends[currentSource] + 1
        /\ item.data.at = now
    BY <1>9 DEF Item, Datagram
  <2>2. /\ sends[currentSource] \in Nat
        /\ sends'[currentSource] = sends[currentSource] + 1
        /\ currentSource \in ran'
    BY <1>3
  <2>3. Timely(item.data)'
    BY <1>3, <2>1, <2>2 DEF Timely
  <2>4. LeastLag(currentSource) \in Nat /\ Longest \in Nat
    BY <1>1, <1>3, LeastLagType, LongestBounds, HalfAssumption
  <2>5. now + lag >= now + LeastLag(currentSource) /\ now + lag >= now
    BY <1>2, <1>3, <2>4
  <2>6. currentSource = Server => now + lag <= now + Longest
    BY <1>2, <1>3, <2>4
  <2> QED BY <1>3, <1>5, <2>1, <2>3, <2>5, <2>6 DEF Waiting
<1>10. QueuesWait'
  <2> SUFFICES ASSUME NEW p \in Peer, NEW item \in Range(packetsOf'[p])
               PROVE  Waiting(p, item)'
    BY DEF QueuesWait
  <2>1. CASE item \in Range(packetsOf[p])
    <3>1. item \in Items
      BY <1>1, <2>1 DEF LinkTypes, Range
    <3> QED BY <1>1, <1>8, <2>1, <3>1 DEF QueuesWait
  <2>2. CASE item = Item(now + lag, Datagram(p))
    BY <1>9, <2>2
  <2> QED BY <1>2, <2>1, <2>2
<1>11. InboxCame'
  <2>1. Range(inbox') = {}
    BY <1>3 DEF Range
  <2> QED BY <2>1 DEF InboxCame
<1>12. NoneTwice'
  BY <1>2 DEF NoneTwice
<1>13. InOrder'
  <2>1. NoSwaps' <=> NoSwaps
    BY <1>3 DEF NoSwaps
  <2>2. Ordered(inbox')
    BY <1>3 DEF Ordered
  <2> QED BY <1>2, <2>1, <2>2 DEF InOrder
<1> QED BY <1>4, <1>10, <1>11, <1>12, <1>13

-----------------------------------------------------------------------------
(* Receiving.                                                              *)

(* What is due leaves the queue of the caller and is handed to it.         *)
Takes ==
  LET q == packetsOf[currentSource]
  IN  /\ \A p \in Peer \ {currentSource} : packetsOf'[p] = packetsOf[p]
      /\ Range(packetsOf'[currentSource]) = { e \in Range(q) : ~(e.release <= now) }
      /\ NoRepeat(DataOf(packetsOf'[currentSource]))
      /\ NoSwaps => Ordered(DataOf(packetsOf'[currentSource]))
      /\ Range(inbox') = { e.data : e \in { e \in Range(q) : e.release <= now } }
      /\ NoSwaps => Ordered(inbox')

(* PrivateReceive keeps the order, of what it returns and of what stays.   *)
LEMMA PollTakes ==
  ASSUME LInv, Poll
  PROVE  /\ packetsOf' \in [Peer -> Seq(Items)]
         /\ inbox' \in Seq(Datagrams)
         /\ Takes
<1> DEFINE q == packetsOf[currentSource]
           D == { i \in DOMAIN q : q[i].release <= now }
           K == { i \in DOMAIN q : ~(q[i].release <= now) }
           due == Net!Chosen(q, D)
           kept == Net!Chosen(q, K)
<1>1. LinkTypes /\ NoneTwice /\ InOrder
  BY DEF LInv
<1>2. /\ packetsOf \in [Peer -> Seq(Items)] /\ currentSource \in Peer
      /\ q \in Seq(Items) /\ NoRepeat(DataOf(q))
      /\ NoSwaps => Ordered(DataOf(q))
  BY <1>1 DEF LinkTypes, NoneTwice, InOrder
<1>3. /\ packetsOf' = [packetsOf EXCEPT ![currentSource] = kept]
      /\ inbox' = [i \in DOMAIN due |-> due[i].data]
  BY DEF Poll, Net!PrivateReceive, Net!Received, Net!Kept, Net!Due
<1>4. D \in SUBSET DOMAIN q /\ K \in SUBSET DOMAIN q
  OBVIOUS
<1>5. /\ due \in Seq(Items)
      /\ Range(due) = { q[i] : i \in D }
      /\ NoSwaps => Ordered(DataOf(due))
  BY <1>2, <1>4, ChosenKeeps
<1>6. /\ kept \in Seq(Items)
      /\ Range(kept) = { q[i] : i \in K }
      /\ NoRepeat(DataOf(kept))
      /\ NoSwaps => Ordered(DataOf(kept))
  BY <1>2, <1>4, ChosenKeeps
<1>7. { q[i] : i \in D } = { e \in Range(q) : e.release <= now }
  BY DEF Range
<1>8. { q[i] : i \in K } = { e \in Range(q) : ~(e.release <= now) }
  BY DEF Range
<1> HIDE DEF due, kept, D, K
<1>9. inbox' = DataOf(due) /\ DOMAIN inbox' = DOMAIN due
  BY <1>3 DEF DataOf
<1>10. inbox' \in Seq(Datagrams)
  <2>1. DOMAIN due = 1 .. Len(due) /\ Len(due) \in Nat
    BY <1>5
  <2>2. \A i \in DOMAIN due : due[i].data \in Datagrams
    <3>1. \A i \in DOMAIN due : due[i] \in Items
      BY <1>5
    <3> QED BY <3>1 DEF Items
  <2>3. inbox' = [i \in 1 .. Len(due) |-> due[i].data]
    BY <1>3, <2>1
  <2> QED BY <2>1, <2>2, <2>3
<1>11. Range(inbox') = { e.data : e \in Range(due) }
  <2>1. \A i \in DOMAIN due : inbox'[i] = due[i].data
    BY <1>3
  <2> QED BY <1>9, <2>1 DEF Range
<1>12. packetsOf' \in [Peer -> Seq(Items)] /\ packetsOf'[currentSource] = kept
       /\ \A p \in Peer \ {currentSource} : packetsOf'[p] = packetsOf[p]
  BY <1>2, <1>3, <1>6
<1>13. Takes
  <2>1. Range(inbox') = { e.data : e \in { e \in Range(q) : e.release <= now } }
    BY <1>5, <1>7, <1>11
  <2>2. Range(packetsOf'[currentSource]) = { e \in Range(q) : ~(e.release <= now) }
    BY <1>6, <1>8, <1>12
  <2>3. /\ NoRepeat(DataOf(packetsOf'[currentSource]))
        /\ NoSwaps => Ordered(DataOf(packetsOf'[currentSource]))
        /\ NoSwaps => Ordered(inbox')
    BY <1>5, <1>6, <1>9, <1>12
  <2> QED BY <1>12, <2>1, <2>2, <2>3 DEF Takes
<1> QED BY <1>10, <1>12, <1>13

(* Receiving leaves the queues and what was received as the invariant says.*)
LEMMA PollKeeps ==
  ASSUME LInv, Poll
  PROVE  /\ LinkTypes'
         /\ QueuesWait'
         /\ InboxCame'
         /\ NoneTwice'
         /\ InOrder'
<1>1. LinkTypes /\ Turns /\ QueuesWait /\ NoneTwice /\ InOrder
  BY DEF LInv
<1>2. /\ packetsOf' \in [Peer -> Seq(Items)] /\ inbox' \in Seq(Datagrams)
      /\ Takes
  BY PollTakes
<1>3. /\ phase = "running" /\ phase' = "handling"
      /\ UNCHANGED <<currentSource, now, ran, sends, resets, world>>
      /\ currentSource \in Peer /\ currentSource \notin ran /\ now \in Nat
  BY <1>1 DEF LinkTypes, Turns, Poll, Net!PrivateReceive
<1>4. LinkTypes'
  BY <1>1, <1>2, <1>3 DEF LinkTypes
<1>5. /\ Longest' = Longest /\ (\A p \in Peer : LeastLag(p)' = LeastLag(p))
      /\ NoSwaps' = NoSwaps
  BY <1>3 DEF Longest, LagsOf, LeastLag, NoSwaps
<1>6. \A d : Timely(d)' <=> Timely(d)
  BY <1>3 DEF Timely
<1>7. /\ ~Polled(currentSource) /\ Polled(currentSource)'
      /\ \A p \in Peer \ {currentSource} : Polled(p)' <=> Polled(p)
  BY <1>3 DEF Polled
<1>8. \A p \in Peer : packetsOf[p] \in Seq(Items)
  BY <1>1 DEF LinkTypes
<1>9. ASSUME NEW p \in Peer, NEW e \in Range(packetsOf[p])
      PROVE  /\ e \in Items /\ e.release \in Nat /\ e.data \in Datagrams
             /\ e.data.at \in Nat /\ e.data.from \in Peer
             /\ Waiting(p, e)
  <2>1. e \in Items
    BY <1>8 DEF Range
  <2>2. Waiting(p, e)
    BY <1>1 DEF QueuesWait
  <2> QED BY <2>1, <2>2 DEF Items, Datagrams
<1>10. QueuesWait'
  <2> SUFFICES ASSUME NEW p \in Peer, NEW item \in Range(packetsOf'[p])
               PROVE  Waiting(p, item)'
    BY DEF QueuesWait
  <2>1. CASE p # currentSource
    <3>1. item \in Range(packetsOf[p])
      BY <1>2, <2>1 DEF Takes
    <3> QED BY <1>3, <1>5, <1>6, <1>7, <1>9, <2>1, <3>1 DEF Waiting
  <2>2. CASE p = currentSource
    <3>1. item \in Range(packetsOf[p]) /\ ~(item.release <= now)
      BY <1>2, <2>2 DEF Takes
    <3>2. item.release > now
      BY <1>3, <1>9, <3>1
    <3> QED BY <1>3, <1>5, <1>6, <1>7, <1>9, <2>2, <3>1, <3>2 DEF Waiting
  <2> QED BY <2>1, <2>2
<1>11. InboxCame'
  <2> SUFFICES ASSUME NEW d \in Range(inbox') PROVE Come(d)'
    BY DEF InboxCame
  <2>1. PICK e \in Range(packetsOf[currentSource]) : e.release <= now /\ d = e.data
    BY <1>2 DEF Takes
  <2>2. /\ e.release \in Nat /\ e.data.at \in Nat /\ e.data.from \in Peer
        /\ Waiting(currentSource, e)
    BY <1>3, <1>9
  <2>3. /\ LeastLag(e.data.from) \in Nat /\ Longest \in Nat /\ Longest >= 1
    BY <1>1, <2>2, LeastLagType, LongestBounds, HalfAssumption
  <2>4. now >= d.at + LeastLag(d.from)
    BY <1>3, <2>1, <2>2, <2>3 DEF Waiting
  <2>5. e.release >= now \/ e.data.at + 1 = now
    BY <1>7, <2>2 DEF Waiting
  <2>6. d.from = Server => now - d.at <= Longest
    BY <1>3, <2>1, <2>2, <2>3, <2>5 DEF Waiting
  <2>7. d.to = currentSource /\ Timely(d)
    BY <2>1, <2>2 DEF Waiting
  <2> QED BY <1>3, <1>5, <1>6, <2>1, <2>2, <2>4, <2>6, <2>7 DEF Come
<1>12. NoneTwice'
  BY <1>1, <1>2, <1>3 DEF NoneTwice, Takes
<1>13. InOrder'
  BY <1>1, <1>2, <1>3, <1>5 DEF InOrder, Takes
<1> QED BY <1>4, <1>10, <1>11, <1>12, <1>13

-----------------------------------------------------------------------------
(* The steps.                                                              *)

(* What both senders do.                                                   *)
SendStep(T) ==
  /\ phase = "handling"
  /\ inbox = << >>
  /\ SendsTo(T)
  /\ packetsOf' \in [Peer -> Seq(Items)]
  /\ Sent
  /\ Done
  /\ UNCHANGED <<currentSource, now, inbox, resets, world>>

(* The server sends to both clients.                                       *)
LEMMA ServerSendStep ==
  ASSUME LInv, ServerSends PROVE SendStep({Receiver, Bystander})
<1> DEFINE batch == <<Datagram(Receiver), Datagram(Bystander)>>
           T == {Receiver, Bystander}
<1>1. LinkTypes /\ Turns
  BY DEF LInv
<1>2. /\ phase = "handling" /\ inbox = << >> /\ Sent /\ Done
      /\ UNCHANGED <<currentSource, now, inbox, resets, world>>
      /\ Net!PrivateSend(batch)
  BY DEF ServerSends, MaySend, Net!PrivateSend
<1>3. settings = Net!Validated(world[currentSource])
  BY <1>1, <1>2 DEF Turns
<1>4. T \in SUBSET Peer
  BY DEF Peer
<1>5. \A p \in Peer : Datagram(p) \in Datagrams /\ Datagram(p).to = p
  BY <1>1 DEF LinkTypes, Datagram, Datagrams
<1>6. /\ batch \in Seq(Datagrams)
      /\ DOMAIN batch = 1 .. 2
      /\ batch[1] = Datagram(Receiver) /\ batch[2] = Datagram(Bystander)
  BY <1>4, <1>5
<1> HIDE DEF batch
<1>7. \A i \in DOMAIN batch : i = 1 \/ i = 2
  BY <1>6
<1>8. /\ \A i \in DOMAIN batch :
           batch[i] = Datagram(batch[i].to) /\ batch[i].to \in T
      /\ batch[1].to = Receiver /\ batch[2].to = Bystander
  BY <1>4, <1>5, <1>6, <1>7
<1>9. \A i, j \in DOMAIN batch : batch[i].to = batch[j].to => i = j
  BY <1>7, <1>8, InMemoryLinkAssumption
<1>10. \A p \in T : \E i \in DOMAIN batch : batch[i].to = p
  BY <1>6, <1>8
<1> HIDE DEF T
<1>11. SendsTo(T) /\ packetsOf' \in [Peer -> Seq(Items)]
  BY <1>1, <1>2, <1>3, <1>4, <1>6, <1>8, <1>9, <1>10, SendsBatch
<1> QED BY <1>2, <1>11 DEF SendStep, T

(* A client sends to the server.                                           *)
LEMMA ClientSendStep ==
  ASSUME LInv, ClientSends PROVE SendStep({Server})
<1> DEFINE batch == <<Datagram(Server)>>
           T == {Server}
<1>1. LinkTypes /\ Turns
  BY DEF LInv
<1>2. /\ phase = "handling" /\ inbox = << >> /\ Sent /\ Done
      /\ UNCHANGED <<currentSource, now, inbox, resets, world>>
      /\ Net!PrivateSend(batch)
  BY DEF ClientSends, MaySend, Net!PrivateSend
<1>3. settings = Net!Validated(world[currentSource])
  BY <1>1, <1>2 DEF Turns
<1>4. T \in SUBSET Peer
  BY DEF Peer
<1>5. \A p \in Peer : Datagram(p) \in Datagrams /\ Datagram(p).to = p
  BY <1>1 DEF LinkTypes, Datagram, Datagrams
<1>6. batch \in Seq(Datagrams) /\ DOMAIN batch = {1} /\ batch[1] = Datagram(Server)
  BY <1>4, <1>5
<1> HIDE DEF batch
<1>7. /\ \A i \in DOMAIN batch :
           batch[i] = Datagram(batch[i].to) /\ batch[i].to \in T
      /\ batch[1].to = Server
  BY <1>4, <1>5, <1>6
<1>8. \A i, j \in DOMAIN batch : batch[i].to = batch[j].to => i = j
  BY <1>6
<1>9. \A p \in T : \E i \in DOMAIN batch : batch[i].to = p
  BY <1>6, <1>7
<1> HIDE DEF T
<1>10. SendsTo(T) /\ packetsOf' \in [Peer -> Seq(Items)]
  BY <1>1, <1>2, <1>3, <1>4, <1>6, <1>7, <1>8, <1>9, SendsBatch
<1> QED BY <1>2, <1>10 DEF SendStep, T

(* Looking at the first datagram leaves the others in their order.         *)
LEMMA TailKeeps ==
  ASSUME NEW s \in Seq(Datagrams), s # << >>
  PROVE  /\ Tail(s) \in Seq(Datagrams)
         /\ Head(s) \in Range(s)
         /\ Range(Tail(s)) \subseteq Range(s)
         /\ \A d \in Range(s) : d = Head(s) \/ d \in Range(Tail(s))
         /\ Ordered(s) => Ordered(Tail(s))
<1> DEFINE t == Tail(s)
<1>1. /\ DOMAIN s = 1 .. Len(s) /\ Len(s) \in Nat /\ Len(s) >= 1 /\ Head(s) = s[1]
      /\ t \in Seq(Datagrams) /\ DOMAIN t = 1 .. (Len(s) - 1)
      /\ \A k \in 1 .. (Len(s) - 1) : t[k] = s[k + 1]
  OBVIOUS
<1> HIDE DEF t
<1>2. Head(s) \in Range(s)
  BY <1>1 DEF Range
<1>3. \A k \in DOMAIN t : k + 1 \in DOMAIN s /\ t[k] = s[k + 1]
  BY <1>1
<1>4. Range(t) \subseteq Range(s)
  BY <1>3 DEF Range
<1>5. ASSUME NEW d \in Range(s) PROVE d = Head(s) \/ d \in Range(t)
  <2>1. PICK k \in 1 .. Len(s) : d = s[k]
    BY <1>1 DEF Range
  <2>2. CASE k = 1
    BY <1>1, <2>1, <2>2
  <2>3. CASE k # 1
    <3>1. k - 1 \in DOMAIN t /\ t[k - 1] = s[k]
      BY <1>1, <2>3
    <3> QED BY <2>1, <3>1 DEF Range
  <2> QED BY <2>2, <2>3
<1>6. ASSUME Ordered(s) PROVE Ordered(t)
  <2> SUFFICES ASSUME NEW i \in DOMAIN t, NEW j \in DOMAIN t,
                      i < j, t[i].from = t[j].from
               PROVE  t[i].n < t[j].n
    BY DEF Ordered
  <2>1. i + 1 \in DOMAIN s /\ j + 1 \in DOMAIN s /\ i + 1 < j + 1
    BY <1>1
  <2> QED BY <1>3, <1>6, <2>1 DEF Ordered
<1> QED BY <1>1, <1>2, <1>4, <1>5, <1>6 DEF t

(* The steps that leave the clock, the datagrams and who polled alone.     *)
Still ==
  /\ UNCHANGED <<now, sends, world>>
  /\ ran \subseteq ran'
  /\ \A p \in Peer : Polled(p)' <=> Polled(p)

(* The part of the invariant that is about datagrams.                      *)
Kept == LinkTypes /\ QueuesWait /\ InboxCame /\ NoneTwice /\ InOrder

(* They keep the queues and the inbox, or empty them.                      *)
LEMMA StillKeeps ==
  ASSUME LInv, Still,
         packetsOf' \in [Peer -> Seq(Items)],
         \A p \in Peer : packetsOf'[p] \in {packetsOf[p], << >>},
         inbox' = inbox \/ inbox' = << >> \/ inbox' = Tail(inbox),
         inbox' # << >> => inbox # << >> /\ currentSource' = currentSource,
         currentSource' \in Peer, resets' \in Nat, ran' \in SUBSET Peer
  PROVE  Kept'
<1>1. LinkTypes /\ QueuesWait /\ InboxCame /\ NoneTwice /\ InOrder
  BY DEF LInv
<1>2. /\ Longest' = Longest /\ (\A p \in Peer : LeastLag(p)' = LeastLag(p))
      /\ NoSwaps' = NoSwaps /\ now' = now /\ sends' = sends /\ world' = world
      /\ \A p \in Peer : Polled(p)' <=> Polled(p)
  BY DEF Still, Longest, LagsOf, LeastLag, NoSwaps
<1>3. \A d : Timely(d) => Timely(d)'
  BY DEF Still, Timely
<1>4. \A p \in Peer : packetsOf[p] \in Seq(Items)
  BY <1>1 DEF LinkTypes
<1>5. /\ Range(<< >>) = {} /\ NoRepeat(DataOf(<< >>)) /\ Ordered(DataOf(<< >>))
      /\ Ordered(<< >>)
  BY DEF Range, NoRepeat, DataOf, Ordered
<1>6. /\ inbox' \in Seq(Datagrams)
      /\ Range(inbox') \subseteq Range(inbox)
      /\ Ordered(inbox) => Ordered(inbox')
  <2>1. inbox \in Seq(Datagrams)
    BY <1>1 DEF LinkTypes
  <2>2. CASE inbox' = << >>
    BY <1>5, <2>2
  <2>3. CASE inbox' = inbox
    BY <2>1, <2>3
  <2>4. CASE inbox' # << >> /\ inbox' = Tail(inbox)
    BY <2>1, <2>4, TailKeeps
  <2> QED BY <2>2, <2>3, <2>4
<1>7. LinkTypes'
  BY <1>1, <1>2, <1>6 DEF LinkTypes
<1>8. QueuesWait'
  <2> SUFFICES ASSUME NEW p \in Peer, NEW item \in Range(packetsOf'[p])
               PROVE  Waiting(p, item)'
    BY DEF QueuesWait
  <2>1. item \in Range(packetsOf[p])
    BY <1>5
  <2>2. item \in Items /\ item.data.from \in Peer
    <3>1. item \in Items
      BY <1>4, <2>1 DEF Range
    <3> QED BY <3>1 DEF Items, Datagrams
  <2>3. Waiting(p, item)
    BY <1>1, <2>1 DEF QueuesWait
  <2> QED BY <1>2, <1>3, <2>2, <2>3 DEF Waiting
<1>9. NoneTwice'
  BY <1>1, <1>5 DEF NoneTwice
<1>10. InOrder'
  BY <1>1, <1>2, <1>5, <1>6 DEF InOrder
<1>11. InboxCame'
  <2> SUFFICES ASSUME NEW d \in Range(inbox') PROVE Come(d)'
    BY DEF InboxCame
  <2>1. d \in Range(inbox) /\ currentSource' = currentSource
    BY <1>5, <1>6
  <2>2. d \in Datagrams
    BY <1>1, <2>1 DEF LinkTypes, Range
  <2>3. Come(d) /\ d.from \in Peer
    BY <1>1, <2>1, <2>2 DEF InboxCame, Datagrams
  <2> QED BY <1>2, <1>3, <2>1, <2>3 DEF Come
<1> QED BY <1>7, <1>8, <1>9, <1>10, <1>11 DEF Kept

(* The filter under the link makes its own steps: what the receiver looks  *)
(* at from the server is in time.                                          *)
LEMMA FilterStep == LInv /\ [LinkNext]_allVars => [Next]_vars
<1> SUFFICES ASSUME LInv, [LinkNext]_allVars PROVE [Next]_vars
  OBVIOUS
<1>1. CASE Handle
  <2> DEFINE d == Head(inbox)
  <2>1. /\ LinkTypes /\ Turns /\ Come(d)
    <3>1. inbox # << >> /\ inbox \in Seq(Datagrams) /\ InboxCame
      BY <1>1 DEF LInv, LinkTypes, Handle
    <3>2. d \in Range(inbox)
      BY <3>1 DEF Range
    <3> QED BY <3>1, <3>2 DEF LInv, InboxCame
  <2>2. ASSUME d.from = Server, Deliver(d.n) PROVE Next
    <3>1. /\ d.n \in 1 .. count /\ d.at <= now /\ count - d.n <= now - d.at
          /\ now - d.at <= Longest
      BY <2>1, <2>2 DEF Come, Timely, Turns
    <3>2. Longest \in 1 .. Half - 1 /\ Half \in Nat /\ count \in Nat
      BY <2>1, LongestBounds, HalfAssumption, MaxCountAssumption
         DEF LInv, IInv, TypeOK
    <3>3. inbox \in Seq(Datagrams) /\ inbox # << >> /\ now \in Nat
      BY <1>1, <2>1 DEF LinkTypes, Handle
    <3>4. d.at \in Nat
      <4>1. d \in Datagrams
        BY <3>3
      <4> QED BY <4>1 DEF Datagrams
    <3> HIDE DEF d
    <3>5. d.n \in InTime
      BY <3>1, <3>2, <3>3, <3>4 DEF InTime
    <3> QED BY <2>2, <3>5 DEF Next
  <2> QED BY <1>1, <2>2 DEF Handle
<1>2. CASE ServerSends
  BY <1>2 DEF ServerSends, Next
<1>3. CASE \E p \in Peer : Turn(p)
  BY <1>3 DEF Turn
<1>4. CASE Poll
  BY <1>4 DEF Poll
<1>5. CASE Skip
  BY <1>5 DEF Skip
<1>6. CASE ClientSends
  BY <1>6 DEF ClientSends
<1>7. CASE SendsNothing
  BY <1>7 DEF SendsNothing
<1>8. CASE BystanderConnects
  BY <1>8 DEF BystanderConnects
<1>9. CASE BystanderFails
  BY <1>9 DEF BystanderFails
<1>10. CASE Pass
  BY <1>10 DEF Pass
<1>11. CASE UNCHANGED allVars
  BY <1>11 DEF allVars
<1> QED
  BY <1>1, <1>2, <1>3, <1>4, <1>5, <1>6, <1>7, <1>8, <1>9, <1>10, <1>11
     DEF LinkNext

(* On the next tick what was not due is due at the earliest.               *)
LEMMA PassKeeps == ASSUME LInv, Pass PROVE Kept'
<1>1. LinkTypes /\ Turns /\ QueuesWait /\ NoneTwice /\ InOrder
  BY DEF LInv
<1>2. /\ phase = "idle" /\ phase' = "idle" /\ ran = Peer /\ ran' = {}
      /\ now' = now + 1 /\ now \in Nat /\ inbox = << >> /\ inbox' = << >>
      /\ UNCHANGED <<packetsOf, currentSource, sends, resets, world>>
      /\ sends \in [Peer -> Nat]
  BY <1>1 DEF LinkTypes, Turns, Pass, networkVars
<1>3. LinkTypes'
  BY <1>1, <1>2 DEF LinkTypes
<1>4. /\ Longest' = Longest /\ (\A p \in Peer : LeastLag(p)' = LeastLag(p))
      /\ NoSwaps' = NoSwaps
  BY <1>2 DEF Longest, LagsOf, LeastLag, NoSwaps
<1>5. \A p \in Peer : Polled(p) /\ ~Polled(p)'
  BY <1>2 DEF Polled
<1>6. ASSUME NEW p \in Peer, NEW item \in Range(packetsOf'[p])
      PROVE  Waiting(p, item)'
  <2>1. item \in Items /\ Waiting(p, item)
    <3>1. item \in Range(packetsOf[p]) /\ packetsOf[p] \in Seq(Items)
      BY <1>1, <1>2 DEF LinkTypes
    <3> QED BY <1>1, <3>1 DEF QueuesWait, Range
  <2>2. /\ item.release \in Nat /\ item.data.at \in Nat /\ item.data.from \in Peer
        /\ item.data.n \in Nat /\ sends[item.data.from] \in Nat
    <3>1. item.release \in Nat /\ item.data \in Datagrams
      BY <2>1 DEF Items
    <3>2. item.data.at \in Nat /\ item.data.from \in Peer /\ item.data.n \in Nat
      BY <3>1 DEF Datagrams
    <3> QED BY <1>2, <3>1, <3>2
  <2>3. Timely(item.data)'
    <3>1. Timely(item.data)
      BY <2>1 DEF Waiting
    <3> QED BY <1>2, <2>2, <3>1 DEF Timely
  <2>4. item.release >= now' \/ item.data.at + 1 = now'
    <3>1. item.release > now \/ item.data.at = now
      BY <1>5, <2>1 DEF Waiting
    <3> QED BY <1>2, <2>2, <3>1
  <2> QED BY <1>4, <1>5, <2>1, <2>2, <2>3, <2>4 DEF Waiting
<1>7. QueuesWait'
  BY <1>6 DEF QueuesWait
<1>8. InboxCame'
  BY <1>2 DEF InboxCame, Range
<1>9. NoneTwice' /\ InOrder'
  BY <1>1, <1>2, <1>4 DEF NoneTwice, InOrder
<1> QED BY <1>3, <1>7, <1>8, <1>9 DEF Kept

(* Every step leaves the queues and the inbox as the invariant says.       *)
LEMMA LinkKeeps == LInv /\ [LinkNext]_allVars => Kept'
<1> SUFFICES ASSUME LInv, [LinkNext]_allVars PROVE Kept'
  OBVIOUS
<1>1. /\ LinkTypes /\ Turns
      /\ packetsOf \in [Peer -> Seq(Items)]
      /\ inbox \in Seq(Datagrams)
      /\ currentSource \in Peer /\ resets \in Nat /\ ran \in SUBSET Peer
  BY DEF LInv, LinkTypes
<1>2. ASSUME NEW p \in Peer, Turn(p) PROVE Kept'
  <2>1. /\ UNCHANGED <<packetsOf, now, sends, world, ran, inbox, resets>>
        /\ currentSource' = p /\ phase = "idle" /\ phase' = "running"
    BY <1>2 DEF Turn, Net!RunAs
  <2>2. Still /\ inbox' = << >>
    BY <1>1, <2>1 DEF Still, Polled, Turns
  <2> QED BY <1>1, <2>1, <2>2, StillKeeps
<1>3. CASE Poll
  BY <1>3, PollKeeps DEF Kept
<1>4. CASE Handle
  <2>1. /\ UNCHANGED <<packetsOf, now, sends, world, ran, resets, currentSource>>
        /\ phase' = phase /\ inbox # << >> /\ inbox' = Tail(inbox)
    BY <1>4 DEF Handle, networkVars
  <2>2. Still
    BY <2>1 DEF Still, Polled
  <2> QED BY <1>1, <2>1, <2>2, StillKeeps
<1>5. CASE Skip
  <2>1. /\ UNCHANGED <<packetsOf, now, sends, world, ran, resets, currentSource>>
        /\ phase' = phase /\ inbox' = << >>
    BY <1>5 DEF Skip, networkVars
  <2>2. Still
    BY <2>1 DEF Still, Polled
  <2> QED BY <1>1, <2>1, <2>2, StillKeeps
<1>6. ASSUME NEW T \in SUBSET Peer, SendStep(T) PROVE Kept'
  BY <1>6, SendKeeps DEF SendStep, Kept
<1>7. CASE ServerSends
  <2>1. SendStep({Receiver, Bystander}) /\ {Receiver, Bystander} \in SUBSET Peer
    BY <1>7, ServerSendStep DEF Peer
  <2> QED BY <1>6, <2>1
<1>8. CASE ClientSends
  <2>1. SendStep({Server}) /\ {Server} \in SUBSET Peer
    BY <1>8, ClientSendStep DEF Peer
  <2> QED BY <1>6, <2>1
<1>9. CASE SendsNothing \/ BystanderFails
  <2>1. /\ UNCHANGED <<packetsOf, now, sends, world, inbox, resets, currentSource>>
        /\ phase = "handling" /\ phase' = "idle" /\ inbox = << >>
        /\ ran' = ran \cup {currentSource}
    BY <1>9 DEF SendsNothing, BystanderFails, MaySend, Done, networkVars,
                Net!PrivateDisable
  <2>2. Still /\ ran' \in SUBSET Peer
    BY <1>1, <2>1 DEF Still, Polled
  <2> QED BY <1>1, <2>1, <2>2, StillKeeps
<1>10. CASE BystanderConnects
  <2>1. /\ UNCHANGED <<now, sends, world, inbox, ran, currentSource, phase>>
        /\ resets' = resets + 1
        /\ packetsOf' = [p \in Peer |-> << >>]
    BY <1>10 DEF BystanderConnects, Net!PrivateReset, Net!NoPackets
  <2>2. Still
    BY <2>1 DEF Still, Polled
  <2>3. /\ packetsOf' \in [Peer -> Seq(Items)]
        /\ \A p \in Peer : packetsOf'[p] \in {packetsOf[p], << >>}
    BY <2>1
  <2> QED BY <1>1, <2>1, <2>2, <2>3, StillKeeps
<1>11. CASE Pass
  BY <1>11, PassKeeps
<1>12. CASE UNCHANGED allVars
  <2>1. UNCHANGED <<packetsOf, now, sends, world, inbox, ran, currentSource,
                    phase, resets>>
    BY <1>12 DEF allVars, networkVars, linkVars
  <2>2. Still
    BY <2>1 DEF Still, Polled
  <2> QED BY <1>1, <2>1, <2>2, StillKeeps
<1> QED
  BY <1>2, <1>3, <1>4, <1>5, <1>7, <1>8, <1>9, <1>10, <1>11, <1>12 DEF LinkNext

(* The turns follow one another, and the server counts what it sends.      *)
LEMMA TurnsKept == LInv /\ [LinkNext]_allVars => Turns'
<1> SUFFICES ASSUME LInv, [LinkNext]_allVars PROVE Turns'
  OBVIOUS
<1>1. Turns /\ currentSource \in Peer /\ sends \in [Peer -> Nat] /\ Server \in Peer
  BY DEF LInv, LinkTypes, Peer
<1>2. ASSUME NEW p \in Peer, Turn(p) PROVE Turns'
  BY <1>1, <1>2 DEF Turn, Net!RunAs, Turns, vars
<1>3. CASE Poll
  BY <1>1, <1>3 DEF Poll, Net!PrivateReceive, Turns, vars
<1>4. CASE Handle
  <2>1. count' = count
    BY <1>4 DEF Handle, Deliver, vars
  <2> QED BY <1>1, <1>4, <2>1 DEF Handle, networkVars, Turns
<1>5. CASE Skip
  BY <1>1, <1>5 DEF Skip, networkVars, Turns, vars
<1>6. CASE ServerSends
  <2>1. sends'[Server] = sends[Server] + 1 /\ count' = count + 1
    BY <1>1, <1>6 DEF ServerSends, Sent, Advance
  <2>2. phase' = "idle" /\ inbox' = << >>
    BY <1>6 DEF ServerSends, MaySend, Done
  <2> QED BY <1>1, <2>1, <2>2 DEF Turns
<1>7. CASE ClientSends
  <2>1. sends'[Server] = sends[Server] /\ count' = count
    BY <1>1, <1>7 DEF ClientSends, Sent, vars
  <2>2. phase' = "idle" /\ inbox' = << >>
    BY <1>7 DEF ClientSends, MaySend, Done
  <2> QED BY <1>1, <2>1, <2>2 DEF Turns
<1>8. CASE SendsNothing
  BY <1>1, <1>8 DEF SendsNothing, MaySend, Done, Turns, vars
<1>9. CASE BystanderConnects
  BY <1>1, <1>9 DEF BystanderConnects, Net!PrivateReset, Turns, vars
<1>10. CASE BystanderFails
  BY <1>1, <1>10 DEF BystanderFails, MaySend, Done, Turns, vars
<1>11. CASE Pass
  BY <1>1, <1>11 DEF Pass, Turns, vars
<1>12. CASE UNCHANGED allVars
  BY <1>1, <1>12 DEF allVars, networkVars, linkVars, Turns, vars
<1> QED
  BY <1>2, <1>3, <1>4, <1>5, <1>6, <1>7, <1>8, <1>9, <1>10, <1>11, <1>12
     DEF LinkNext

(* Of a server without losses, whose network nobody resets, every delta    *)
(* that is newer than the newest taken is still on its way.                *)
LEMMA NoneGoesMissing == LInv /\ [LinkNext]_allVars => NoneMissing'
<1> SUFFICES ASSUME LInv, [LinkNext]_allVars, resets' = 0, Lossless',
                    NEW m \in newest' + 1 .. count'
             PROVE  OnItsWay(m)'
  BY DEF NoneMissing
<1>1. /\ LinkTypes /\ Turns /\ NoneMissing
      /\ resets \in Nat /\ count \in Nat /\ newest \in Nat
      /\ packetsOf \in [Peer -> Seq(Items)] /\ inbox \in Seq(Datagrams)
      /\ Server \in Peer /\ Receiver \in Peer /\ Bystander \in Peer
  <2>1. count \in Nat /\ newest \in Nat
    BY MaxCountAssumption DEF LInv, IInv, TypeOK
  <2> QED BY <2>1 DEF LInv, LinkTypes, Peer
<1>2. ASSUME resets' = resets, world' = world, m \in newest + 1 .. count
      PROVE  OnItsWay(m)
  BY <1>1, <1>2 DEF NoneMissing, Lossless
<1>3. Range(<< >>) = {}
  BY DEF Range
<1>4. ASSUME UNCHANGED <<resets, world, newest, count, packetsOf, inbox>>,
             inbox = << >> \/ currentSource' = currentSource
      PROVE  OnItsWay(m)'
  <2>1. OnItsWay(m)
    BY <1>2, <1>4
  <2> QED BY <1>3, <1>4, <2>1 DEF OnItsWay
<1>5. ASSUME NEW p \in Peer, Turn(p) PROVE OnItsWay(m)'
  BY <1>1, <1>4, <1>5 DEF Turn, Net!RunAs, Turns, vars
<1>6. CASE Poll
  <2>1. /\ UNCHANGED <<resets, world, newest, count, currentSource>>
        /\ inbox = << >>
    BY <1>1, <1>6 DEF Poll, Net!PrivateReceive, Turns, vars
  <2>2. Takes
    BY <1>6, PollTakes
  <2>3. PICK item \in Range(packetsOf[Receiver]) : Delta(item.data, m)
    <3>1. OnItsWay(m)
      BY <1>2, <2>1
    <3> QED BY <1>3, <2>1, <3>1 DEF OnItsWay
  <2>4. CASE currentSource # Receiver
    <3>1. packetsOf'[Receiver] = packetsOf[Receiver]
      BY <1>1, <2>2, <2>4 DEF Takes
    <3> QED BY <2>3, <3>1 DEF OnItsWay
  <2>5. CASE currentSource = Receiver /\ item.release <= now
    <3>1. item.data \in Range(inbox')
      BY <2>2, <2>3, <2>5 DEF Takes
    <3> QED BY <2>1, <2>3, <2>5, <3>1 DEF OnItsWay
  <2>6. CASE currentSource = Receiver /\ ~(item.release <= now)
    <3>1. item \in Range(packetsOf'[Receiver])
      BY <2>2, <2>3, <2>6 DEF Takes
    <3> QED BY <2>3, <3>1 DEF OnItsWay
  <2> QED BY <2>4, <2>5, <2>6
<1>7. CASE Handle
  <2>1. /\ UNCHANGED <<resets, world, count, packetsOf, currentSource>>
        /\ currentSource = Receiver /\ inbox # << >> /\ inbox' = Tail(inbox)
    BY <1>7 DEF Handle, networkVars, Deliver, vars
  <2> DEFINE n == Head(inbox).n
  <2>2. n \in Nat
    <3>1. Head(inbox) \in Datagrams
      BY <1>1, <2>1
    <3> QED BY <3>1 DEF Datagrams
  <2>7. Head(inbox).from = Server => newest' = IF n > newest THEN n ELSE newest
    BY <1>7 DEF Handle, Deliver
  <2>8. Head(inbox).from # Server => newest' = newest
    BY <1>7 DEF Handle, vars
  <2>9. /\ newest' \in Nat /\ newest' >= newest
        /\ Head(inbox).from = Server => newest' >= n
    BY <1>1, <2>2, <2>7, <2>8
  <2>3. m \in newest + 1 .. count /\ m > newest'
    <3> DEFINE later == newest'
    <3>1. /\ newest \in Nat /\ count \in Nat
          /\ later \in Nat /\ later >= newest
          /\ m \in later + 1 .. count
      BY <1>1, <2>1, <2>9
    <3> HIDE DEF later
    <3>2. m \in newest + 1 .. count /\ m > later
      BY <3>1
    <3> QED BY <3>2 DEF later
  <2>4. OnItsWay(m)
    BY <1>2, <2>1, <2>3
  <2>5. CASE \E item \in Range(packetsOf[Receiver]) : Delta(item.data, m)
    BY <2>1, <2>5 DEF OnItsWay
  <2>6. ASSUME NEW d \in Range(inbox), Delta(d, m) PROVE OnItsWay(m)'
    <3>1. d # Head(inbox)
      BY <2>2, <2>3, <2>6, <2>9 DEF Delta
    <3>2. d \in Range(inbox')
      BY <1>1, <2>1, <3>1, TailKeeps
    <3> QED BY <2>1, <2>6, <3>2 DEF OnItsWay
  <2> QED BY <2>4, <2>5, <2>6 DEF OnItsWay
<1>8. CASE Skip
  <2>1. /\ UNCHANGED <<resets, world, newest, count, packetsOf, currentSource>>
        /\ currentSource # Receiver
    BY <1>8 DEF Skip, networkVars, vars
  <2>2. OnItsWay(m)
    BY <1>2, <2>1
  <2> QED BY <2>1, <2>2 DEF OnItsWay
<1>9. ASSUME NEW T \in SUBSET Peer, SendStep(T), UNCHANGED newest,
             m \in newest + 1 .. count
      PROVE  OnItsWay(m)'
  <2>1. UNCHANGED <<resets, world>> /\ inbox = << >> /\ phase = "handling"
    BY <1>9 DEF SendStep
  <2>2. PICK item \in Range(packetsOf[Receiver]) : Delta(item.data, m)
    <3>1. OnItsWay(m)
      BY <1>2, <1>9, <2>1
    <3> QED BY <1>3, <2>1, <3>1 DEF OnItsWay
  <2>3. Arrivals(T)
    BY <1>9, <2>1, SendArrives DEF SendStep
  <2>4. item \in Range(packetsOf'[Receiver])
    BY <1>1, <2>2, <2>3 DEF Arrivals
  <2> QED BY <2>2, <2>4 DEF OnItsWay
<1>10. CASE ServerSends
  <2> DEFINE T == {Receiver, Bystander}
  <2>1. SendStep(T) /\ T \in SUBSET Peer
    BY <1>1, <1>10, ServerSendStep
  <2>2. newest' = newest /\ count' = count + 1 /\ currentSource = Server
    BY <1>10 DEF ServerSends, Advance
  <2>3. CASE m \in newest + 1 .. count
    BY <1>9, <2>1, <2>2, <2>3
  <2>4. CASE m = count + 1
    <3>1. settings.lossPerPacket = 0 /\ Arrivals(T)
      BY <1>1, <2>1, <2>2, SendArrives DEF SendStep, Turns, Lossless
    <3>2. PICK lag \in Nat :
            Range(packetsOf'[Receiver]) =
              Range(packetsOf[Receiver]) \cup {Item(now + lag, Datagram(Receiver))}
      BY <1>1, <3>1 DEF Arrivals
    <3>3. Delta(Item(now + lag, Datagram(Receiver)).data, m)
      BY <1>1, <2>2, <2>4 DEF Item, Datagram, Delta, Turns
    <3> QED BY <3>2, <3>3 DEF OnItsWay
  <2> QED BY <1>1, <2>2, <2>3, <2>4
<1>11. CASE ClientSends
  <2>1. SendStep({Server}) /\ {Server} \in SUBSET Peer
    BY <1>1, <1>11, ClientSendStep
  <2>2. newest' = newest /\ count' = count
    BY <1>11 DEF ClientSends, vars
  <2> QED BY <1>9, <2>1, <2>2
<1>12. CASE SendsNothing
  BY <1>1, <1>4, <1>12 DEF SendsNothing, networkVars, vars
<1>13. CASE BystanderConnects
  BY <1>1, <1>13 DEF BystanderConnects
<1>14. CASE BystanderFails
  BY <1>1, <1>4, <1>14 DEF BystanderFails, Net!PrivateDisable, vars
<1>15. CASE Pass
  BY <1>1, <1>4, <1>15 DEF Pass, networkVars, vars
<1>16. CASE UNCHANGED allVars
  BY <1>1, <1>4, <1>16 DEF allVars, networkVars, linkVars, vars
<1> QED
  BY <1>5, <1>6, <1>7, <1>8, <1>10, <1>11, <1>12, <1>13, <1>14, <1>15, <1>16
     DEF LinkNext

(* At the start the queues are empty and nothing was sent.                 *)
LEMMA LinkInitInv == LinkInit => LInv
<1> SUFFICES ASSUME LinkInit PROVE LInv
  OBVIOUS
<1>1. IInv
  BY InitIInv DEF LinkInit
<1>2. /\ packetsOf = [p \in Peer |-> << >>] /\ currentSource \in Peer /\ now = 0
      /\ inbox = << >> /\ ran = {} /\ sends = [p \in Peer |-> 0] /\ resets = 0
      /\ world \in Worlds /\ phase = "idle" /\ count = 0 /\ newest = 0
      /\ Server \in Peer
  BY DEF LinkInit, Init, Net!Init, Net!NoPackets, Peer
<1>3. LinkTypes
  BY <1>2 DEF LinkTypes
<1>4. Turns
  BY <1>2 DEF Turns
<1>5. /\ Range(<< >>) = {} /\ NoRepeat(DataOf(<< >>)) /\ Ordered(DataOf(<< >>))
      /\ Ordered(<< >>)
  BY DEF Range, NoRepeat, DataOf, Ordered
<1>6. QueuesWait /\ InboxCame /\ NoneTwice /\ InOrder
  BY <1>2, <1>5 DEF QueuesWait, InboxCame, NoneTwice, InOrder
<1>7. NoneMissing
  BY <1>2 DEF NoneMissing
<1> QED BY <1>1, <1>3, <1>4, <1>6, <1>7 DEF LInv

(* So it holds in every reachable state.                                   *)
LEMMA LInvAlways == LinkSpec => []LInv
<1>1. LInv /\ [LinkNext]_allVars => LInv'
  <2> SUFFICES ASSUME LInv, [LinkNext]_allVars PROVE LInv'
    OBVIOUS
  <2>1. [Next]_vars
    BY FilterStep
  <2>2. IInv'
    BY <2>1, NextIInv DEF LInv
  <2> QED BY <2>2, LinkKeeps, TurnsKept, NoneGoesMissing DEF LInv, Kept
<1> QED BY <1>1, LinkInitInv, PTL DEF LinkSpec

-----------------------------------------------------------------------------
(* What the link promises.                                                 *)

(* Whatever the latencies below half the sequence numbers, the chances and *)
(* the resets, what the receiver's Connection::Process looks at is fed to  *)
(* it as SequenceFilter assumes.                                           *)
THEOREM LinkImplementsFilter == LinkSpec => Spec
<1>1. LinkInit => Init
  BY DEF LinkInit
<1> QED BY <1>1, FilterStep, LInvAlways, PTL DEF LinkSpec, Spec

(* So over the simulated network, too, the connection keeps the sequence   *)
(* of the newest delta that was delivered.                                 *)
THEOREM LinkKeepsTheNewest == LinkSpec => []KeepsTheNewest
BY LinkImplementsFilter, KeepsTheNewestAlways, PTL

(* No delta from the server reaches Process half the sequence numbers      *)
(* late, for every latency of the server below that.                       *)
THEOREM DeltasInTimeAlways == LinkSpec => []DeltasInTime
<1>1. LInv => DeltasInTime
  <2> SUFFICES ASSUME LInv, NEW d \in InInbox, d.from = Server
               PROVE  d.n \in InTime
    BY DEF DeltasInTime
  <2>1. LinkTypes /\ Turns /\ Come(d)
    <3>1. d \in Range(inbox)
      BY DEF InInbox, Range
    <3> QED BY <3>1 DEF LInv, InboxCame
  <2>2. /\ d.n \in 1 .. count /\ d.at <= now /\ count - d.n <= now - d.at
        /\ now - d.at <= Longest
    BY <2>1 DEF Come, Timely, Turns
  <2>3. Longest \in 1 .. Half - 1 /\ Half \in Nat /\ count \in Nat
    BY <2>1, LongestBounds, HalfAssumption, MaxCountAssumption
       DEF LInv, IInv, TypeOK
  <2>4. now \in Nat /\ d.at \in Nat
    <3>1. now \in Nat /\ inbox \in Seq(Datagrams)
      BY <2>1 DEF LinkTypes
    <3>2. d \in Datagrams
      BY <3>1 DEF InInbox
    <3> QED BY <3>1, <3>2 DEF Datagrams
  <2> QED BY <2>2, <2>3, <2>4 DEF InTime
<1> QED BY <1>1, LInvAlways, PTL

(* PrivateReceive never returns a datagram before the least latency of its *)
(* sender has passed, whatever generator was given.                        *)
THEOREM NeverEarlyAlways == LinkSpec => []NeverEarly
<1>1. LInv => NeverEarly
  BY DEF LInv, InboxCame, Come, LeastLag, NeverEarly, InInbox, Range
<1> QED BY <1>1, LInvAlways, PTL

(* Without swaps one call of PrivateReceive returns what each sender sent  *)
(* in the order of sending, for any latencies.                             *)
THEOREM BatchesInOrderAlways == LinkSpec => []BatchesInOrder
<1>1. LInv => BatchesInOrder
  BY DEF LInv, InOrder, NoSwaps, Ordered, BatchesInOrder
<1> QED BY <1>1, LInvAlways, PTL

(* A receiver whose server loses nothing, and whose network nobody resets, *)
(* is never behind by more than the longest latency and a tick: what it    *)
(* has not taken is still on its way, and nothing is on its way longer.    *)
THEOREM KeepsUpAlways == LinkSpec => []KeepsUp
<1>1. LInv => KeepsUp
  <2> SUFFICES ASSUME LInv, resets = 0, Lossless
               PROVE  count - newest <= Longest + 1
    BY DEF KeepsUp, Lossless, Longest
  <2>1. /\ LinkTypes /\ Turns /\ QueuesWait /\ InboxCame /\ NoneMissing
        /\ count \in Nat /\ newest \in 0 .. count
        /\ Longest \in Nat /\ Longest >= 1 /\ now \in Nat
    <3>1. count \in Nat /\ newest \in 0 .. count
      BY MaxCountAssumption DEF LInv, IInv, TypeOK
    <3>2. LinkTypes /\ now \in Nat
      BY DEF LInv, LinkTypes
    <3>3. Longest \in Nat /\ Longest >= 1
      BY <3>2, LongestBounds, HalfAssumption
    <3> QED BY <3>1, <3>2, <3>3 DEF LInv
  <2>2. CASE newest = count
    BY <2>1, <2>2
  <2>3. CASE newest # count
    <3>1. OnItsWay(newest + 1)
      <4>1. newest + 1 \in newest + 1 .. count
        BY <2>1, <2>3
      <4> QED BY <2>1, <4>1 DEF NoneMissing
    <3>2. ASSUME NEW d \in Datagrams, Delta(d, newest + 1), Timely(d),
                 now - d.at <= Longest
          PROVE  count - newest <= Longest + 1
      <4>1. d.at \in Nat /\ count - (newest + 1) <= now - d.at
        BY <2>1, <3>2 DEF Delta, Timely, Turns, Datagrams
      <4> QED BY <2>1, <3>2, <4>1
    <3>3. ASSUME NEW item \in Range(packetsOf[Receiver]),
                 Delta(item.data, newest + 1)
          PROVE  count - newest <= Longest + 1
      <4>1. item \in Items /\ Waiting(Receiver, item)
        <5>1. Receiver \in Peer /\ packetsOf[Receiver] \in Seq(Items)
          BY <2>1 DEF LinkTypes, Peer
        <5> QED BY <2>1, <5>1 DEF QueuesWait, Range
      <4>2. /\ item.release \in Nat /\ item.data \in Datagrams
            /\ item.data.at \in Nat
        <5>1. item.release \in Nat /\ item.data \in Datagrams
          BY <4>1 DEF Items
        <5> QED BY <5>1 DEF Datagrams
      <4>3. /\ item.release <= item.data.at + Longest
            /\ \/ item.release >= now
               \/ item.data.at + 1 = now
               \/ item.release > now
               \/ item.data.at = now
        BY <3>3, <4>1 DEF Waiting, Delta
      <4>4. now - item.data.at <= Longest
        BY <2>1, <4>2, <4>3
      <4> QED BY <3>2, <3>3, <4>1, <4>2, <4>4 DEF Waiting
    <3>4. ASSUME NEW d \in Range(inbox), Delta(d, newest + 1)
          PROVE  count - newest <= Longest + 1
      <4>1. d \in Datagrams
        BY <2>1 DEF LinkTypes, Range
      <4>2. Timely(d) /\ now - d.at <= Longest
        BY <2>1, <3>4 DEF InboxCame, Come, Delta
      <4> QED BY <3>2, <3>4, <4>1, <4>2
    <3> QED BY <3>1, <3>3, <3>4 DEF OnItsWay
  <2> QED BY <2>2, <2>3
<1> QED BY <1>1, LInvAlways, PTL

-----------------------------------------------------------------------------
(* The simulated network as a lossy network.                               *)

(* Each step of the programs is one of the network's, or none.             *)
LEMMA NetworkStep ==
  LInv /\ [LinkNext]_allVars => [Network!Next]_<<sends, Queued, InInbox>>
<1> SUFFICES ASSUME LInv, [LinkNext]_allVars
             PROVE  [Network!Next]_<<sends, Queued, InInbox>>
  OBVIOUS
<1> DEFINE DataIn(q) == { e.data : e \in Range(q) }
<1>1. /\ LinkTypes /\ Turns /\ QueuesWait /\ NoneTwice
      /\ currentSource \in Peer /\ packetsOf \in [Peer -> Seq(Items)]
      /\ sends \in [Peer -> Nat] /\ DOMAIN sends = Peer
  BY DEF LInv, LinkTypes
<1>2. /\ Queued = UNION { DataIn(packetsOf[p]) : p \in Peer }
      /\ InInbox = Range(inbox)
  BY DEF Queued, InInbox, Range
<1>3. /\ Queued' = UNION { DataIn(packetsOf'[p]) : p \in Peer }
      /\ InInbox' = Range(inbox')
  BY DEF Queued, InInbox, Range
<1>4. Range(<< >>) = {}
  BY DEF Range
<1> HIDE DEF DataIn
<1>5. ASSUME UNCHANGED <<sends, packetsOf, inbox>>
      PROVE  UNCHANGED <<sends, Queued, InInbox>>
  BY <1>2, <1>3, <1>5
<1>6. ASSUME NEW p \in Peer, Turn(p) PROVE UNCHANGED <<sends, packetsOf, inbox>>
  BY <1>6 DEF Turn, Net!RunAs
<1>7. CASE SendsNothing \/ BystanderFails \/ Pass \/ UNCHANGED allVars
  <2>1. UNCHANGED <<sends, packetsOf, inbox>>
    BY <1>7 DEF SendsNothing, BystanderFails, Net!PrivateDisable, Pass, allVars,
                networkVars, linkVars
  <2> QED BY <1>5, <2>1
<1>8. CASE Poll
  <2>1. Takes /\ sends' = sends /\ inbox = << >>
    BY <1>1, <1>8, PollTakes DEF Poll, Turns
  <2> DEFINE q == packetsOf[currentSource]
             due == { e \in Range(q) : e.release <= now }
             rest == { e \in Range(q) : ~(e.release <= now) }
  <2>2. /\ \A p \in Peer \ {currentSource} : packetsOf'[p] = packetsOf[p]
        /\ Range(packetsOf'[currentSource]) = rest
        /\ Range(inbox') = { e.data : e \in due }
    BY <2>1 DEF Takes
  <2>3. \A p \in Peer : \A e \in Range(packetsOf[p]) : e.data.to = p
    BY <1>1 DEF QueuesWait, Waiting
  <2>4. \A e \in due, f \in rest : e.data # f.data
    <3> SUFFICES ASSUME NEW e \in due, NEW f \in rest, e.data = f.data PROVE FALSE
      OBVIOUS
    <3>1. PICK i \in DOMAIN q : e = q[i]
      BY DEF Range
    <3>2. PICK j \in DOMAIN q : f = q[j]
      BY DEF Range
    <3>3. NoRepeat(DataOf(q))
      BY <1>1 DEF NoneTwice
    <3>4. i = j
      BY <3>1, <3>2, <3>3 DEF NoRepeat, DataOf
    <3> QED BY <3>1, <3>2, <3>4
  <2>5. due \cup rest = Range(q) /\ due \subseteq Range(q)
    OBVIOUS
  <2> HIDE DEF due, rest, q
  <2>6. InInbox' \subseteq { d \in Queued : d.to = currentSource }
    <3> SUFFICES ASSUME NEW d \in InInbox'
                 PROVE  d \in Queued /\ d.to = currentSource
      OBVIOUS
    <3>1. PICK e \in due : d = e.data
      BY <1>3, <2>2
    <3>2. e \in Range(packetsOf[currentSource])
      BY <2>5 DEF q
    <3>3. d \in DataIn(packetsOf[currentSource])
      BY <3>1, <3>2 DEF DataIn
    <3> QED BY <1>1, <1>2, <2>3, <3>1, <3>2, <3>3
  <2>7. Queued' \subseteq Queued \ InInbox'
    <3> SUFFICES ASSUME NEW d \in Queued' PROVE d \in Queued /\ d \notin InInbox'
      OBVIOUS
    <3>1. PICK p \in Peer : d \in DataIn(packetsOf'[p])
      BY <1>3
    <3>2. PICK f \in Range(packetsOf'[p]) : d = f.data
      BY <3>1 DEF DataIn
    <3>3. CASE p # currentSource
      <4>1. f \in Range(packetsOf[p])
        BY <2>2, <3>2, <3>3
      <4>2. d \in DataIn(packetsOf[p]) /\ d.to = p
        BY <2>3, <3>2, <4>1 DEF DataIn
      <4> QED BY <1>2, <2>6, <3>3, <4>2
    <3>4. CASE p = currentSource
      <4>1. f \in rest
        BY <2>2, <3>2, <3>4
      <4>2. d \in DataIn(packetsOf[p])
        BY <2>5, <3>2, <3>4, <4>1 DEF DataIn, q
      <4>3. d \notin InInbox'
        BY <1>3, <2>2, <2>4, <3>2, <4>1
      <4> QED BY <1>2, <4>2, <4>3
    <3> QED BY <3>3, <3>4
  <2>8. Queued \ InInbox' \subseteq Queued'
    <3> SUFFICES ASSUME NEW d \in Queued, d \notin InInbox' PROVE d \in Queued'
      OBVIOUS
    <3>1. PICK p \in Peer : d \in DataIn(packetsOf[p])
      BY <1>2
    <3>2. PICK f \in Range(packetsOf[p]) : d = f.data
      BY <3>1 DEF DataIn
    <3>3. f \in Range(packetsOf'[p])
      <4>1. CASE p # currentSource
        BY <2>2, <4>1
      <4>2. CASE p = currentSource
        <5>1. f \notin due
          BY <1>3, <2>2, <3>2
        <5> QED BY <2>2, <2>5, <4>2, <5>1 DEF q
      <4> QED BY <4>1, <4>2
    <3>4. d \in DataIn(packetsOf'[p])
      BY <3>2, <3>3 DEF DataIn
    <3> QED BY <1>3, <3>4
  <2>9. InInbox = {}
    BY <1>2, <1>4, <2>1
  <2>10. Network!Hand(currentSource)
    BY <2>1, <2>6, <2>7, <2>8, <2>9 DEF Network!Hand
  <2> QED BY <1>1, <2>10 DEF Network!Next
<1>9. CASE Handle \/ Skip
  <2>1. UNCHANGED <<sends, packetsOf>>
    BY <1>9 DEF Handle, Skip, networkVars
  <2>2. Range(inbox') \subseteq Range(inbox)
    <3>1. inbox \in Seq(Datagrams) /\ inbox # << >>
      BY <1>9 DEF LInv, LinkTypes, Handle, Skip
    <3>2. inbox' = Tail(inbox) \/ inbox' = << >>
      BY <1>9 DEF Handle, Skip
    <3> QED BY <1>4, <3>1, <3>2, TailKeeps
  <2>3. Network!Look
    BY <1>2, <1>3, <2>1, <2>2 DEF Network!Look
  <2> QED BY <2>3 DEF Network!Next
<1>10. CASE BystanderConnects
  <2>1. /\ UNCHANGED <<sends, inbox>>
        /\ packetsOf' = [p \in Peer |-> << >>]
    BY <1>10 DEF BystanderConnects, Net!PrivateReset, Net!NoPackets
  <2>2. \A p \in Peer : DataIn(packetsOf'[p]) = {}
    BY <1>4, <2>1 DEF DataIn
  <2>3. Queued' = {}
    BY <1>3, <2>2
  <2>4. Network!Lose
    BY <1>2, <1>3, <2>1, <2>3 DEF Network!Lose
  <2> QED BY <2>4 DEF Network!Next
<1>11. ASSUME NEW T \in SUBSET Peer, SendStep(T) PROVE Network!Send
  <2>1. /\ sends' = [sends EXCEPT ![currentSource] = @ + 1] /\ inbox' = inbox
        /\ Arrivals(T)
    BY <1>11, SendArrives DEF SendStep, Sent
  <2>2. PICK lag \in Nat, R \in SUBSET T :
          \A p \in Peer :
            Range(packetsOf'[p]) =
              Range(packetsOf[p])
                \cup IF p \in R THEN {Item(now + lag, Datagram(p))} ELSE {}
    BY <2>1 DEF Arrivals
  <2>3. /\ DOMAIN sends' = DOMAIN sends
        /\ \A p \in DOMAIN sends : sends'[p] \in {sends[p], sends[p] + 1}
    BY <1>1, <2>1
  <2>4. Queued \subseteq Queued'
    <3>1. \A p \in Peer : DataIn(packetsOf[p]) \subseteq DataIn(packetsOf'[p])
      BY <2>2 DEF DataIn
    <3> QED BY <1>2, <1>3, <3>1
  <2>5. ASSUME NEW d \in Queued' \ Queued
        PROVE  sends[d.from] < d.n /\ d.n = sends'[d.from]
    <3>1. PICK p \in Peer : d \in DataIn(packetsOf'[p])
      BY <1>3
    <3>2. PICK e \in Range(packetsOf'[p]) : d = e.data
      BY <3>1 DEF DataIn
    <3>3. e \notin Range(packetsOf[p])
      <4>1. d \notin DataIn(packetsOf[p])
        BY <1>2
      <4> QED BY <3>2, <4>1 DEF DataIn
    <3>4. e = Item(now + lag, Datagram(p))
      BY <2>2, <3>2, <3>3
    <3>5. d.from = currentSource /\ d.n = sends[currentSource] + 1
      BY <3>2, <3>4 DEF Item, Datagram
    <3>6. sends[currentSource] \in Nat
      BY <1>1
    <3> QED BY <1>1, <2>1, <3>5, <3>6
  <2>6. InInbox' = InInbox
    BY <1>2, <1>3, <2>1
  <2> QED BY <2>3, <2>4, <2>5, <2>6 DEF Network!Send
<1>12. CASE ServerSends
  <2>1. Network!Send
    BY <1>11, <1>12, ServerSendStep DEF Peer
  <2> QED BY <2>1 DEF Network!Next
<1>13. CASE ClientSends
  <2>1. Network!Send
    BY <1>11, <1>13, ClientSendStep DEF Peer
  <2> QED BY <2>1 DEF Network!Next
<1> QED
  BY <1>5, <1>6, <1>7, <1>8, <1>9, <1>10, <1>12, <1>13 DEF LinkNext

(* For all latencies, chances and resets the simulated network implements  *)
(* the lossy network.                                                      *)
THEOREM IsLossyNetworkAlways == LinkSpec => IsLossyNetwork
<1>1. LinkInit => Network!Init
  <2> SUFFICES ASSUME LinkInit PROVE Network!Init
    OBVIOUS
  <2>1. packetsOf = [p \in Peer |-> << >>] /\ inbox = << >>
        /\ sends = [p \in Peer |-> 0]
    BY DEF LinkInit, Net!Init, Net!NoPackets
  <2>2. Queued = {} /\ InInbox = {}
    BY <2>1 DEF Queued, InInbox
  <2> QED BY <2>1, <2>2 DEF Network!Init
<1> QED
  BY <1>1, NetworkStep, LInvAlways, PTL
     DEF LinkSpec, IsLossyNetwork, Network!Spec

=============================================================================
