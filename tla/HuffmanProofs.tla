---------------------------- MODULE HuffmanProofs ----------------------------
(***************************************************************************)
(* The compressor for every width of a byte and every table: codes that    *)
(* do not begin each other, a decoder that ends, and, with tables in which *)
(* every byte occurs, one that gives back what was encoded.                *)
(***************************************************************************)
EXTENDS Huffman, WrappingCounterProofs, FiniteSetTheorems

-----------------------------------------------------------------------------
(* A first value and a step define a function of the naturals, one value   *)
(* after the other.                                                        *)
FollowsTo(n, g, base, step) ==
  /\ DOMAIN g = 0 .. n
  /\ g[0] = base
  /\ \A i \in 0 .. n - 1 : g[i + 1] = step[<< i, g[i] >>]

(* Two such functions agree as far as both go.                             *)
LEMMA FollowsAgree ==
  ASSUME NEW base, NEW step, NEW n \in Nat, NEW m \in Nat, NEW g, NEW h,
         FollowsTo(n, g, base, step), FollowsTo(m, h, base, step)
  PROVE  \A i \in Nat : i <= n /\ i <= m => g[i] = h[i]
<1> SUFFICES ASSUME \E i \in Nat : i <= n /\ i <= m /\ g[i] # h[i] PROVE FALSE
  OBVIOUS
<1> DEFINE S == { i \in Nat : i <= n /\ i <= m /\ g[i] # h[i] }
<1>1. PICK i \in S : \A j \in S : ~(j < i)
  <2>1. S \in SUBSET Nat /\ S # {}
    OBVIOUS
  <2> HIDE DEF S
  <2> QED BY <2>1, LeastNatural
<1>2. i \in Nat /\ i <= n /\ i <= m /\ g[i] # h[i]
  OBVIOUS
<1>3. i # 0
  BY <1>2 DEF FollowsTo
<1> DEFINE j == i - 1
<1>4. j \in Nat /\ j < i /\ i = j + 1
  BY <1>2, <1>3
<1>5. g[j] = h[j]
  <2>1. j \notin S
    BY <1>1, <1>4
  <2> QED BY <2>1, <1>2, <1>4
<1> HIDE DEF j, S
<1>6. g[j + 1] = step[<< j, g[j] >>] /\ h[j + 1] = step[<< j, h[j] >>]
  BY <1>2, <1>4 DEF FollowsTo
<1> QED BY <1>2, <1>4, <1>5, <1>6

(* The function that a first value and a step define.                      *)
IsSteps(step, S) == step \in [Nat \X S -> S]
Follows(f, S, base, step) ==
  /\ f \in [Nat -> S]
  /\ f[0] = base
  /\ \A n \in Nat : f[n + 1] = step[<< n, f[n] >>]

(* There is one.                                                           *)
LEMMA Recursion ==
  ASSUME NEW S, NEW base \in S, NEW step, IsSteps(step, S)
  PROVE  \E f : Follows(f, S, base, step)
<1>0. step \in [Nat \X S -> S]
  BY DEF IsSteps
<1> DEFINE Good(n) == \E g \in [0 .. n -> S] : FollowsTo(n, g, base, step)
<1>1. \A n \in Nat : Good(n)
  <2> SUFFICES ASSUME \E n \in Nat : ~Good(n) PROVE FALSE
    OBVIOUS
  <2> DEFINE T == { n \in Nat : ~Good(n) }
  <2>1. PICK n \in T : \A j \in T : ~(j < n)
    <3>1. T \in SUBSET Nat /\ T # {}
      OBVIOUS
    <3> HIDE DEF T
    <3> QED BY <3>1, LeastNatural
  <2>2. n \in Nat /\ ~Good(n)
    OBVIOUS
  <2>3. n # 0
    <3>1. SUFFICES ASSUME n = 0 PROVE Good(0)
      BY <2>2
    <3> DEFINE g == [i \in 0 .. 0 |-> base]
    <3>2. g \in [0 .. 0 -> S] /\ FollowsTo(0, g, base, step)
      BY DEF FollowsTo
    <3> QED BY <3>2
  <2> DEFINE j == n - 1
  <2>4. j \in Nat /\ j < n /\ n = j + 1
    BY <2>2, <2>3
  <2>5. Good(j)
    BY <2>1, <2>4
  <2> HIDE DEF T, j
  <2>6. PICK g \in [0 .. j -> S] : FollowsTo(j, g, base, step)
    BY <2>5
  <2> DEFINE h == [i \in 0 .. n |-> IF i = n THEN step[<< j, g[j] >>] ELSE g[i]]
  <2>7. step[<< j, g[j] >>] \in S
    <3>1. g[j] \in S
      BY <2>4, <2>6
    <3> QED BY <3>1, <2>4, <1>0
  <2>8. h \in [0 .. n -> S]
    BY <2>4, <2>6, <2>7
  <2>9. FollowsTo(n, h, base, step)
    <3>1. h[0] = base
      BY <2>2, <2>3, <2>6 DEF FollowsTo
    <3>2. ASSUME NEW i \in 0 .. n - 1 PROVE h[i + 1] = step[<< i, h[i] >>]
      <4>1. i \in Nat /\ i <= j /\ h[i] = g[i]
        BY <2>4
      <4>2. CASE i = j
        <5>1. i + 1 = n /\ i + 1 \in 0 .. n /\ h[n] = step[<< j, g[j] >>]
          BY <2>2, <2>4, <4>2
        <5> QED BY <5>1, <4>1, <4>2
      <4>3. CASE i # j
        <5>1. h[i + 1] = g[i + 1] /\ i \in 0 .. j - 1
          BY <4>1, <4>3, <2>4
        <5>2. g[i + 1] = step[<< i, g[i] >>]
          BY <5>1, <2>6 DEF FollowsTo
        <5> QED BY <5>1, <5>2, <4>1
      <4> QED BY <4>2, <4>3
    <3> QED BY <3>1, <3>2 DEF FollowsTo
  <2> QED BY <2>2, <2>8, <2>9
<1> DEFINE Of(n) == CHOOSE g \in [0 .. n -> S] : FollowsTo(n, g, base, step)
           f == [n \in Nat |-> Of(n)[n]]
<1>2. \A n \in Nat : Of(n) \in [0 .. n -> S] /\ FollowsTo(n, Of(n), base, step)
  BY <1>1
<1> HIDE DEF Of, Good
<1>3. f \in [Nat -> S]
  BY <1>2
<1>4. f[0] = base
  BY <1>2 DEF FollowsTo
<1>5. ASSUME NEW n \in Nat PROVE f[n + 1] = step[<< n, f[n] >>]
  <2>1. n + 1 \in Nat /\ n \in 0 .. (n + 1) - 1
    OBVIOUS
  <2>2. Of(n + 1)[n + 1] = step[<< n, Of(n + 1)[n] >>]
    BY <1>2, <2>1 DEF FollowsTo
  <2>3. Of(n + 1)[n] = Of(n)[n]
    BY <1>2, <2>1, FollowsAgree
  <2> QED BY <2>1, <2>2, <2>3
<1> HIDE DEF f
<1>6. Follows(f, S, base, step)
  BY <1>3, <1>4, <1>5 DEF Follows
<1> QED BY <1>6

-----------------------------------------------------------------------------
(* Powers of two.                                                          *)

(* The equation that defines them has a solution.                          *)
LEMMA PowerSteps ==
  /\ Power \in [Nat -> Nat]
  /\ Power[0] = 1
  /\ \A n \in Nat : Power[n + 1] = 2 * Power[n]
<1> DEFINE step == [x \in Nat \X Nat |-> 2 * x[2]]
<1>1. step \in [Nat \X Nat -> Nat] /\ \A i, y \in Nat : step[<< i, y >>] = 2 * y
  OBVIOUS
<1> HIDE DEF step
<1>2. PICK f : /\ f \in [Nat -> Nat] /\ f[0] = 1
              /\ \A n \in Nat : f[n + 1] = step[<< n, f[n] >>]
  <2>1. 1 \in Nat /\ IsSteps(step, Nat)
    BY <1>1 DEF IsSteps
  <2>2. PICK f : Follows(f, Nat, 1, step)
    BY <2>1, Recursion
  <2> QED BY <2>2 DEF Follows
<1>3. f = [n \in Nat |-> IF n = 0 THEN 1 ELSE 2 * f[n - 1]]
  <2>1. ASSUME NEW n \in Nat PROVE f[n] = IF n = 0 THEN 1 ELSE 2 * f[n - 1]
    <3>1. CASE n = 0
      BY <3>1, <1>2
    <3>2. CASE n # 0
      <4> DEFINE j == n - 1
      <4>1. j \in Nat /\ n = j + 1
        BY <3>2
      <4> HIDE DEF j
      <4>2. f[j + 1] = 2 * f[j]
        BY <4>1, <1>1, <1>2
      <4> QED BY <4>1, <4>2, <3>2 DEF j
    <3> QED BY <3>1, <3>2
  <2> QED BY <2>1, <1>2
<1>4. Power = [n \in Nat |-> IF n = 0 THEN 1 ELSE 2 * Power[n - 1]]
  BY <1>3 DEF Power
<1>5. Power[0] = 1
  BY <1>4
<1>6. \A n \in Nat : Power[n + 1] = 2 * Power[n]
  <2> SUFFICES ASSUME NEW n \in Nat PROVE Power[n + 1] = 2 * Power[n]
    OBVIOUS
  <2>1. n + 1 \in Nat /\ n + 1 # 0 /\ (n + 1) - 1 = n
    OBVIOUS
  <2> QED BY <2>1, <1>4
<1>7. \A n \in Nat : Power[n] \in Nat
  <2> SUFFICES ASSUME \E n \in Nat : Power[n] \notin Nat PROVE FALSE
    OBVIOUS
  <2> DEFINE T == { n \in Nat : Power[n] \notin Nat }
  <2>1. PICK n \in T : \A j \in T : ~(j < n)
    <3>1. T \in SUBSET Nat /\ T # {}
      OBVIOUS
    <3> HIDE DEF T
    <3> QED BY <3>1, LeastNatural
  <2> DEFINE j == n - 1
  <2>2. n \in Nat /\ n # 0
    BY <1>5
  <2>3. j \in Nat /\ j < n /\ n = j + 1
    BY <2>2
  <2>4. Power[j] \in Nat
    BY <2>1, <2>3
  <2> HIDE DEF j
  <2>5. Power[n] = 2 * Power[j]
    BY <2>3, <1>6
  <2>6. Power[n] \in Nat
    BY <2>4, <2>5
  <2> QED BY <2>6
<1> QED BY <1>4, <1>5, <1>6, <1>7

(* They are positive.                                                      *)
LEMMA PowerType == \A n \in Nat : Power[n] \in Nat \ {0}
<1> SUFFICES ASSUME \E n \in Nat : Power[n] = 0 PROVE FALSE
  BY PowerSteps
<1> DEFINE T == { n \in Nat : Power[n] = 0 }
<1>1. PICK n \in T : \A j \in T : ~(j < n)
  <2>1. T \in SUBSET Nat /\ T # {}
    OBVIOUS
  <2> HIDE DEF T
  <2> QED BY <2>1, LeastNatural
<1> DEFINE j == n - 1
<1>2. n \in Nat /\ n # 0 /\ Power[n] = 0
  BY PowerSteps
<1>3. j \in Nat /\ j < n /\ n = j + 1
  BY <1>2
<1>4. Power[j] # 0
  BY <1>1, <1>3
<1> HIDE DEF j
<1>5. Power[n] = 2 * Power[j] /\ Power[j] \in Nat
  BY <1>3, PowerSteps
<1> QED BY <1>2, <1>4, <1>5

(* Multiplication can be done in any order.                                *)
LEMMA TimesTwo ==
  ASSUME NEW a \in Int, NEW b \in Int
  PROVE  2 * (a * b) = a * (2 * b) /\ a * b \in Int /\ a * b = b * a
OBVIOUS

(* The powers of a sum.                                                    *)
LEMMA PowerOfSum ==
  ASSUME NEW m \in Nat, NEW n \in Nat
  PROVE  Power[m + n] = Power[m] * Power[n]
<1> SUFFICES ASSUME \E k \in Nat : Power[m + k] # Power[m] * Power[k] PROVE FALSE
  OBVIOUS
<1> DEFINE T == { k \in Nat : Power[m + k] # Power[m] * Power[k] }
<1>1. PICK k \in T : \A j \in T : ~(j < k)
  <2>1. T \in SUBSET Nat /\ T # {}
    OBVIOUS
  <2> HIDE DEF T
  <2> QED BY <2>1, LeastNatural
<1>2. k \in Nat /\ Power[m + k] # Power[m] * Power[k]
  OBVIOUS
<1>3. k # 0
  <2>1. Power[m + 0] = Power[m] * Power[0]
    BY PowerSteps
  <2> QED BY <2>1, <1>2
<1> DEFINE j == k - 1
<1>4. j \in Nat /\ j < k /\ k = j + 1
  BY <1>2, <1>3
<1>5. Power[m + j] = Power[m] * Power[j]
  BY <1>1, <1>4
<1> HIDE DEF j, T
<1>6. /\ Power[j + 1] = 2 * Power[j] /\ Power[(m + j) + 1] = 2 * Power[m + j]
      /\ Power[j] \in Int /\ Power[m] \in Int
  BY <1>4, PowerSteps
<1>7. Power[k] = 2 * Power[j] /\ Power[m + k] = 2 * Power[m + j]
  <2>1. m + k = (m + j) + 1
    BY <1>4
  <2> QED BY <2>1, <1>4, <1>6
<1>8. 2 * (Power[m] * Power[j]) = Power[m] * (2 * Power[j])
  BY <1>6, TimesTwo
<1> QED BY <1>2, <1>5, <1>7, <1>8

-----------------------------------------------------------------------------
(* Division.                                                               *)

(* It has one result.                                                      *)
LEMMA DivideIs ==
  ASSUME NEW m \in Nat \ {0}, NEW n \in Int, NEW q \in Int, NEW r \in 0 .. m - 1,
         n = m * q + r
  PROVE  n \div m = q /\ n % m = r
<1> DEFINE p == n \div m
<1>1. n % m = r
  BY RestIsUnique
<1>2. p \in Int /\ n = m * p + r
  BY <1>1, DivideWithRest
<1> HIDE DEF p
<1>3. ~ p - q >= 1
  <2>1. SUFFICES ASSUME p - q >= 1 PROVE FALSE
    OBVIOUS
  <2>2. m * (p - q) >= m * 1 /\ m * (p - q) = m * p - m * q
    BY <2>1, <1>2, TimesAtLeast
  <2> QED BY <2>2, <1>2
<1>4. ~ q - p >= 1
  <2>1. SUFFICES ASSUME q - p >= 1 PROVE FALSE
    OBVIOUS
  <2>2. m * (q - p) >= m * 1 /\ m * (q - p) = m * q - m * p
    BY <2>1, <1>2, TimesAtLeast
  <2> QED BY <2>2, <1>2
<1>5. p = q
  BY <1>2, <1>3, <1>4
<1> QED BY <1>1, <1>5 DEF p

(* Dividing a natural gives a natural, no larger than what one divided by. *)
LEMMA DivideType ==
  ASSUME NEW m \in Nat \ {0}, NEW n \in Nat
  PROVE  /\ n \div m \in Nat /\ n % m \in Nat /\ n % m < m
         /\ n = m * (n \div m) + (n % m)
         /\ \A k \in Nat : n < k * m => n \div m < k
         /\ \A k \in Nat : n >= k * m => n \div m >= k
<1> DEFINE q == n \div m
           r == n % m
<1>1. q \in Int /\ r \in 0 .. m - 1 /\ n = m * q + r
  BY DivideWithRest
<1> HIDE DEF q, r
<1>2. q >= 0
  <2>1. SUFFICES ASSUME -1 >= q PROVE FALSE
    BY <1>1
  <2>2. m * (-1) >= m * q
    BY <2>1, <1>1, TimesAtLeast
  <2> QED BY <2>2, <1>1
<1>3. ASSUME NEW k \in Nat, n < k * m PROVE q < k
  <2>1. SUFFICES ASSUME q >= k PROVE FALSE
    BY <1>1
  <2>2. m * q >= m * k
    BY <2>1, <1>1, TimesAtLeast
  <2> QED BY <2>2, <1>1, <1>3
<1>4. ASSUME NEW k \in Nat, n >= k * m PROVE q >= k
  <2>1. SUFFICES ASSUME k >= q + 1 PROVE FALSE
    BY <1>1
  <2>2. m * k >= m * (q + 1) /\ m * (q + 1) = m * q + m
    BY <2>1, <1>1, TimesAtLeast
  <2> QED BY <2>2, <1>1, <1>4
<1> QED BY <1>1, <1>2, <1>3, <1>4 DEF q, r

(* Dividing twice, and the upper part of a rest.                           *)
LEMMA DivideTwice ==
  ASSUME NEW n \in Nat, NEW a \in Nat \ {0}, NEW b \in Nat \ {0}
  PROVE  /\ (n \div a) \div b = n \div (a * b)
         /\ (n % (a * b)) \div a = (n \div a) % b
         /\ (n % (a * b)) % a = n % a
<1> DEFINE q == n \div a
           r == n % a
           p == q \div b
           s == q % b
<1>1. q \in Nat /\ r \in Nat /\ r < a /\ n = a * q + r
  BY DivideType
<1>2. q \in Nat => p \in Nat /\ s \in Nat /\ s < b /\ q = b * p + s
  BY DivideType
<1> HIDE DEF p, s, q, r
<1>3. /\ a * q \in Nat /\ a * b \in Nat /\ a * s \in Nat /\ (a * b) * p \in Nat
      /\ a * q = (a * b) * p + a * s
  BY <1>1, <1>2
<1> DEFINE ab == a * b
           as == a * s
<1>4. as + r < ab /\ ab \in Nat \ {0} /\ as \in Nat
  <2>1. b >= s + 1 /\ a * (s + 1) = a * s + a
    BY <1>1, <1>2
  <2>2. a * b >= a * (s + 1)
    BY <2>1, <1>1, <1>2, TimesAtLeast
  <2> QED BY <2>1, <2>2, <1>1, <1>3
<1>5. n = ab * p + (as + r)
  BY <1>1, <1>3
<1> HIDE DEF ab
<1>6. n \div ab = p /\ n % ab = as + r
  <2>1. as + r \in 0 .. ab - 1 /\ n \in Int /\ p \in Int
    BY <1>1, <1>2, <1>4
  <2> QED BY <2>1, <1>4, <1>5, DivideIs
<1>7. (as + r) \div a = s /\ (as + r) % a = r
  <2>1. r \in 0 .. a - 1 /\ as + r \in Int /\ s \in Int
    BY <1>1, <1>2, <1>4
  <2> QED BY <2>1, DivideIs
<1> QED BY <1>6, <1>7, <1>1, <1>2 DEF ab, p, q, r, s

-----------------------------------------------------------------------------
(* The tree.                                                               *)

(* The symbols and the widths of their codes.                              *)
LEMMA Widths ==
  /\ ByteBits \in Nat /\ ByteBits > 1
  /\ Power[ByteBits] \in Nat \ {0}
  /\ Byte = 0 .. Power[ByteBits] - 1
  /\ Eof = Power[ByteBits] /\ Eof \notin Byte /\ Symbol = Byte \cup {Eof}
  /\ Symbol = 0 .. Power[ByteBits]
  /\ WordBits = 2 * ByteBits /\ MaxCodeBits = WordBits
  /\ FirstBits = ByteBits + 1 /\ SecondBits = ByteBits - 1
  /\ IsFiniteSet(Byte)
<1>1. ByteBits \in Nat /\ ByteBits > 1
  BY HuffmanAssumption, ByteBitsAssumption
<1>2. Power[ByteBits] \in Nat \ {0}
  BY <1>1, PowerType
<1> DEFINE top == Power[ByteBits]
<1>3. top \in Nat \ {0} /\ Byte = 0 .. top - 1 /\ Eof = top
  BY <1>2 DEF Byte, Eof
<1> HIDE DEF top
<1>4. Eof \notin Byte /\ Byte \cup {Eof} = 0 .. top
  BY <1>3
<1>5. IsFiniteSet(Byte)
  <2>1. 0 \in Int /\ top - 1 \in Int
    BY <1>3
  <2> QED BY <2>1, <1>3, FS_Interval
<1> QED BY <1>1, <1>2, <1>3, <1>4, <1>5
        DEF Symbol, WordBits, MaxCodeBits, FirstBits, SecondBits, top

(* The bytes at one depth.                                                 *)
Leaves(t, level) == { b \in Byte \cap DOMAIN t.depth : t.depth[b] = level }
Count(t, level) == Cardinality(Leaves(t, level))

(* There are finitely many.                                                *)
LEMMA CountType ==
  ASSUME NEW t, NEW level
  PROVE  IsFiniteSet(Leaves(t, level)) /\ Count(t, level) \in Nat
<1>1. Leaves(t, level) \in SUBSET Byte
  BY DEF Leaves
<1>2. IsFiniteSet(Leaves(t, level))
  BY <1>1, Widths, FS_Subset
<1> QED BY <1>2, FS_CardinalityType DEF Count

(* Every symbol in the tree has a depth, none deeper than n.               *)
IsTree(t) ==
  /\ DOMAIN t.depth \subseteq Symbol
  /\ \E n \in Nat : \A s \in DOMAIN t.depth : t.depth[s] \in 0 .. n

(* taken[n] of the 2^n nodes a tree has room for at depth n are leaves or  *)
(* below one; with the end marker in it one is never free for a byte.      *)
Takes(t, taken) ==
  /\ taken \in [Nat -> Nat]
  /\ taken[0] = Count(t, 0)
  /\ \A n \in Nat : taken[n + 1] = 2 * taken[n] + Count(t, n + 1)
  /\ \A n \in Nat : taken[n] <= Power[n]
  /\ Eof \in DOMAIN t.depth => \A n \in Nat : taken[n] < Power[n]

HasRoom(t) == IsTree(t) /\ \E taken : Takes(t, taken)

(* The leaf of a byte.                                                     *)
LEMMA LeafHasRoom ==
  ASSUME NEW b \in Byte, NEW frequency
  PROVE  HasRoom(Leaf(b, frequency)) /\ DOMAIN Leaf(b, frequency).depth = {b}
<1> DEFINE t == Leaf(b, frequency)
           taken == [n \in Nat |-> Power[n]]
<1>1. t.depth = [s \in {b} |-> 0]
  BY DEF Leaf
<1> HIDE DEF t
<1>2. DOMAIN t.depth = {b} /\ t.depth[b] = 0
  BY <1>1
<1>3. IsTree(t)
  <2>1. \A s \in DOMAIN t.depth : t.depth[s] \in 0 .. 0
    BY <1>2
  <2>2. 0 \in Nat /\ DOMAIN t.depth \subseteq Symbol
    BY <1>2 DEF Symbol
  <2> QED BY <2>1, <2>2 DEF IsTree
<1>4. Count(t, 0) = 1
  <2>1. Leaves(t, 0) = {b}
    BY <1>2 DEF Leaves
  <2> QED BY <2>1, FS_Singleton DEF Count
<1>5. \A n \in Nat : Count(t, n + 1) = 0
  <2> SUFFICES ASSUME NEW n \in Nat PROVE Count(t, n + 1) = 0
    OBVIOUS
  <2>1. Leaves(t, n + 1) = {}
    BY <1>2 DEF Leaves
  <2> QED BY <2>1, FS_EmptySet DEF Count
<1>6. taken \in [Nat -> Nat] /\ \A n \in Nat : taken[n] = Power[n]
  BY PowerSteps
<1> HIDE DEF taken
<1>7. taken[0] = 1 /\ \A n \in Nat : taken[n + 1] = 2 * taken[n] + 0
  BY <1>6, PowerSteps
<1>8. \A n \in Nat : taken[n] <= Power[n]
  BY <1>6
<1>9. Eof \notin DOMAIN t.depth
  BY <1>2, Widths
<1>10. Takes(t, taken)
  BY <1>4, <1>5, <1>6, <1>7, <1>8, <1>9 DEF Takes
<1> QED BY <1>2, <1>3, <1>10 DEF HasRoom, t

(* That of the end marker.                                                 *)
LEMMA EofHasRoom == HasRoom(EofNode) /\ DOMAIN EofNode.depth = {Eof}
<1> DEFINE t == EofNode
           taken == [n \in Nat |-> 0]
<1>1. t.depth = [s \in {Eof} |-> 0]
  BY DEF EofNode
<1> HIDE DEF t
<1>2. DOMAIN t.depth = {Eof} /\ t.depth[Eof] = 0
  BY <1>1
<1>3. IsTree(t)
  <2>1. \A s \in DOMAIN t.depth : t.depth[s] \in 0 .. 0
    BY <1>2
  <2>2. 0 \in Nat /\ DOMAIN t.depth \subseteq Symbol
    BY <1>2 DEF Symbol
  <2> QED BY <2>1, <2>2 DEF IsTree
<1>4. \A n \in Nat : Count(t, n) = 0
  <2> SUFFICES ASSUME NEW n \in Nat PROVE Count(t, n) = 0
    OBVIOUS
  <2>1. Leaves(t, n) = {}
    BY <1>2, Widths DEF Leaves
  <2> QED BY <2>1, FS_EmptySet DEF Count
<1>5. taken \in [Nat -> Nat] /\ \A n \in Nat : taken[n] = 0
  OBVIOUS
<1> HIDE DEF taken
<1>6. taken[0] = 0 /\ \A n \in Nat : taken[n + 1] = 2 * taken[n] + 0
  BY <1>5
<1>7. \A n \in Nat : taken[n] < Power[n]
  BY <1>5, PowerType
<1>8. \A n \in Nat : taken[n] <= Power[n]
  BY <1>5, PowerType
<1>9. Takes(t, taken)
  BY <1>4, <1>5, <1>6, <1>7, <1>8 DEF Takes
<1> QED BY <1>2, <1>3, <1>9 DEF HasRoom, t

(* Two trees under one node: each takes its half.                          *)
LEMMA JoinHasRoom ==
  ASSUME NEW a, NEW b, HasRoom(a), HasRoom(b),
         DOMAIN a.depth \cap DOMAIN b.depth = {}
  PROVE  /\ HasRoom(Join(a, b))
         /\ DOMAIN Join(a, b).depth = DOMAIN a.depth \cup DOMAIN b.depth
<1> DEFINE j == Join(a, b)
           A == DOMAIN a.depth
           B == DOMAIN b.depth
<1>1. j.depth = [s \in A \cup B |->
                   1 + IF s \in A THEN a.depth[s] ELSE b.depth[s]]
  BY DEF Join
<1> HIDE DEF j
<1>2. /\ DOMAIN j.depth = A \cup B
      /\ \A s \in A : j.depth[s] = 1 + a.depth[s]
      /\ \A s \in B : j.depth[s] = 1 + b.depth[s]
  BY <1>1
<1>3. PICK n \in Nat : \A s \in A : a.depth[s] \in 0 .. n
  BY DEF HasRoom, IsTree
<1>4. PICK m \in Nat : \A s \in B : b.depth[s] \in 0 .. m
  BY DEF HasRoom, IsTree
<1>5. A \subseteq Symbol /\ B \subseteq Symbol
  BY DEF HasRoom, IsTree
<1> HIDE DEF A, B
<1>6. IsTree(j)
  <2>1. \A s \in A \cup B : j.depth[s] \in 0 .. n + m + 1
    BY <1>2, <1>3, <1>4
  <2>2. n + m + 1 \in Nat
    OBVIOUS
  <2> QED BY <2>1, <2>2, <1>2, <1>5 DEF IsTree
<1>7. Count(j, 0) = 0
  <2>1. Leaves(j, 0) = {}
    BY <1>2, <1>3, <1>4 DEF Leaves
  <2> QED BY <2>1, FS_EmptySet DEF Count
<1>8. \A level \in Nat : Count(j, level + 1) = Count(a, level) + Count(b, level)
  <2> SUFFICES ASSUME NEW level \in Nat
               PROVE  Count(j, level + 1) = Count(a, level) + Count(b, level)
    OBVIOUS
  <2>1. Leaves(j, level + 1) = Leaves(a, level) \cup Leaves(b, level)
    BY <1>2, <1>3, <1>4 DEF Leaves, A, B
  <2>2. Leaves(a, level) \cap Leaves(b, level) = {}
    BY DEF Leaves
  <2> DEFINE L == Leaves(a, level)
             R == Leaves(b, level)
             U == Leaves(j, level + 1)
  <2>3. /\ IsFiniteSet(L) /\ Cardinality(L) \in Nat /\ Cardinality(L) = Count(a, level)
        /\ IsFiniteSet(R) /\ Cardinality(R) \in Nat /\ Cardinality(R) = Count(b, level)
        /\ Cardinality(U) = Count(j, level + 1)
    BY CountType DEF Count
  <2>4. U = L \cup R /\ L \cap R = {}
    BY <2>1, <2>2
  <2> HIDE DEF L, R, U
  <2>5. Cardinality(L \cup R) = Cardinality(L) + Cardinality(R) - Cardinality(L \cap R)
    BY <2>3, FS_Union
  <2>6. Cardinality(L \cap R) = 0
    BY <2>4, FS_EmptySet
  <2> QED BY <2>3, <2>4, <2>5, <2>6
<1>9. PICK p : Takes(a, p)
  BY DEF HasRoom
<1>10. PICK q : Takes(b, q)
  BY DEF HasRoom
<1> DEFINE taken == [i \in Nat |-> IF i = 0 THEN 0 ELSE p[i - 1] + q[i - 1]]
<1>11. /\ p \in [Nat -> Nat] /\ q \in [Nat -> Nat]
       /\ p[0] = Count(a, 0) /\ q[0] = Count(b, 0)
       /\ \A i \in Nat : p[i + 1] = 2 * p[i] + Count(a, i + 1)
       /\ \A i \in Nat : q[i + 1] = 2 * q[i] + Count(b, i + 1)
       /\ \A i \in Nat : p[i] <= Power[i] /\ q[i] <= Power[i]
       /\ Eof \in A => \A i \in Nat : p[i] < Power[i]
       /\ Eof \in B => \A i \in Nat : q[i] < Power[i]
  BY <1>9, <1>10 DEF Takes, A, B
<1>12. /\ taken \in [Nat -> Nat] /\ taken[0] = 0
       /\ \A i \in Nat : taken[i + 1] = p[i] + q[i]
  <2>1. ASSUME NEW i \in Nat PROVE taken[i + 1] = p[i] + q[i]
    <3>1. i + 1 \in Nat /\ i + 1 # 0 /\ (i + 1) - 1 = i
      OBVIOUS
    <3> QED BY <3>1
  <2>2. ASSUME NEW i \in Nat PROVE taken[i] \in Nat
    <3>1. i # 0 => i - 1 \in Nat
      OBVIOUS
    <3> QED BY <3>1, <1>11
  <2> QED BY <2>1, <2>2
<1> HIDE DEF taken
<1>13. ASSUME NEW i \in Nat
       PROVE  /\ taken[i + 1] = 2 * taken[i] + Count(j, i + 1)
              /\ taken[i] <= Power[i]
              /\ Eof \in A \cup B => taken[i] < Power[i]
  <2>1. CASE i = 0
    <3>1. taken[0 + 1] = p[0] + q[0] /\ Count(j, 0 + 1) = Count(a, 0) + Count(b, 0)
      BY <1>8, <1>12
    <3>2. Count(a, 0) \in Nat /\ Count(b, 0) \in Nat
      BY CountType
    <3> QED BY <2>1, <3>1, <3>2, <1>11, <1>12, PowerSteps
  <2>2. CASE i # 0
    <3> DEFINE k == i - 1
    <3>1. k \in Nat /\ i = k + 1
      BY <2>2
    <3> HIDE DEF k
    <3>2. /\ taken[i] = p[k] + q[k] /\ taken[i + 1] = p[i] + q[i]
          /\ p[i] = 2 * p[k] + Count(a, i) /\ q[i] = 2 * q[k] + Count(b, i)
          /\ Count(j, i + 1) = Count(a, i) + Count(b, i)
          /\ p[k] \in Nat /\ q[k] \in Nat
      BY <3>1, <1>8, <1>11, <1>12
    <3>3. /\ Count(a, i) \in Nat /\ Count(b, i) \in Nat
          /\ Power[i] = 2 * Power[k] /\ Power[k] \in Nat
      BY <3>1, CountType, PowerSteps
    <3>4. p[k] <= Power[k] /\ q[k] <= Power[k]
      BY <3>1, <1>11
    <3>5. Eof \in A \cup B => p[k] < Power[k] \/ q[k] < Power[k]
      BY <3>1, <1>11
    <3> QED BY <3>2, <3>3, <3>4, <3>5
  <2> QED BY <2>1, <2>2
<1>14. Takes(j, taken)
  BY <1>2, <1>7, <1>12, <1>13 DEF Takes
<1> QED BY <1>2, <1>6, <1>14 DEF HasRoom, j, A, B

(* The queue of trees: every byte that occurs and the end marker is in one *)
(* of them, and in no other.                                               *)
Planted(forest, table) ==
  /\ \A t \in forest : HasRoom(t)
  /\ \A t, u \in forest : t # u => DOMAIN t.depth \cap DOMAIN u.depth = {}
  /\ \E t \in forest : Eof \in DOMAIN t.depth
  /\ \A b \in Byte : table[b] > 0 => \E t \in forest : b \in DOMAIN t.depth

(* The leaves the constructor begins with.                                 *)
LEMMA ForestIsPlanted ==
  ASSUME NEW table \in [Byte -> Nat]
  PROVE  Planted(Forest(table), table)
<1> DEFINE forest == Forest(table)
<1>1. \A t \in forest : t = EofNode \/ \E b \in Byte : t = Leaf(b, table[b])
  BY DEF Forest
<1>2. /\ EofNode \in forest
      /\ \A b \in Byte : table[b] > 0 => Leaf(b, table[b]) \in forest
  BY DEF Forest
<1> HIDE DEF forest
<1>3. \A t \in forest : HasRoom(t)
  BY <1>1, LeafHasRoom, EofHasRoom
<1>4. ASSUME NEW t \in forest, NEW u \in forest, t # u
      PROVE  DOMAIN t.depth \cap DOMAIN u.depth = {}
  <2>1. Eof \notin Byte
    BY Widths
  <2>2. CASE t = EofNode
    <3>1. PICK b \in Byte : u = Leaf(b, table[b])
      BY <1>1, <1>4, <2>2
    <3> QED BY <2>1, <2>2, <3>1, LeafHasRoom, EofHasRoom
  <2>3. CASE t # EofNode
    <3>1. PICK b \in Byte : t = Leaf(b, table[b])
      BY <1>1, <2>3
    <3>2. CASE u = EofNode
      BY <2>1, <3>1, <3>2, LeafHasRoom, EofHasRoom
    <3>3. CASE u # EofNode
      <4>1. PICK c \in Byte : u = Leaf(c, table[c])
        BY <1>1, <3>3
      <4>2. b # c
        BY <1>4, <3>1, <4>1
      <4> QED BY <3>1, <4>1, <4>2, LeafHasRoom
    <3> QED BY <3>2, <3>3
  <2> QED BY <2>2, <2>3
<1>5. \E t \in forest : Eof \in DOMAIN t.depth
  BY <1>2, EofHasRoom
<1>7. \A b \in Byte : table[b] > 0 => \E t \in forest : b \in DOMAIN t.depth
  BY <1>2, LeafHasRoom
<1>6. Planted(forest, table)
  BY <1>3, <1>4, <1>5, <1>7 DEF Planted
<1> QED BY <1>6 DEF forest

(* One turn of its loop.                                                   *)
LEMMA JoinIsPlanted ==
  ASSUME NEW forest, NEW table, Planted(forest, table),
         NEW left \in forest, NEW right \in forest, left # right
  PROVE  Planted((forest \ {left, right}) \cup {Join(left, right)}, table)
<1> DEFINE j == Join(left, right)
           rest == forest \ {left, right}
<1>1. /\ \A t \in forest : HasRoom(t)
      /\ \A t, u \in forest : t # u => DOMAIN t.depth \cap DOMAIN u.depth = {}
  BY DEF Planted
<1>2. PICK e \in forest : Eof \in DOMAIN e.depth
  BY DEF Planted
<1>3. /\ HasRoom(j)
      /\ DOMAIN j.depth = DOMAIN left.depth \cup DOMAIN right.depth
  BY <1>1, JoinHasRoom
<1> HIDE DEF j
<1>4. \A t \in rest \cup {j} : HasRoom(t)
  BY <1>1, <1>3
<1>5. \A t \in rest : DOMAIN t.depth \cap DOMAIN j.depth = {}
  BY <1>1, <1>3
<1>6. \A t, u \in rest \cup {j} : t # u => DOMAIN t.depth \cap DOMAIN u.depth = {}
  BY <1>1, <1>5
<1>7. \E t \in rest \cup {j} : Eof \in DOMAIN t.depth
  BY <1>2, <1>3
<1>8. \A b \in Byte : table[b] > 0 => \E t \in rest \cup {j} : b \in DOMAIN t.depth
  <2> SUFFICES ASSUME NEW b \in Byte, table[b] > 0
               PROVE  \E t \in rest \cup {j} : b \in DOMAIN t.depth
    OBVIOUS
  <2>1. PICK t \in forest : b \in DOMAIN t.depth
    BY DEF Planted
  <2> QED BY <2>1, <1>3
<1> QED BY <1>4, <1>6, <1>7, <1>8 DEF Planted, j

-----------------------------------------------------------------------------
(* The lengths of the codes.                                               *)

(* The bits of a byte are its depth in the tree, and there is a longest.   *)
LEMMA PathBitsType ==
  ASSUME NEW t, IsTree(t)
  PROVE  /\ PathBits(t) \in [Byte -> Nat]
         /\ Max(Range(PathBits(t))) \in Nat
         /\ \A b \in Byte : PathBits(t)[b] <= Max(Range(PathBits(t)))
         /\ \A n \in Nat : n # 0 => Having(PathBits(t), n) = Leaves(t, n)
<1> DEFINE bits == PathBits(t)
<1>1. PICK n \in Nat : \A s \in DOMAIN t.depth : t.depth[s] \in 0 .. n
  BY DEF IsTree
<1>2. /\ bits \in [Byte -> 0 .. n]
      /\ \A b \in Byte : bits[b] = IF b \in DOMAIN t.depth THEN t.depth[b] ELSE 0
  BY <1>1 DEF PathBits
<1> HIDE DEF bits
<1>3. Range(bits) \in SUBSET (0 .. n) /\ \A b \in Byte : bits[b] \in Range(bits)
  BY <1>2 DEF Range
<1>4. 0 \in Byte
  BY Widths
<1>5. Max(Range(bits)) \in Range(bits) /\ \A j \in Range(bits) : Max(Range(bits)) >= j
  BY <1>3, <1>4, MaxOfBounded
<1> DEFINE max == Max(Range(bits))
<1>6. max \in 0 .. n /\ \A b \in Byte : bits[b] <= max
  BY <1>2, <1>3, <1>5
<1>7. \A m \in Nat : m # 0 => Having(bits, m) = Leaves(t, m)
  BY <1>2 DEF Having, Leaves
<1> HIDE DEF max
<1>8. bits \in [Byte -> Nat] /\ max \in Nat
  BY <1>2, <1>6
<1> QED BY <1>6, <1>7, <1>8 DEF bits, max

(* The first codes: what the loop of GenerateCanonicalEncodeMap counts.    *)
CountsUp(first, bits, max) ==
  /\ DOMAIN first = 1 .. max + 1
  /\ first[1] = 0
  /\ \A l \in 1 .. max :
       first[l + 1] = (2 * (first[l] + Cardinality(Having(bits, l)))) % Power[WordBits]

(* That is what the model's function does.                                 *)
LEMMA FirstCodesCountUp ==
  ASSUME NEW bits, NEW max \in Nat, max = Max(Range(bits)), bits \in [Byte -> Nat]
  PROVE  CountsUp(FirstCodes(bits), bits, max)
<1> DEFINE P == Power[WordBits]
           C == [l \in Nat |-> Cardinality(Having(bits, l))]
           step == [x \in Nat \X Nat |-> (2 * (x[2] + C[x[1] + 1])) % P]
<1>1. C \in [Nat -> Nat] /\ \A l \in Nat : C[l] = Cardinality(Having(bits, l))
  <2>1. ASSUME NEW l \in Nat PROVE Cardinality(Having(bits, l)) \in Nat
    <3>1. Having(bits, l) \in SUBSET Byte
      BY DEF Having
    <3> QED BY <3>1, Widths, FS_Subset, FS_CardinalityType
  <2> QED BY <2>1
<1>2. P \in Nat \ {0}
  BY Widths, PowerType
<1> HIDE DEF P, C
<1>3. /\ step \in [Nat \X Nat -> Nat]
      /\ \A i, y \in Nat : step[<< i, y >>] = (2 * (y + C[i + 1])) % P
  <2>1. ASSUME NEW x \in Nat \X Nat PROVE (2 * (x[2] + C[x[1] + 1])) % P \in Nat
    <3>1. x[2] \in Nat /\ x[1] + 1 \in Nat
      OBVIOUS
    <3>2. 2 * (x[2] + C[x[1] + 1]) \in Nat
      BY <3>1, <1>1
    <3> QED BY <3>2, <1>2, DivideType
  <2> QED BY <2>1
<1> HIDE DEF step
<1>4. PICK g : Follows(g, Nat, 0, step)
  <2>1. 0 \in Nat /\ IsSteps(step, Nat)
    BY <1>3 DEF IsSteps
  <2> QED BY <2>1, Recursion
<1>5. g \in [Nat -> Nat] /\ g[0] = 0
  BY <1>4 DEF Follows
<1>6. \A i \in Nat : g[i + 1] = (2 * (g[i] + C[i + 1])) % P
  BY <1>3, <1>4, <1>5 DEF Follows
<1> DEFINE f == [length \in 1 .. max + 1 |-> g[length - 1]]
           Body(h, length) == IF length = 1 THEN 0
                              ELSE (2 * (h[length - 1]
                                         + Cardinality(Having(bits, length - 1)))) % P
<1>7. f = [length \in 1 .. max + 1 |-> Body(f, length)]
  <2>1. ASSUME NEW length \in 1 .. max + 1 PROVE g[length - 1] = Body(f, length)
    <3>1. CASE length = 1
      BY <3>1, <1>5
    <3>2. CASE length # 1
      <4> DEFINE i == length - 2
      <4>1. i \in Nat /\ length = i + 2 /\ length - 1 = i + 1 /\ i + 1 \in 1 .. max + 1
        BY <3>2
      <4>2. f[i + 1] = g[i]
        <5>1. (i + 1) - 1 = i
          BY <4>1
        <5> QED BY <4>1, <5>1
      <4> HIDE DEF i, f
      <4>3. g[i + 1] = (2 * (g[i] + C[i + 1])) % P
        BY <4>1, <1>6
      <4>4. C[length - 1] = Cardinality(Having(bits, length - 1))
        BY <4>1, <1>1
      <4> QED BY <4>1, <4>2, <4>3, <4>4, <3>2
    <3> QED BY <3>1, <3>2
  <2> QED BY <2>1
<1> DEFINE F == FirstCodes(bits)
<1>8. F = CHOOSE h : h = [length \in 1 .. max + 1 |-> Body(h, length)]
  BY DEF FirstCodes, P
<1>9. F = [length \in 1 .. max + 1 |-> Body(F, length)]
  BY <1>7, <1>8
<1> HIDE DEF F
<1>10. DOMAIN F = 1 .. max + 1 /\ F[1] = 0
  <2>1. 1 \in 1 .. max + 1
    OBVIOUS
  <2> QED BY <2>1, <1>9
<1>11. ASSUME NEW l \in 1 .. max PROVE F[l + 1] = (2 * (F[l] + C[l])) % P
  <2>1. l + 1 \in 1 .. max + 1 /\ l + 1 # 1 /\ (l + 1) - 1 = l
    OBVIOUS
  <2>2. F[l + 1] = Body(F, l + 1)
    BY <2>1, <1>9
  <2>3. C[l] = Cardinality(Having(bits, l))
    BY <1>1
  <2> QED BY <2>1, <2>2, <2>3
<1> QED BY <1>1, <1>10, <1>11 DEF CountsUp, F, P

(* The first code of a length is twice what is taken one level higher, as  *)
(* long as it fits the uint16_t.                                           *)
LEMMA FirstIsTaken ==
  ASSUME NEW t, IsTree(t), NEW taken, Takes(t, taken), Eof \in DOMAIN t.depth,
         NEW l \in 1 .. Max(Range(PathBits(t))) + 1, l <= WordBits
  PROVE  FirstCodes(PathBits(t))[l] = 2 * taken[l - 1]
<1> DEFINE bits == PathBits(t)
           max == Max(Range(bits))
           first == FirstCodes(bits)
           Bad(k) == k \in 1 .. max + 1 /\ k <= WordBits /\ first[k] # 2 * taken[k - 1]
           T == { k \in Nat : Bad(k) }
<1>1. /\ bits \in [Byte -> Nat] /\ max \in Nat
      /\ \A n \in Nat : n # 0 => Having(bits, n) = Leaves(t, n)
  BY PathBitsType
<1>2. CountsUp(first, bits, max)
  BY <1>1, FirstCodesCountUp
<1>3. /\ taken \in [Nat -> Nat] /\ taken[0] = Count(t, 0)
      /\ \A n \in Nat : taken[n + 1] = 2 * taken[n] + Count(t, n + 1)
      /\ \A n \in Nat : taken[n] < Power[n]
  BY DEF Takes
<1>4. taken[0] = 0
  BY <1>3, PowerSteps
<1>5. l \in 1 .. max + 1
  OBVIOUS
<1> HIDE DEF bits, max, first
<1> SUFFICES ASSUME Bad(l) PROVE FALSE
  BY <1>5 DEF bits, max, first
<1>6. PICK k \in T : \A j \in T : ~(j < k)
  <2>1. T \in SUBSET Nat /\ T # {}
    BY <1>1
  <2> HIDE DEF T
  <2> QED BY <2>1, LeastNatural
<1>7. k \in Nat /\ Bad(k)
  OBVIOUS
<1>8. k # 1
  BY <1>2, <1>4, <1>7 DEF CountsUp
<1> DEFINE j == k - 1
           i == k - 2
<1>9. /\ j \in Nat /\ i \in Nat /\ j < k /\ k = j + 1 /\ j = i + 1 /\ j \in 1 .. max
      /\ j # 0 /\ j \in 1 .. max + 1 /\ j - 1 = i /\ k - 1 = j
  BY <1>1, <1>7, <1>8
<1>10. WordBits \in Nat
  BY Widths
<1>11. first[j] = 2 * taken[i]
  <2>1. j \notin T
    BY <1>6, <1>9
  <2>2. j <= WordBits
    BY <1>7, <1>9, <1>10
  <2> QED BY <2>1, <2>2, <1>9
<1>12. k <= WordBits /\ first[k] # 2 * taken[j]
  BY <1>7, <1>9
<1> HIDE DEF T, j, i, Bad
<1>13. first[k] = (2 * (first[j] + Count(t, j))) % Power[WordBits]
  <2>1. first[j + 1] = (2 * (first[j] + Cardinality(Having(bits, j)))) % Power[WordBits]
    BY <1>2, <1>9 DEF CountsUp
  <2> QED BY <2>1, <1>1, <1>9 DEF Count
<1>14. first[j] + Count(t, j) = taken[j]
  <2>1. taken[i + 1] = 2 * taken[i] + Count(t, i + 1)
    BY <1>3, <1>9
  <2> QED BY <2>1, <1>9, <1>11
<1>15. 2 * taken[j] \in Nat /\ 2 * taken[j] < Power[WordBits]
  <2> DEFINE d == WordBits - k
  <2>1. d \in Nat /\ WordBits = k + d
    BY <1>9, <1>10, <1>12
  <2> HIDE DEF d
  <2>2. Power[WordBits] = Power[k] * Power[d] /\ Power[k] = 2 * Power[j]
    BY <2>1, <1>9, PowerOfSum, PowerSteps
  <2>3. Power[k] * Power[d] >= Power[k] * 1
    <3>1. Power[k] \in Nat \ {0} /\ Power[d] \in Nat /\ Power[d] >= 1
      BY <2>1, <1>9, PowerType
    <3> QED BY <3>1, TimesAtLeast
  <2>4. taken[j] \in Nat /\ taken[j] < Power[j] /\ Power[j] \in Nat
    BY <1>3, <1>9, PowerSteps
  <2>5. Power[WordBits] \in Nat /\ Power[WordBits] >= Power[k]
    <3>1. Power[WordBits] \in Nat /\ Power[k] \in Nat
      BY <1>9, <1>10, PowerSteps
    <3> QED BY <3>1, <2>2, <2>3
  <2> QED BY <2>2, <2>4, <2>5
<1>16. (2 * taken[j]) % Power[WordBits] = 2 * taken[j]
  <2>1. Power[WordBits] \in Nat \ {0}
    BY <1>10, PowerType
  <2> DEFINE P == Power[WordBits]
             v == 2 * taken[j]
  <2>2. P \in Nat \ {0} /\ v \in Nat /\ v < P
    BY <2>1, <1>15
  <2> HIDE DEF P, v
  <2>3. v % P = v
    BY <2>2
  <2> QED BY <2>3 DEF P, v
<1> QED BY <1>12, <1>13, <1>14, <1>16

-----------------------------------------------------------------------------
(* The codes: each has the bits of its path, and its value is between what *)
(* the shorter codes and, together with them, the codes of its own length  *)
(* have taken.                                                             *)
Canonical(coding, taken) ==
  /\ \A s \in Symbol : coding[s].value \in Nat /\ coding[s].bits \in Nat
  /\ \A s \in Symbol : coding[s].bits # 0 =>
       /\ coding[s].value >= 2 * taken[coding[s].bits - 1]
       /\ coding[s].value < Power[coding[s].bits]
  /\ \A s \in Byte : coding[s].bits # 0 =>
       coding[s].value < taken[coding[s].bits] /\ coding[s].bits < coding[Eof].bits
  /\ \A s, t \in Byte : s # t /\ coding[s].bits = coding[t].bits /\ coding[s].bits # 0 =>
       coding[s].value # coding[t].value

(* The codes of a tree, as long as none is longer than a uint16_t.         *)
LEMMA CodesAreCanonical ==
  ASSUME NEW tree, IsTree(tree), NEW taken, Takes(tree, taken),
         Eof \in DOMAIN tree.depth,
         \A s \in Symbol : CanonicalCodes(tree)[s].bits <= MaxCodeBits
  PROVE  Canonical(CanonicalCodes(tree), taken)
<1> DEFINE coding == CanonicalCodes(tree)
           bits == PathBits(tree)
           max == Max(Range(bits))
           first == FirstCodes(bits)
           Before(b) == { c \in Having(bits, bits[b]) : c < b }
<1>1. /\ bits \in [Byte -> Nat] /\ max \in Nat
      /\ \A b \in Byte : bits[b] <= max
      /\ \A n \in Nat : n # 0 => Having(bits, n) = Leaves(tree, n)
  BY PathBitsType
<1>2. /\ taken \in [Nat -> Nat]
      /\ \A n \in Nat : taken[n + 1] = 2 * taken[n] + Count(tree, n + 1)
      /\ \A n \in Nat : taken[n] < Power[n]
  BY DEF Takes
<1>3. \A l \in 1 .. max + 1 : l <= WordBits => first[l] = 2 * taken[l - 1]
  BY FirstIsTaken
<1>4. /\ coding[Eof].value = IF max = 0 THEN 0 ELSE first[max + 1]
      /\ coding[Eof].bits = IF max = 0 THEN 0 ELSE max + 1
  BY DEF CanonicalCodes, MarkerBits, Symbol
<1>5. \A b \in Byte : IF bits[b] = 0
                        THEN coding[b].value = 0 /\ coding[b].bits = 0
                        ELSE /\ coding[b].value = first[bits[b]] + Cardinality(Before(b))
                             /\ coding[b].bits = bits[b]
  BY Widths DEF CanonicalCodes
<1>6. \A s \in Symbol : coding[s].bits <= WordBits
  BY Widths
<1>7. WordBits \in Nat /\ Symbol = Byte \cup {Eof} /\ Byte \subseteq Nat /\ Eof \notin Byte
  BY Widths
<1> HIDE DEF coding, bits, max, first, Before
<1>8. ASSUME NEW b \in Byte
      PROVE  /\ IsFiniteSet(Before(b)) /\ Cardinality(Before(b)) \in Nat
             /\ Cardinality(Before(b) \cup {b}) = Cardinality(Before(b)) + 1
  <2>1. Before(b) \in SUBSET Byte /\ b \notin Before(b)
    BY <1>7 DEF Before, Having
  <2>2. IsFiniteSet(Before(b)) /\ Cardinality(Before(b)) \in Nat
    BY <2>1, Widths, FS_Subset, FS_CardinalityType
  <2> QED BY <2>1, <2>2, FS_AddElement
<1>9. ASSUME NEW b \in Byte, bits[b] # 0
      PROVE  /\ coding[b].bits = bits[b] /\ bits[b] \in Nat /\ bits[b] <= max
             /\ bits[b] - 1 \in Nat /\ taken[bits[b] - 1] \in Nat /\ taken[bits[b]] \in Nat
             /\ coding[b].value = 2 * taken[bits[b] - 1] + Cardinality(Before(b))
             /\ coding[b].value < taken[bits[b]]
  <2> DEFINE n == bits[b]
             i == bits[b] - 1
  <2>1. /\ n \in Nat /\ n <= max /\ i \in Nat /\ n = i + 1 /\ n \in 1 .. max + 1
        /\ coding[b].bits = n /\ n <= WordBits /\ n - 1 = i
    BY <1>1, <1>5, <1>6, <1>7, <1>9
  <2>2. coding[b].value = first[n] + Cardinality(Before(b))
    BY <1>5, <1>9
  <2>3. Before(b) \cup {b} \subseteq Leaves(tree, n)
    <3>1. Having(bits, n) = Leaves(tree, n)
      BY <1>1, <1>9
    <3> QED BY <3>1 DEF Before, Having
  <2>4. n = bits[b] /\ i = bits[b] - 1
    OBVIOUS
  <2> HIDE DEF n, i
  <2>5. Cardinality(Before(b) \cup {b}) <= Count(tree, n)
    BY <2>3, CountType, FS_Subset DEF Count
  <2>6. first[n] = 2 * taken[i] /\ taken[n] = 2 * taken[i] + Count(tree, n)
    BY <2>1, <1>2, <1>3
  <2>7. taken[i] \in Nat /\ taken[n] \in Nat /\ Count(tree, n) \in Nat
    BY <2>1, <1>2, CountType
  <2>8. /\ coding[b].value = 2 * taken[i] + Cardinality(Before(b))
        /\ coding[b].value < taken[n]
    BY <2>2, <2>5, <2>6, <2>7, <1>8
  <2> QED BY <2>1, <2>4, <2>7, <2>8
<1>10. ASSUME max # 0
       PROVE  /\ coding[Eof].bits = max + 1
              /\ coding[Eof].value = 2 * taken[max]
              /\ taken[max] \in Nat /\ taken[max] < Power[max]
  <2>1. coding[Eof].bits = max + 1 /\ max + 1 <= WordBits
    BY <1>4, <1>6, <1>7, <1>10
  <2>2. max + 1 \in 1 .. max + 1 /\ (max + 1) - 1 = max
    BY <1>1
  <2> QED BY <2>1, <2>2, <1>1, <1>2, <1>3, <1>4, <1>10
<1>11. ASSUME NEW s \in Symbol
       PROVE  coding[s].value \in Nat /\ coding[s].bits \in Nat
  <2>1. CASE s = Eof
    BY <2>1, <1>1, <1>4, <1>10
  <2>2. CASE s # Eof /\ bits[s] = 0
    BY <2>2, <1>5, <1>7
  <2>3. CASE s # Eof /\ bits[s] # 0
    <3>1. s \in Byte /\ Cardinality(Before(s)) \in Nat
      BY <2>3, <1>7, <1>8
    <3>2. /\ coding[s].bits = bits[s] /\ bits[s] \in Nat
          /\ taken[bits[s] - 1] \in Nat
          /\ coding[s].value = 2 * taken[bits[s] - 1] + Cardinality(Before(s))
      BY <2>3, <3>1, <1>9
    <3> QED BY <3>1, <3>2
  <2> QED BY <2>1, <2>2, <2>3
<1>12. ASSUME NEW s \in Symbol, coding[s].bits # 0
       PROVE  /\ coding[s].value >= 2 * taken[coding[s].bits - 1]
              /\ coding[s].value < Power[coding[s].bits]
  <2>1. CASE s = Eof
    <3>1. max # 0
      BY <2>1, <1>4, <1>12
    <3>2. Power[max + 1] = 2 * Power[max] /\ Power[max] \in Nat
      BY <1>1, PowerSteps
    <3>3. (max + 1) - 1 = max
      BY <1>1
    <3> QED BY <2>1, <3>1, <3>2, <3>3, <1>10
  <2>2. CASE s # Eof
    <3>1. s \in Byte /\ bits[s] # 0
      BY <2>2, <1>5, <1>7, <1>12
    <3>2. taken[bits[s]] < Power[bits[s]] /\ Power[bits[s]] \in Nat
      BY <3>1, <1>9, <1>2, PowerSteps
    <3>3. Cardinality(Before(s)) \in Nat
      BY <3>1, <1>8
    <3> QED BY <3>1, <3>2, <3>3, <1>9
  <2> QED BY <2>1, <2>2
<1>13. ASSUME NEW s \in Byte, coding[s].bits # 0
       PROVE  coding[s].value < taken[coding[s].bits] /\ coding[s].bits < coding[Eof].bits
  <2>1. bits[s] # 0
    BY <1>5, <1>13
  <2>2. max # 0
    BY <2>1, <1>1, <1>9
  <2> QED BY <2>1, <2>2, <1>1, <1>9, <1>10
<1>14. ASSUME NEW s \in Byte, NEW t \in Byte, s < t,
              coding[s].bits = coding[t].bits, coding[s].bits # 0
       PROVE  coding[s].value # coding[t].value
  <2>1. bits[s] # 0 /\ bits[t] # 0 /\ bits[s] = bits[t]
    BY <1>5, <1>14
  <2>2. Before(s) \cup {s} \subseteq Before(t)
    BY <2>1, <1>7, <1>14 DEF Before, Having
  <2>3. Cardinality(Before(s) \cup {s}) <= Cardinality(Before(t))
    BY <2>2, <1>8, FS_Subset
  <2>4. /\ coding[s].value = 2 * taken[bits[s] - 1] + Cardinality(Before(s))
        /\ coding[t].value = 2 * taken[bits[s] - 1] + Cardinality(Before(t))
        /\ taken[bits[s] - 1] \in Nat
    BY <2>1, <1>9
  <2>5. /\ Cardinality(Before(s)) \in Nat /\ Cardinality(Before(t)) \in Nat
        /\ Cardinality(Before(s) \cup {s}) = Cardinality(Before(s)) + 1
    BY <1>8
  <2> QED BY <2>3, <2>4, <2>5
<1>15. ASSUME NEW s \in Byte, NEW t \in Byte, s # t,
              coding[s].bits = coding[t].bits, coding[s].bits # 0
       PROVE  coding[s].value # coding[t].value
  <2>1. s \in Nat /\ t \in Nat
    BY <1>7
  <2>2. CASE s < t
    BY <2>2, <1>14, <1>15
  <2>3. CASE t < s
    BY <2>3, <1>14, <1>15
  <2> QED BY <2>1, <2>2, <2>3, <1>15
<1> QED BY <1>11, <1>12, <1>13, <1>15 DEF Canonical, coding

(* What is taken at a depth is taken below it too.                         *)
LEMMA TakenBelow ==
  ASSUME NEW t, NEW taken, Takes(t, taken), NEW m \in Nat, NEW d \in Nat
  PROVE  taken[m + d] >= taken[m] * Power[d]
<1> DEFINE Bad(k) == ~ taken[m + k] >= taken[m] * Power[k]
           T == { k \in Nat : Bad(k) }
<1> SUFFICES ASSUME Bad(d) PROVE FALSE
  OBVIOUS
<1>1. PICK k \in T : \A j \in T : ~(j < k)
  <2>1. T \in SUBSET Nat /\ T # {}
    OBVIOUS
  <2> HIDE DEF T
  <2> QED BY <2>1, LeastNatural
<1>2. k \in Nat /\ Bad(k)
  OBVIOUS
<1>3. /\ taken \in [Nat -> Nat]
      /\ \A n \in Nat : taken[n + 1] = 2 * taken[n] + Count(t, n + 1)
  BY DEF Takes
<1>4. k # 0
  <2>1. Power[0] = 1 /\ m + 0 = m /\ taken[m] \in Nat
    BY <1>3, PowerSteps
  <2> QED BY <2>1, <1>2
<1> DEFINE j == k - 1
<1>5. j \in Nat /\ j < k /\ k = j + 1 /\ m + k = (m + j) + 1 /\ m + j \in Nat
  BY <1>2, <1>4
<1>6. taken[m + j] >= taken[m] * Power[j]
  BY <1>1, <1>5
<1> HIDE DEF T, j
<1>7. taken[m + k] = 2 * taken[m + j] + Count(t, m + k)
  BY <1>3, <1>5
<1>8. /\ Power[k] = 2 * Power[j] /\ Power[j] \in Nat /\ taken[m] \in Nat
      /\ taken[m + j] \in Nat /\ Count(t, m + k) \in Nat
  BY <1>3, <1>5, PowerSteps, CountType
<1>9. taken[m] * Power[k] = 2 * (taken[m] * Power[j]) /\ taken[m] * Power[j] \in Int
  BY <1>8, TimesTwo
<1>10. taken[m + k] >= taken[m] * Power[k]
  BY <1>6, <1>7, <1>8, <1>9
<1> QED BY <1>2, <1>10

(* So no code begins another.                                              *)
LEMMA NoCodeBegins ==
  ASSUME NEW t, NEW taken, Takes(t, taken), NEW coding, Canonical(coding, taken),
         NEW s \in Symbol, NEW u \in Symbol, s # u,
         coding[s].bits # 0, coding[s].bits <= coding[u].bits
  PROVE  coding[u].value \div Power[coding[u].bits - coding[s].bits] # coding[s].value
<1> DEFINE m == coding[s].bits
           n == coding[u].bits
           v == coding[s].value
           w == coding[u].value
<1>1. m \in Nat /\ n \in Nat /\ v \in Nat /\ w \in Nat /\ m # 0 /\ n # 0 /\ m <= n
  BY DEF Canonical
<1>2. w >= 2 * taken[n - 1]
  BY <1>1 DEF Canonical
<1>3. s \in Byte
  <2>1. SUFFICES ASSUME s = Eof PROVE FALSE
    BY DEF Symbol
  <2>2. u \in Byte
    BY <2>1 DEF Symbol
  <2>3. n < m
    BY <1>1, <2>1, <2>2 DEF Canonical
  <2> QED BY <2>3, <1>1
<1>4. v < taken[m]
  BY <1>1, <1>3 DEF Canonical
<1>5. m = n => u \in Byte /\ v # w
  <2> SUFFICES ASSUME m = n PROVE u \in Byte /\ v # w
    OBVIOUS
  <2>1. u \in Byte
    <3>1. SUFFICES ASSUME u = Eof PROVE FALSE
      BY DEF Symbol
    <3>2. m < n
      BY <1>1, <1>3, <3>1 DEF Canonical
    <3> QED BY <3>2, <1>1
  <2> QED BY <2>1, <1>1, <1>3 DEF Canonical
<1>6. taken \in [Nat -> Nat]
  BY DEF Takes
<1> SUFFICES w \div Power[n - m] # v
  OBVIOUS
<1> HIDE DEF m, n, v, w
<1>7. CASE m = n
  <2>1. n - m = 0 /\ Power[0] = 1
    BY <1>1, <1>7, PowerSteps
  <2>2. w \div 1 = w
    BY <1>1
  <2> QED BY <2>1, <2>2, <1>5, <1>7
<1>8. CASE m # n
  <2> DEFINE d == n - 1 - m
  <2>1. d \in Nat /\ n - m = d + 1 /\ n - 1 = m + d
    BY <1>1, <1>8
  <2> HIDE DEF d
  <2>2. taken[m + d] >= taken[m] * Power[d]
    BY <1>1, <2>1, TakenBelow
  <2>3. /\ Power[d + 1] = 2 * Power[d] /\ Power[d] \in Nat /\ Power[d + 1] \in Nat \ {0}
        /\ taken[m] \in Nat /\ taken[m + d] \in Nat
    BY <1>1, <1>6, <2>1, PowerSteps, PowerType
  <2>4. taken[m] * Power[d + 1] = 2 * (taken[m] * Power[d]) /\ taken[m] * Power[d] \in Int
    BY <2>3, TimesTwo
  <2>5. w >= taken[m] * Power[d + 1]
    BY <1>1, <1>2, <2>1, <2>2, <2>3, <2>4
  <2>6. w \div Power[d + 1] >= taken[m] /\ w \div Power[d + 1] \in Nat
    BY <1>1, <2>3, <2>5, DivideType
  <2>7. w \div Power[d + 1] # v
    BY <2>3, <2>6, <1>1, <1>4
  <2> QED BY <2>1, <2>7
<1> QED BY <1>7, <1>8

-----------------------------------------------------------------------------
(* Construction.                                                           *)

(* While it builds, the queue is a forest with room; what it has built are *)
(* the codes of one tree, and their decode map unless a code is too long.  *)
Built ==
  \E tree : /\ HasRoom(tree) /\ Eof \in DOMAIN tree.depth
            /\ \A b \in Byte : frequencies[b] > 0 => b \in DOMAIN tree.depth
            /\ codes = CanonicalCodes(tree)
            /\ pc # "refused" =>
                 /\ \A s \in Symbol : codes[s].bits <= MaxCodeBits
                 /\ decodeMap = DecodeMapOf(codes)

Construction ==
  /\ pc = "building" => Planted(trees, frequencies)
  /\ pc # "building" => Built

(* It holds of the leaves.                                                *)
LEMMA InitConstruction == Init => Construction
<1> SUFFICES ASSUME Init PROVE Construction
  OBVIOUS
<1>1. frequencies \in [Byte -> Nat]
  BY HuffmanAssumption DEF Init
<1>2. Planted(trees, frequencies)
  BY <1>1, ForestIsPlanted DEF Init
<1> QED BY <1>2 DEF Init, Construction

(* A code has some number of bits.                                         *)
LEMMA CodeBitsType ==
  ASSUME NEW tree, IsTree(tree), NEW s \in Symbol
  PROVE  CanonicalCodes(tree)[s].bits \in Nat
<1> DEFINE bits == PathBits(tree)
           max == Max(Range(bits))
<1>1. bits \in [Byte -> Nat] /\ max \in Nat
  BY PathBitsType
<1>2. CanonicalCodes(tree)[s].bits = IF s = Eof THEN MarkerBits(max) ELSE bits[s]
  BY Widths DEF CanonicalCodes
<1> HIDE DEF bits, max
<1>3. s # Eof => s \in Byte
  BY DEF Symbol
<1> QED BY <1>1, <1>2, <1>3 DEF MarkerBits

(* What GenerateMaps does.                                                 *)
LEMMA GenerateMapsBuilds ==
  ASSUME Planted(trees, frequencies), GenerateMaps
  PROVE  pc' # "building" /\ Built'
<1>1. PICK tree \in trees : trees = {tree} /\ codes' = CanonicalCodes(tree)
  BY DEF GenerateMaps
<1>2. /\ HasRoom(tree) /\ Eof \in DOMAIN tree.depth
      /\ \A b \in Byte : frequencies[b] > 0 => b \in DOMAIN tree.depth
      /\ frequencies' = frequencies
  BY <1>1 DEF Planted, GenerateMaps
<1>3. /\ pc' = "refused" \/ pc' = "ready"
      /\ pc' # "refused" =>
           /\ \A s \in Symbol : codes'[s].bits <= MaxCodeBits
           /\ decodeMap' = DecodeMapOf(codes')
  <2>1. CASE \E s \in Symbol : codes'[s].bits > MaxCodeBits
    BY <2>1 DEF GenerateMaps
  <2>2. CASE ~ \E s \in Symbol : codes'[s].bits > MaxCodeBits
    <3>1. \A s \in Symbol : codes'[s].bits <= MaxCodeBits
      <4>1. ASSUME NEW s \in Symbol PROVE codes'[s].bits <= MaxCodeBits
        <5>1. codes'[s].bits \in Nat
          BY <1>1, <1>2, CodeBitsType DEF HasRoom
        <5>2. MaxCodeBits \in Nat
          BY Widths
        <5> QED BY <2>2, <5>1, <5>2
      <4> QED BY <4>1
    <3> QED BY <2>2, <3>1 DEF GenerateMaps
  <2> QED BY <2>1, <2>2
<1> QED BY <1>1, <1>2, <1>3 DEF Built

(* Every step keeps it.                                                    *)
LEMMA NextConstruction == Construction /\ [Next]_vars => Construction'
<1> SUFFICES ASSUME Construction, [Next]_vars PROVE Construction'
  OBVIOUS
<1>1. CASE JoinTrees
  <2>1. pc = "building" /\ pc' = pc /\ frequencies' = frequencies
    BY <1>1 DEF JoinTrees
  <2>2. PICK left \in trees : \E right \in trees : left # right /\
          trees' = (trees \ {left, right}) \cup {Join(left, right)}
    BY <1>1 DEF JoinTrees, Tops
  <2>3. Planted(trees', frequencies)
    BY <2>1, <2>2, JoinIsPlanted DEF Construction
  <2> QED BY <2>1, <2>3 DEF Construction
<1>2. CASE GenerateMaps
  <2>1. Planted(trees, frequencies)
    BY <1>2 DEF GenerateMaps, Construction
  <2> QED BY <1>2, <2>1, GenerateMapsBuilds DEF Construction
<1>3. CASE DecodeEncoded \/ DecodeStranger \/ DecodeStep
  <2>1. /\ pc \in {"ready", "decoding"}
        /\ pc' \in {"decoding", "decoded", "corrupt"}
        /\ UNCHANGED <<frequencies, codes, decodeMap>>
    BY <1>3 DEF DecodeEncoded, DecodeStranger, BeginDecode, DecodeStep, Stop, Take
  <2> QED BY <2>1 DEF Construction, Built
<1>4. CASE UNCHANGED vars
  BY <1>4 DEF vars, Construction, Built
<1> QED BY <1>1, <1>2, <1>3, <1>4 DEF Next

(* No code begins another.                                                 *)
LEMMA BuiltIsPrefixFree == ASSUME Construction PROVE PrefixFree
<1> SUFFICES ASSUME pc = "ready",
                    NEW s \in Symbol, NEW u \in Symbol,
                    codes[s].bits > 0, codes[u].bits > 0,
                    s # u, codes[s].bits <= codes[u].bits
             PROVE  codes[u].value \div Power[codes[u].bits - codes[s].bits]
                      # codes[s].value
  BY DEF PrefixFree
<1>1. PICK tree : /\ HasRoom(tree) /\ Eof \in DOMAIN tree.depth
                  /\ codes = CanonicalCodes(tree)
                  /\ \A r \in Symbol : codes[r].bits <= MaxCodeBits
  BY DEF Construction, Built
<1>2. PICK taken : Takes(tree, taken)
  BY <1>1 DEF HasRoom
<1>3. Canonical(codes, taken)
  BY <1>1, <1>2, CodesAreCanonical DEF HasRoom
<1>4. codes[s].bits # 0
  OBVIOUS
<1> QED BY <1>2, <1>3, <1>4, NoCodeBegins

(* The code of no symbol begins with that of another, for every width of a *)
(* byte and every table: GenerateCanonicalEncodeMap and the end marker.    *)
THEOREM CodesArePrefixFree == Spec => []PrefixFree
<1>1. Init => Construction
  BY InitConstruction
<1>2. Construction /\ [Next]_vars => Construction'
  BY NextConstruction
<1>3. Construction => PrefixFree
  BY BuiltIsPrefixFree
<1> QED BY <1>1, <1>2, <1>3, PTL DEF Spec

-----------------------------------------------------------------------------
(* The stream.                                                             *)

(* Multiplication.                                                         *)
LEMMA Times ==
  ASSUME NEW a \in Int, NEW b \in Int, NEW c \in Int
  PROVE  /\ a * b \in Int /\ (a * b) * c = a * (b * c)
         /\ (a + b) * c = a * c + b * c /\ a * b = b * a
OBVIOUS

(* So does it of naturals.                                                 *)
LEMMA TimesNat ==
  ASSUME NEW a \in Nat, NEW b \in Nat
  PROVE  a * b \in Nat
OBVIOUS

(* The byte at an index from zero; past the end one reads zeros.           *)
ByteIn(buffer, i) == IF i < Len(buffer) THEN buffer[i + 1] ELSE 0

(* Number(buffer)[k] is the number that its first k bytes write.           *)
Numbers(buffer, number) ==
  /\ number \in [Nat -> Nat]
  /\ number[0] = 0
  /\ \A k \in Nat : number[k + 1] = number[k] * Power[ByteBits] + ByteIn(buffer, k)

Number(buffer) == CHOOSE number : Numbers(buffer, number)

(* Every byte is one, those past the end included.                         *)
LEMMA ByteInType ==
  ASSUME NEW b \in Seq(Byte), NEW i \in Nat
  PROVE  ByteIn(b, i) \in Byte /\ ByteIn(b, i) \in Nat
<1>1. 0 \in Byte /\ Byte \subseteq Nat
  BY Widths
<1>2. i < Len(b) => i + 1 \in DOMAIN b
  OBVIOUS
<1>3. \A j \in DOMAIN b : b[j] \in Byte
  OBVIOUS
<1> QED BY <1>1, <1>2, <1>3 DEF ByteIn

(* There is such a number.                                                 *)
LEMMA NumberExists ==
  ASSUME NEW b \in Seq(Byte)
  PROVE  Numbers(b, Number(b))
<1> DEFINE P == Power[ByteBits]
           B == [i \in Nat |-> ByteIn(b, i)]
           step == [x \in Nat \X Nat |-> x[2] * P + B[x[1]]]
<1>1. P \in Nat
  BY Widths
<1>2. B \in [Nat -> Nat] /\ \A i \in Nat : B[i] = ByteIn(b, i)
  BY ByteInType
<1> HIDE DEF P, B
<1>3. /\ step \in [Nat \X Nat -> Nat]
      /\ \A i, y \in Nat : step[<< i, y >>] = y * P + B[i]
  <2>1. ASSUME NEW x \in Nat \X Nat PROVE x[2] * P + B[x[1]] \in Nat
    <3>1. x[2] \in Nat /\ B[x[1]] \in Nat
      BY <1>2
    <3>2. x[2] * P \in Nat
      BY <3>1, <1>1, TimesNat
    <3> QED BY <3>1, <3>2
  <2> QED BY <2>1
<1> HIDE DEF step
<1>4. PICK f : Follows(f, Nat, 0, step)
  <2>1. 0 \in Nat /\ IsSteps(step, Nat)
    BY <1>3 DEF IsSteps
  <2> QED BY <2>1, Recursion
<1>5. f \in [Nat -> Nat] /\ f[0] = 0
  BY <1>4 DEF Follows
<1>6. \A k \in Nat : f[k + 1] = f[k] * P + ByteIn(b, k)
  BY <1>2, <1>3, <1>4, <1>5 DEF Follows
<1>7. Numbers(b, f)
  BY <1>5, <1>6 DEF Numbers, P
<1> QED BY <1>7 DEF Number

(* What it does byte by byte.                                              *)
LEMMA NumberSteps ==
  ASSUME NEW b \in Seq(Byte), NEW k \in Nat
  PROVE  /\ Number(b)[0] = 0 /\ Number(b)[k] \in Nat /\ Number(b)[k + 1] \in Nat
         /\ Number(b)[k + 1] = Number(b)[k] * Power[ByteBits] + ByteIn(b, k)
<1>1. Numbers(b, Number(b))
  BY NumberExists
<1> DEFINE number == Number(b)
<1> HIDE DEF number
<1>2. /\ number \in [Nat -> Nat] /\ number[0] = 0
      /\ number[k + 1] = number[k] * Power[ByteBits] + ByteIn(b, k)
  BY <1>1 DEF Numbers, number
<1>3. number[k] \in Nat /\ number[k + 1] \in Nat
  BY <1>2
<1> QED BY <1>2, <1>3 DEF number

(* It depends on the bytes alone.                                          *)
LEMMA NumberAgrees ==
  ASSUME NEW a \in Seq(Byte), NEW b \in Seq(Byte), NEW n \in Nat,
         \A i \in Nat : i < n => ByteIn(a, i) = ByteIn(b, i)
  PROVE  Number(a)[n] = Number(b)[n]
<1> DEFINE Bad(k) == k <= n /\ Number(a)[k] # Number(b)[k]
           T == { k \in Nat : Bad(k) }
<1> SUFFICES ASSUME Bad(n) PROVE FALSE
  OBVIOUS
<1>1. PICK k \in T : \A j \in T : ~(j < k)
  <2>1. T \in SUBSET Nat /\ T # {}
    OBVIOUS
  <2> HIDE DEF T
  <2> QED BY <2>1, LeastNatural
<1>2. k \in Nat /\ Bad(k)
  OBVIOUS
<1>3. k # 0
  BY <1>2, NumberSteps
<1> DEFINE j == k - 1
<1>4. j \in Nat /\ j < k /\ k = j + 1 /\ j < n /\ j <= n
  BY <1>2, <1>3
<1>5. Number(a)[j] = Number(b)[j]
  BY <1>1, <1>4
<1> HIDE DEF T, j
<1>6. Number(a)[k] = Number(b)[k]
  BY <1>4, <1>5, NumberSteps
<1> QED BY <1>2, <1>6

(* Replacing an element of a sequence.                                     *)
LEMMA ReplaceElement ==
  ASSUME NEW S, NEW b \in Seq(S), NEW i \in 1 .. Len(b), NEW x \in S
  PROVE  /\ [b EXCEPT ![i] = x] \in Seq(S) /\ Len([b EXCEPT ![i] = x]) = Len(b)
         /\ [b EXCEPT ![i] = x][i] = x
         /\ \A j \in 1 .. Len(b) : j # i => [b EXCEPT ![i] = x][j] = b[j]
OBVIOUS

(* Adding to the last byte adds to the number.                             *)
LEMMA OrIntoLast ==
  ASSUME NEW b \in Seq(Byte), Len(b) # 0, NEW x \in Nat, b[Len(b)] + x \in Byte
  PROVE  /\ OrInto(b, Len(b) - 1, x) \in Seq(Byte)
         /\ Len(OrInto(b, Len(b) - 1, x)) = Len(b)
         /\ Number(OrInto(b, Len(b) - 1, x))[Len(b)] = Number(b)[Len(b)] + x
<1> DEFINE n == Len(b)
           k == Len(b) - 1
           y == b[Len(b)] + x
           c == OrInto(b, k, x)
<1>1. /\ n \in Nat /\ k \in Nat /\ n = k + 1 /\ n \in 1 .. Len(b) /\ n = Len(b)
      /\ y \in Byte /\ y = b[n] + x /\ \A i \in 1 .. k : i \in 1 .. Len(b) /\ i # n
  <2>1. Len(b) \in Nat
    OBVIOUS
  <2> QED BY <2>1
<1> HIDE DEF n, k, y
<1>2. c = [b EXCEPT ![n] = y]
  BY <1>1 DEF OrInto
<1> HIDE DEF c
<1>3. c \in Seq(Byte) /\ Len(c) = n /\ c[n] = y
  BY <1>1, <1>2, ReplaceElement
<1>4. \A i \in 1 .. k : c[i] = b[i]
  BY <1>1, <1>2, ReplaceElement
<1>5. \A i \in Nat : i < k => ByteIn(c, i) = ByteIn(b, i)
  <2> SUFFICES ASSUME NEW i \in Nat, i < k PROVE ByteIn(c, i) = ByteIn(b, i)
    OBVIOUS
  <2>1. i + 1 \in 1 .. k /\ i < n
    BY <1>1
  <2> QED BY <2>1, <1>1, <1>3, <1>4 DEF ByteIn
<1>6. ByteIn(c, k) = b[n] + x /\ ByteIn(b, k) = b[n]
  <2>1. k < n /\ k + 1 = n
    BY <1>1
  <2> QED BY <2>1, <1>1, <1>3 DEF ByteIn
<1>7. b[n] \in Nat
  <2>1. b[n] \in Byte
    BY <1>1
  <2> QED BY <2>1, Widths
<1>8. Number(c)[k] = Number(b)[k]
  BY <1>1, <1>3, <1>5, NumberAgrees
<1>9. Number(c)[n] = Number(c)[k] * Power[ByteBits] + (b[n] + x)
  BY <1>1, <1>3, <1>6, NumberSteps
<1>10. Number(b)[n] = Number(b)[k] * Power[ByteBits] + b[n]
  BY <1>1, <1>6, NumberSteps
<1>11. Number(b)[k] * Power[ByteBits] \in Nat
  <2>1. Number(b)[k] \in Nat /\ Power[ByteBits] \in Nat
    BY <1>1, NumberSteps, Widths
  <2> QED BY <2>1, TimesNat
<1>12. Number(c)[n] = Number(b)[n] + x
  BY <1>7, <1>8, <1>9, <1>10, <1>11
<1> QED BY <1>3, <1>12 DEF n, k, y, c

(* A byte behind the others.                                               *)
LEMMA OrIntoNew ==
  ASSUME NEW b \in Seq(Byte), NEW x \in Byte
  PROVE  /\ OrInto(Append(b, 0), Len(b), x) \in Seq(Byte)
         /\ Len(OrInto(Append(b, 0), Len(b), x)) = Len(b) + 1
         /\ Number(OrInto(Append(b, 0), Len(b), x))[Len(b) + 1]
              = Number(b)[Len(b)] * Power[ByteBits] + x
<1> DEFINE a == Append(b, 0)
           n == Len(b)
<1>1. 0 \in Byte /\ x \in Nat
  BY Widths
<1>2. /\ a \in Seq(Byte) /\ Len(a) = n + 1 /\ n \in Nat /\ a[n + 1] = 0
      /\ \A i \in 1 .. n : a[i] = b[i]
  BY <1>1
<1>3. \A i \in Nat : i < n => ByteIn(a, i) = ByteIn(b, i)
  <2> SUFFICES ASSUME NEW i \in Nat, i < n PROVE ByteIn(a, i) = ByteIn(b, i)
    OBVIOUS
  <2>1. i + 1 \in 1 .. n /\ i < n + 1
    BY <1>2
  <2> HIDE DEF a
  <2> QED BY <2>1, <1>2 DEF ByteIn
<1>4. ByteIn(a, n) = 0
  <2>1. n < n + 1
    BY <1>2
  <2> HIDE DEF a, n
  <2> QED BY <2>1, <1>2 DEF ByteIn
<1>5. a[Len(a)] + x \in Byte /\ Len(a) # 0 /\ Len(a) - 1 = n
  <2>1. a[n + 1] + x = x
    BY <1>1, <1>2
  <2> QED BY <2>1, <1>2
<1> HIDE DEF a, n
<1>6. Number(a)[n + 1] = Number(b)[n] * Power[ByteBits] + 0
  <2>1. Number(a)[n] = Number(b)[n]
    BY <1>2, <1>3, NumberAgrees
  <2> QED BY <2>1, <1>2, <1>4, NumberSteps
<1>7. Number(b)[n] * Power[ByteBits] \in Nat
  <2>1. Number(b)[n] \in Nat /\ Power[ByteBits] \in Nat
    BY <1>2, NumberSteps, Widths
  <2> QED BY <2>1, TimesNat
<1>8. /\ OrInto(a, n, x) \in Seq(Byte) /\ Len(OrInto(a, n, x)) = n + 1
      /\ Number(OrInto(a, n, x))[n + 1] = Number(a)[n + 1] + x
  BY <1>1, <1>2, <1>5, OrIntoLast
<1>9. Number(OrInto(a, n, x))[n + 1] = Number(b)[n] * Power[ByteBits] + x
  BY <1>1, <1>6, <1>7, <1>8
<1> QED BY <1>8, <1>9 DEF a, n

(* The bits written to a stream are those of a number; the bits that are   *)
(* free in its last byte are zero.                                         *)
Room(stream) == Len(stream.buffer) * ByteBits - stream.write

Written(stream, X) ==
  /\ stream \in [buffer : Seq(Byte), write : Nat]
  /\ Room(stream) \in 0 .. ByteBits - 1
  /\ Number(stream.buffer)[Len(stream.buffer)] = X * Power[Room(stream)]

(* What is written fills the last byte to a multiple of its free bits.     *)
LEMMA LastByteHasRoom ==
  ASSUME NEW b \in Seq(Byte), Len(b) # 0, NEW X \in Nat, NEW f \in 0 .. ByteBits,
         Number(b)[Len(b)] = X * Power[f]
  PROVE  b[Len(b)] \in Nat /\ b[Len(b)] + Power[f] <= Power[ByteBits]
<1> DEFINE n == Len(b)
           k == n - 1
           g == ByteBits - f
           last == b[n]
           q == Number(b)[k]
           F == Power[f]
           G == Power[g]
           P == Power[ByteBits]
<1>1. n \in Nat /\ k \in Nat /\ n = k + 1 /\ n \in 1 .. n
  OBVIOUS
<1>2. last \in Nat /\ last < P /\ P \in Nat
  <2>1. last \in Byte
    BY <1>1
  <2> QED BY <2>1, Widths
<1>3. g \in Nat /\ f \in Nat /\ ByteBits = f + g
  BY Widths
<1>4. P = F * G /\ F \in Nat \ {0} /\ G \in Nat \ {0}
  <2> HIDE DEF g
  <2>1. Power[f + g] = Power[f] * Power[g]
    BY <1>3, PowerOfSum
  <2> QED BY <2>1, <1>3, PowerType
<1>5. X * F = q * P + last /\ q \in Nat
  <2>1. ByteIn(b, k) = last
    BY <1>1 DEF ByteIn
  <2> HIDE DEF last, k
  <2>2. Number(b)[k + 1] = Number(b)[k] * P + ByteIn(b, k) /\ Number(b)[k] \in Nat
    BY <1>1, NumberSteps
  <2> QED BY <2>1, <2>2, <1>1
<1> HIDE DEF n, k, g, last, q, F, G, P
<1> DEFINE z == X - q * G
<1>6. z \in Int /\ F * z = last
  <2>1. q * G \in Int /\ (q * G) * F = q * (G * F) /\ G * F = F * G
    BY <1>4, <1>5, Times
  <2>2. (X - q * G) * F = X * F - (q * G) * F
    BY <2>1, <1>4, Times
  <2>3. z * F = last
    BY <2>1, <2>2, <1>2, <1>4, <1>5
  <2> QED BY <2>1, <2>3, <1>4, Times
<1> HIDE DEF z
<1>7. ~ z >= G
  <2>1. SUFFICES ASSUME z >= G PROVE FALSE
    OBVIOUS
  <2>2. F * z >= F * G
    BY <2>1, <1>4, <1>6, TimesAtLeast
  <2> QED BY <2>2, <1>2, <1>4, <1>6
<1>8. F * (G - 1) >= F * z /\ F * (G - 1) = F * G - F
  <2>1. G - 1 >= z
    BY <1>4, <1>6, <1>7
  <2>2. F * (G - 1) >= F * z
    BY <2>1, <1>4, <1>6, TimesAtLeast
  <2>3. F * (G - 1) = F * G - F
    BY <1>4
  <2> QED BY <2>2, <2>3
<1>9. last + F <= P
  BY <1>2, <1>4, <1>6, <1>8
<1> QED BY <1>2, <1>9 DEF n, last, F, P

(* Where the next bit goes.                                                *)
LEMMA WriteIndex ==
  ASSUME NEW stream, NEW X \in Nat, Written(stream, X)
  PROVE  /\ Room(stream) = 0 =>
              /\ stream.write \div ByteBits = Len(stream.buffer)
              /\ stream.write % ByteBits = 0
         /\ Room(stream) # 0 =>
              /\ Len(stream.buffer) # 0
              /\ stream.write \div ByteBits = Len(stream.buffer) - 1
              /\ stream.write % ByteBits = ByteBits - Room(stream)
<1> DEFINE n == Len(stream.buffer)
           w == stream.write
           f == Room(stream)
           B == ByteBits
<1>1. n \in Nat /\ w \in Nat /\ f \in 0 .. B - 1 /\ f = n * B - w /\ B \in Nat \ {0}
  BY Widths DEF Written, Room
<1> HIDE DEF n, w, f, B
<1>2. n * B \in Nat /\ n * B = B * n
  BY <1>1, TimesNat, Times
<1>3. ASSUME f = 0 PROVE w \div B = n /\ w % B = 0
  <2>1. w = B * n + 0 /\ 0 \in 0 .. B - 1 /\ w \in Int /\ n \in Int
    BY <1>1, <1>2, <1>3
  <2> QED BY <2>1, <1>1, DivideIs
<1>4. ASSUME f # 0 PROVE n # 0 /\ w \div B = n - 1 /\ w % B = B - f
  <2>1. n # 0
    BY <1>1, <1>4
  <2>2. B * (n - 1) = B * n - B
    BY <1>1
  <2>3. w = B * (n - 1) + (B - f) /\ B - f \in 0 .. B - 1 /\ w \in Int /\ n - 1 \in Int
    BY <2>2, <1>1, <1>2, <1>4
  <2>4. w \div B = n - 1 /\ w % B = B - f
    BY <2>3, <1>1, DivideIs
  <2> QED BY <2>1, <2>4
<1> QED BY <1>3, <1>4 DEF n, w, f, B

(* The new bits fit the byte that is there, begin a byte, or do both.      *)
PushedHere(stream, top) ==
  OrInto(stream.buffer, Len(stream.buffer) - 1, top \div Power[ByteBits - Room(stream)])

PushedNew(buffer, top) == OrInto(Append(buffer, 0), Len(buffer), top)

(* Those are the cases of Push.                                            *)
LEMMA PushCases ==
  ASSUME NEW stream, NEW X \in Nat, Written(stream, X),
         NEW v \in Nat, NEW n \in 0 .. ByteBits, n # 0,
         NEW top, top = (v % Power[n]) * Power[ByteBits - n], top \in Nat
  PROVE  /\ PushByte(stream, v, n) = [buffer |-> PushByte(stream, v, n).buffer,
                                      write |-> stream.write + n]
         /\ PushByte(stream, v, n).write = stream.write + n
         /\ Room(stream) = 0 =>
              PushByte(stream, v, n).buffer = PushedNew(stream.buffer, top)
         /\ (Room(stream) # 0 /\ n <= Room(stream)) =>
              PushByte(stream, v, n).buffer = PushedHere(stream, top)
         /\ (Room(stream) # 0 /\ n > Room(stream)) =>
              PushByte(stream, v, n).buffer =
                OrInto(Append(PushedHere(stream, top), 0), Len(stream.buffer),
                       (top * Power[Room(stream)]) % Power[ByteBits])
<1> DEFINE b == stream.buffer
           f == Room(stream)
           bitIndex == stream.write % ByteBits
           byteIndex == stream.write \div ByteBits
           here == OrInto(IF bitIndex = 0 THEN Append(b, 0) ELSE b, byteIndex,
                          top \div Power[bitIndex])
           spills == bitIndex # 0 /\ n > ByteBits - bitIndex
           pushed == PushByte(stream, v, n)
<1>1. AtMost(n, ByteBits) = n
  BY Widths DEF AtMost
<1>2. pushed = [buffer |-> IF spills
                             THEN OrInto(Append(here, 0), byteIndex + 1,
                                         Spilled(top, bitIndex))
                             ELSE here,
                write |-> stream.write + n]
  BY <1>1 DEF PushByte
<1>9. pushed = [buffer |-> pushed.buffer, write |-> stream.write + n]
  BY <1>2
<1>3. ByteBits \in Nat /\ f \in 0 .. ByteBits - 1 /\ Len(b) \in Nat
  BY Widths DEF Written
<1>4. /\ f = 0 => byteIndex = Len(b) /\ bitIndex = 0
      /\ f # 0 => byteIndex = Len(b) - 1 /\ bitIndex = ByteBits - f
  BY WriteIndex
<1> HIDE DEF f, bitIndex, byteIndex, pushed
<1>5. CASE f = 0
  <2>1. top \div Power[0] = top
    BY PowerSteps
  <2>2. pushed.buffer = OrInto(Append(b, 0), Len(b), top)
    BY <2>1, <1>2, <1>4, <1>5
  <2>3. pushed.write = stream.write + n
    BY <1>2
  <2> QED BY <2>2, <2>3, <1>5, <1>9 DEF PushedNew, pushed, f
<1>6. CASE f # 0
  <2>1. bitIndex # 0 /\ ByteBits - bitIndex = f /\ byteIndex + 1 = Len(b)
    BY <1>3, <1>4, <1>6
  <2>2. here = PushedHere(stream, top)
    BY <2>1, <1>4, <1>6 DEF PushedHere, f
  <2>3. pushed.write = stream.write + n
    BY <1>2
  <2>4. Spilled(top, bitIndex) = (top * Power[f]) % Power[ByteBits]
    BY <2>1 DEF Spilled
  <2>5. spills <=> n > f
    BY <2>1
  <2> HIDE DEF here, spills
  <2>6. n <= f => ~ n > f
    BY <1>3
  <2> QED BY <2>1, <2>2, <2>3, <2>4, <2>5, <2>6, <1>2, <1>6, <1>9 DEF pushed, f
<1> QED BY <1>5, <1>6

(* Shifting a number and what follows it.                                  *)
LEMMA Spread ==
  ASSUME NEW X \in Int, NEW N \in Int, NEW u \in Int, NEW K \in Int
  PROVE  (X * N + u) * K = X * (N * K) + u * K /\ X * N \in Int /\ u * K \in Int
<1>1. X * N \in Int /\ u * K \in Int
  BY Times
<1>2. (X * N + u) * K = (X * N) * K + u * K
  BY <1>1, Times
<1>3. (X * N) * K = X * (N * K)
  BY Times
<1> QED BY <1>1, <1>2, <1>3

(* What is less than one factor is, shifted by the other, less than both.  *)
LEMMA ShiftedBelow ==
  ASSUME NEW u \in Nat, NEW N \in Nat \ {0}, NEW K \in Nat \ {0}, u < N
  PROVE  u * K \in Nat /\ u * K + K <= N * K
<1>1. K * (N - 1) >= K * u
  <2>1. N - 1 >= u
    OBVIOUS
  <2> QED BY <2>1, TimesAtLeast
<1>2. K * (N - 1) = K * N - K /\ K * u = u * K /\ K * N = N * K
  BY Times
<1>3. u * K \in Nat /\ N * K \in Nat
  BY TimesNat
<1> QED BY <1>1, <1>2, <1>3

(* Pushing bits into a stream appends them to its number.                  *)
LEMMA PushByteWrites ==
  ASSUME NEW stream, NEW X \in Nat, Written(stream, X),
         NEW v \in Nat, NEW n \in 0 .. ByteBits
  PROVE  /\ PushByte(stream, v, n).write = stream.write + n
         /\ X * Power[n] + (v % Power[n]) \in Nat
         /\ Written(PushByte(stream, v, n), X * Power[n] + (v % Power[n]))
<1> DEFINE b == stream.buffer
           B == ByteBits
           f == Room(stream)
           L == Len(b)
           N == Power[n]
           u == v % N
           P == Power[B]
           M == Power[B - n]
           top == u * M
           pushed == PushByte(stream, v, n)
<1>1. /\ b \in Seq(Byte) /\ stream.write \in Nat /\ f \in 0 .. B - 1 /\ L \in Nat
      /\ f = L * B - stream.write /\ L * B \in Int
      /\ Number(b)[L] = X * Power[f]
  <2>1. L \in Nat /\ L * B \in Int
    BY Widths, Times DEF Written
  <2> QED BY <2>1 DEF Written, Room
<1>2. B \in Nat /\ n \in Nat /\ B - n \in Nat /\ n <= B
  BY Widths
<1>3. N \in Nat \ {0} /\ M \in Nat \ {0} /\ P \in Nat \ {0} /\ Byte = 0 .. P - 1
  BY <1>2, PowerType, Widths
<1>4. P = N * M
  <2> DEFINE k == B - n
  <2>1. k \in Nat /\ B = n + k
    BY <1>2
  <2> HIDE DEF k
  <2>2. Power[n + k] = Power[n] * Power[k]
    BY <1>2, <2>1, PowerOfSum
  <2> QED BY <2>1, <2>2 DEF k
<1>5. u \in Nat /\ u < N
  BY <1>3, DivideType
<1>6. X * N + u \in Nat
  BY <1>3, <1>5, TimesNat
<1>7. CASE n = 0
  <2>1. pushed = stream
    <3>1. AtMost(n, ByteBits) = 0
      BY <1>2, <1>7 DEF AtMost
    <3> QED BY <3>1 DEF PushByte
  <2>2. N = 1
    BY <1>7, PowerSteps
  <2>3. X * N + u = X
    BY <1>5, <2>2
  <2>4. stream.write + n = stream.write
    BY <1>1, <1>7
  <2> QED BY <2>1, <2>3, <2>4, <1>6
<1>8. CASE n # 0
  <2>1. top \in Nat /\ top + M <= P
    BY <1>3, <1>4, <1>5, ShiftedBelow
  <2>2. /\ pushed.write = stream.write + n /\ stream.write + n \in Nat
        /\ pushed = [buffer |-> pushed.buffer, write |-> stream.write + n]
    BY <2>1, <1>1, <1>2, <1>8, PushCases
  <2>3. ASSUME NEW free \in 0 .. B - 1, pushed.buffer \in Seq(Byte),
               Len(pushed.buffer) * B = stream.write + n + free,
               Number(pushed.buffer)[Len(pushed.buffer)] = (X * N + u) * Power[free]
        PROVE  Written(pushed, X * N + u)
    <3>1. Room(pushed) = free
      BY <2>2, <2>3, <1>1, <1>2 DEF Room
    <3>2. pushed \in [buffer : Seq(Byte), write : Nat]
      BY <2>2, <2>3
    <3> QED BY <3>1, <3>2, <2>3 DEF Written
  <2> SUFFICES Written(pushed, X * N + u)
    BY <2>2, <1>6
  <2>4. CASE f = 0
    <3>1. pushed.buffer = PushedNew(b, top)
      BY <2>1, <2>4, <1>8, PushCases
    <3>2. top \in Byte
      BY <2>1, <1>3
    <3>3. /\ pushed.buffer \in Seq(Byte) /\ Len(pushed.buffer) = L + 1
          /\ Number(pushed.buffer)[L + 1] = Number(b)[L] * P + top
      <4>1. pushed.buffer = OrInto(Append(b, 0), Len(b), top)
        BY <3>1 DEF PushedNew
      <4> HIDE DEF pushed, b, top, P
      <4>2. /\ OrInto(Append(b, 0), Len(b), top) \in Seq(Byte)
            /\ Len(OrInto(Append(b, 0), Len(b), top)) = Len(b) + 1
            /\ Number(OrInto(Append(b, 0), Len(b), top))[Len(b) + 1]
                 = Number(b)[Len(b)] * Power[ByteBits] + top
        BY <3>2, <1>1, OrIntoNew
      <4> QED BY <4>1, <4>2 DEF P
    <3>4. (X * N + u) * M = X * P + top
      BY <1>3, <1>4, <1>5, Spread
    <3>5. Number(b)[L] = X
      BY <1>1, <2>4, PowerSteps
    <3>6. (L + 1) * B = stream.write + n + (B - n)
      <4> HIDE DEF L, b, f
      <4>1. (L + 1) * B = L * B + B
        BY <1>1, <1>2
      <4> QED BY <4>1, <1>1, <1>2, <2>4
    <3>7. B - n \in 0 .. B - 1
      BY <1>2, <1>8
    <3> HIDE DEF pushed, L, N, u, M, P, b, f, top
    <3> QED BY <3>3, <3>4, <3>5, <3>6, <3>7, <2>3 DEF M
  <2>5. CASE f # 0 /\ n <= f
    <3> DEFINE K == Power[f - n]
               F == Power[f]
               G == Power[B - f]
               x == top \div G
    <3>1. f - n \in Nat /\ B - f \in Nat /\ f \in Nat /\ f <= B
      BY <1>1, <1>2, <2>5
    <3>2. K \in Nat \ {0} /\ F \in Nat \ {0} /\ G \in Nat \ {0}
      BY <3>1, PowerType
    <3>3. F = N * K
      <4> DEFINE k == f - n
      <4>1. k \in Nat /\ f = n + k
        BY <3>1, <1>2
      <4> HIDE DEF k, f
      <4>2. Power[n + k] = Power[n] * Power[k]
        BY <1>2, <4>1, PowerOfSum
      <4> QED BY <4>1, <4>2 DEF k
    <3>4. M = K * G
      <4> DEFINE k == f - n
                 g == B - f
      <4>1. k \in Nat /\ g \in Nat /\ B - n = k + g
        BY <3>1, <1>2
      <4> HIDE DEF k, g, f
      <4>2. Power[k + g] = Power[k] * Power[g]
        BY <4>1, PowerOfSum
      <4> QED BY <4>1, <4>2 DEF k, g
    <3>5. pushed.buffer = OrInto(b, L - 1, x) /\ L # 0
      <4>1. pushed.buffer = PushedHere(stream, top)
        BY <2>1, <2>5, <1>8, PushCases
      <4>2. L # 0
        BY <2>5, WriteIndex
      <4> QED BY <4>1, <4>2 DEF PushedHere
    <3>6. b[L] \in Nat /\ b[L] + F <= P
      <4>1. f \in 0 .. ByteBits
        BY <1>1, <1>2
      <4> QED BY <4>1, <3>5, <1>1, LastByteHasRoom
    <3>7. /\ f \in Int /\ f = L * B - stream.write /\ L * B \in Int /\ L \in Nat
          /\ Number(b)[L] = X * F
      BY <1>1
    <3> HIDE DEF L, N, u, M, P, b, f, K, F, G
    <3>8. u * K \in Nat /\ u * K + K <= F
      BY <1>3, <1>5, <3>2, <3>3, ShiftedBelow
    <3>9. x = u * K
      <4>1. top = G * (u * K) + 0
        <5>1. (u * K) * G = u * (K * G) /\ (u * K) * G = G * (u * K)
          BY <1>5, <3>2, <3>8, Times
        <5> QED BY <5>1, <3>4, <3>8, <3>2, TimesNat
      <4>2. top \in Int /\ u * K \in Int /\ 0 \in 0 .. G - 1
        BY <2>1, <3>2, <3>8
      <4> HIDE DEF top
      <4> QED BY <4>1, <4>2, <3>2, DivideIs
    <3>10. x \in Nat /\ b[L] + x \in Byte
      BY <3>2, <3>6, <3>8, <3>9, <1>3
    <3> HIDE DEF x, pushed
    <3>11. /\ pushed.buffer \in Seq(Byte) /\ Len(pushed.buffer) = L
           /\ Number(pushed.buffer)[L] = Number(b)[L] + x
      BY <3>5, <3>10, <1>1, OrIntoLast DEF L
    <3>12. (X * N + u) * K = X * F + u * K
      BY <1>3, <1>5, <3>2, <3>3, Spread
    <3>13. L * B = stream.write + n + (f - n) /\ f - n \in 0 .. B - 1
      BY <3>1, <3>7, <1>1, <1>2, <1>8
    <3> QED BY <3>7, <3>9, <3>11, <3>12, <3>13, <2>3 DEF K
  <2>6. CASE f # 0 /\ n > f
    <3> DEFINE e == n - f
               E == Power[e]
               F == Power[f]
               G == Power[B - f]
               R == Power[B - e]
               here == PushedHere(stream, top)
               x == top \div G
               y == (top * F) % P
               q == u \div E
               r == u % E
    <3>1. e \in Nat /\ e # 0 /\ B - f \in Nat /\ f \in Nat /\ B - e \in Nat /\ e <= B
      BY <1>1, <1>2, <2>6
    <3>2. E \in Nat \ {0} /\ F \in Nat \ {0} /\ G \in Nat \ {0} /\ R \in Nat \ {0}
      BY <3>1, PowerType
    <3>3. N = F * E
      <4>1. n = f + e
        BY <3>1, <1>2
      <4> HIDE DEF e, f
      <4>2. Power[f + e] = Power[f] * Power[e]
        BY <3>1, PowerOfSum
      <4> QED BY <4>1, <4>2
    <3>4. G = M * E
      <4> DEFINE k == B - n
      <4>1. k \in Nat /\ B - f = k + e
        BY <3>1, <1>2
      <4> HIDE DEF k, e, f
      <4>2. Power[k + e] = Power[k] * Power[e]
        BY <4>1, <3>1, PowerOfSum
      <4> QED BY <4>1, <4>2 DEF k
    <3>5. R = M * F
      <4> DEFINE k == B - n
      <4>1. k \in Nat /\ B - e = k + f
        BY <3>1, <1>2
      <4> HIDE DEF k, e, f
      <4>2. Power[k + f] = Power[k] * Power[f]
        BY <4>1, <3>1, PowerOfSum
      <4> QED BY <4>1, <4>2 DEF k
    <3>6. /\ pushed.buffer = OrInto(Append(here, 0), L, y)
          /\ here = OrInto(b, L - 1, x) /\ L # 0
      <4>1. pushed.buffer = OrInto(Append(here, 0), L, y)
        BY <2>1, <2>6, <1>8, PushCases
      <4>2. L # 0
        BY <2>6, WriteIndex
      <4> QED BY <4>1, <4>2 DEF PushedHere
    <3>7. b[L] \in Nat /\ b[L] + F <= P
      <4>1. f \in 0 .. ByteBits
        BY <1>1, <1>2
      <4> QED BY <4>1, <3>6, <1>1, LastByteHasRoom
    <3>8. /\ f \in Int /\ f = L * B - stream.write /\ L * B \in Int /\ L \in Nat
          /\ Number(b)[L] = X * F
      BY <1>1
    <3>9. /\ q \in Nat /\ r \in Nat /\ r < E /\ u = E * q + r /\ q < F
      <4> HIDE DEF u, N, E, F
      <4> QED BY <1>5, <3>2, <3>3, DivideType
    <3> HIDE DEF L, N, u, M, P, b, f, e, F, G, E, R, q, r
    <3>10. E * R = P
      <4>1. M * F \in Int /\ E * (M * F) = (M * F) * E /\ (M * F) * E = M * (F * E)
        BY <3>2, <1>3, Times
      <4>2. M * (F * E) = (F * E) * M
        BY <3>2, <1>3, Times
      <4> QED BY <4>1, <4>2, <3>3, <3>5, <1>4
    <3>11. x = q
      <4>1. (top \div M) \div E = top \div (M * E)
        <5> HIDE DEF top
        <5>1. top \in Nat /\ M \in Nat \ {0} /\ E \in Nat \ {0}
          BY <2>1, <3>2, <1>3
        <5> QED BY <5>1, DivideTwice
      <4>2. top \div M = u
        <5>1. top = M * u + 0
          <6>1. u * M = M * u /\ u * M \in Int
            BY <1>3, <1>5, Times
          <6> QED BY <6>1
        <5>2. 0 \in 0 .. M - 1 /\ top \in Int /\ u \in Int
          BY <2>1, <1>3, <1>5
        <5> HIDE DEF top
        <5> QED BY <5>1, <5>2, <1>3, DivideIs
      <4> HIDE DEF top
      <4> QED BY <4>1, <4>2, <3>4 DEF q
    <3>12. r * R \in Nat /\ r * R + R <= P
      BY <3>2, <3>9, <3>10, ShiftedBelow
    <3>13. u * R = P * q + r * R
      <4>1. (q * E + r) * R = q * (E * R) + r * R
        BY <3>2, <3>9, Spread
      <4>2. q * E = E * q /\ q * P = P * q
        BY <3>2, <3>9, <1>3, Times
      <4> QED BY <4>1, <4>2, <3>9, <3>10
    <3>14. y = r * R
      <4>1. top * F = u * R
        BY <3>2, <3>5, <1>3, <1>5, Times
      <4>2. r * R \in 0 .. P - 1 /\ u * R \in Int /\ q \in Int
        BY <3>2, <3>9, <3>12, <1>3, <1>5, Times
      <4>3. (u * R) % P = r * R
        BY <4>2, <3>13, <1>3, DivideIs
      <4> QED BY <4>1, <4>3
    <3>15. x \in Nat /\ b[L] + x \in Byte /\ y \in Byte
      BY <3>2, <3>7, <3>9, <3>11, <3>12, <3>14, <1>3
    <3> HIDE DEF x, y, here, pushed, top
    <3>16. here \in Seq(Byte) /\ Len(here) = L /\ Number(here)[L] = Number(b)[L] + x
      BY <3>6, <3>15, <1>1, OrIntoLast DEF L
    <3>17. /\ pushed.buffer \in Seq(Byte) /\ Len(pushed.buffer) = L + 1
           /\ Number(pushed.buffer)[L + 1] = Number(here)[L] * P + y
      <4>1. /\ OrInto(Append(here, 0), Len(here), y) \in Seq(Byte)
            /\ Len(OrInto(Append(here, 0), Len(here), y)) = Len(here) + 1
            /\ Number(OrInto(Append(here, 0), Len(here), y))[Len(here) + 1]
                 = Number(here)[Len(here)] * Power[ByteBits] + y
        BY <3>15, <3>16, OrIntoNew
      <4> QED BY <4>1, <3>6, <3>16 DEF P
    <3>18. (X * N + u) * R = (X * F + q) * P + r * R
      <4>1. (X * N + u) * R = X * (N * R) + u * R
        BY <3>2, <1>3, <1>5, Spread
      <4>2. X * (N * R) = (X * F) * P
        <5>1. N * R = F * (E * R)
          BY <3>2, <3>3, Times
        <5>2. X * (F * P) = (X * F) * P
          BY <3>2, <1>3, Times
        <5> QED BY <5>1, <5>2, <3>10
      <4>3. (X * F + q) * P = (X * F) * P + q * P /\ q * P = P * q
        <5>1. X * F \in Int
          BY <3>2, Times
        <5> QED BY <5>1, <3>9, <1>3, Times
      <4>4. (X * F) * P \in Int /\ q * P \in Int /\ r * R \in Int
        <5>1. X * F \in Int
          BY <3>2, Times
        <5> QED BY <5>1, <3>2, <3>9, <1>3, Times
      <4> QED BY <4>1, <4>2, <4>3, <4>4, <3>13
    <3>19. (L + 1) * B = stream.write + n + (B - e) /\ B - e \in 0 .. B - 1
      <4>1. (L + 1) * B = L * B + B
        BY <3>8, <1>2
      <4>2. e = n - f
        BY DEF e
      <4> DEFINE Z == L * B
                 W == (L + 1) * B
      <4>3. Z \in Int /\ W = Z + B /\ f = Z - stream.write
        BY <4>1, <3>8
      <4>4. stream.write \in Nat /\ B \in Nat /\ n \in Nat /\ f \in Nat /\ e \in Nat
        BY <3>1, <1>1, <1>2
      <4> HIDE DEF Z, W
      <4>5. W = stream.write + n + (B - e)
        BY <4>2, <4>3, <4>4
      <4>6. B - e \in 0 .. B - 1
        BY <4>4, <3>1
      <4> QED BY <4>5, <4>6 DEF W
    <3> QED BY <3>8, <3>11, <3>14, <3>16, <3>17, <3>18, <3>19, <2>3 DEF R
  <2>7. f # 0 => n <= f \/ n > f
    BY <1>1, <1>2
  <2> QED BY <2>4, <2>5, <2>6, <2>7
<1> QED BY <1>7, <1>8

(* So does pushing the two bytes of a word.                                *)
LEMMA PushWordWrites ==
  ASSUME NEW stream, NEW X \in Nat, Written(stream, X),
         NEW v \in Nat, NEW n \in 0 .. WordBits
  PROVE  /\ PushWord(stream, v, n).write = stream.write + n
         /\ X * Power[n] + (v % Power[n]) \in Nat
         /\ Written(PushWord(stream, v, n), X * Power[n] + (v % Power[n]))
<1>1. ByteBits \in Nat /\ n \in Nat /\ n <= 2 * ByteBits
  BY Widths
<1>2. CASE ~ n > ByteBits
  <2>1. n \in 0 .. ByteBits
    BY <1>1, <1>2
  <2>2. PushWord(stream, v, n) = PushByte(stream, v, n)
    BY <1>2 DEF PushWord
  <2> QED BY <2>1, <2>2, PushByteWrites
<1>3. CASE n > ByteBits
  <2> DEFINE e == n - ByteBits
             E == Power[e]
             P == Power[ByteBits]
             N == Power[n]
             first == PushByte(stream, v \div E, ByteBits)
             second == PushByte(first, v, e)
             w == v % N
  <2>1. e \in Nat /\ e \in 0 .. ByteBits /\ ByteBits \in 0 .. ByteBits /\ n = e + ByteBits
    BY <1>1, <1>3
  <2>2. PushWord(stream, v, n) = second
    BY <1>3 DEF PushWord
  <2>3. E \in Nat \ {0} /\ P \in Nat \ {0} /\ N \in Nat \ {0} /\ N = E * P
    <3> HIDE DEF e
    <3>1. Power[e + ByteBits] = Power[e] * Power[ByteBits]
      BY <1>1, <2>1, PowerOfSum
    <3> QED BY <3>1, <1>1, <2>1, PowerType
  <2>4. v \div E \in Nat
    BY <2>3, DivideType
  <2> DEFINE Y == X * P + ((v \div E) % P)
             Z == Y * E + (v % E)
  <2>5. Written(first, Y) /\ Y \in Nat /\ first.write = stream.write + ByteBits
    BY <2>1, <2>4, PushByteWrites
  <2> HIDE DEF first, e, Y
  <2>6. Written(second, Z) /\ Z \in Nat /\ second.write = first.write + e
    BY <2>1, <2>5, PushByteWrites
  <2> HIDE DEF second
  <2>7. Z = X * N + w
    <3> HIDE DEF E, P, N
    <3> DEFINE q == (v \div E) % P
               r == v % E
    <3>1. w = E * q + r /\ q \in Nat /\ r \in Nat
      <4>1. (v % (E * P)) \div E = q /\ (v % (E * P)) % E = r
        BY <2>3, DivideTwice
      <4>2. w \in Nat
        BY <2>3, DivideType
      <4>3. w \div E = q /\ w % E = r
        BY <4>1, <2>3
      <4> HIDE DEF w, q, r
      <4> QED BY <4>2, <4>3, <2>3, DivideType
    <3> HIDE DEF q, r, w
    <3>2. Y = X * P + q
      BY DEF Y, q
    <3>3. (X * P + q) * E = X * (P * E) + q * E /\ P * E = E * P /\ q * E = E * q
      <4>1. (X * P + q) * E = X * (P * E) + q * E
        BY <3>1, <2>3, Spread
      <4> QED BY <4>1, <3>1, <2>3, Times
    <3>4. X * N \in Int /\ E * q \in Int
      BY <2>3, <3>1, Times
    <3> QED BY <3>1, <3>2, <3>3, <3>4, <2>3 DEF r
  <2>8. second.write = stream.write + n
    <3>1. stream.write \in Nat
      BY DEF Written
    <3> QED BY <3>1, <1>1, <2>1, <2>5, <2>6
  <2> QED BY <2>2, <2>6, <2>7, <2>8 DEF N, w
<1> QED BY <1>2, <1>3

(* Nothing has been written to the empty stream.                           *)
LEMMA EmptyIsWritten == Written(EmptyStream, 0)
<1> DEFINE b == << >>
<1>1. EmptyStream \in [buffer : Seq(Byte), write : Nat] /\ Len(EmptyStream.buffer) = 0
  BY DEF EmptyStream
<1>2. Room(EmptyStream) = 0
  BY <1>1, Widths DEF Room, EmptyStream
<1>3. Number(EmptyStream.buffer)[0] = 0
  BY <1>1, NumberSteps
<1>4. 0 * Power[0] = 0 /\ 0 \in 0 .. ByteBits - 1
  BY PowerSteps, Widths
<1> QED BY <1>1, <1>2, <1>3, <1>4 DEF Written

-----------------------------------------------------------------------------
(* Encode.                                                                 *)

(* Codes that can be pushed.                                               *)
Coding(coding) ==
  \A s \in Symbol : coding[s].value \in Nat /\ coding[s].bits \in 0 .. WordBits

Symbols(payload) == Append(payload, Eof)
CodeAt(coding, payload, n) == coding[Symbols(payload)[n]]

(* The streams that Encode goes through and the numbers written to them.   *)
Goes(coding, payload, stream, written) ==
  /\ stream[0] = EmptyStream /\ written[0] = 0
  /\ \A n \in 0 .. Len(payload) + 1 :
       written[n] \in Nat /\ Written(stream[n], written[n])
  /\ \A n \in 0 .. Len(payload) :
       LET code == CodeAt(coding, payload, n + 1)
       IN  /\ stream[n + 1] = PushWord(stream[n], code.value, code.bits)
           /\ stream[n + 1].write = stream[n].write + code.bits
           /\ written[n + 1] = written[n] * Power[code.bits]
                                 + (code.value % Power[code.bits])
  /\ Encoded(coding, payload) = stream[Len(payload) + 1].buffer

(* There are such streams, and such numbers.                               *)
LEMMA EncodedGoes ==
  ASSUME NEW coding, Coding(coding), NEW payload \in Seq(Byte)
  PROVE  \E stream, written : Goes(coding, payload, stream, written)
<1> DEFINE m == Len(payload) + 1
           symbols == Symbols(payload)
           value == [n \in 1 .. m |-> coding[symbols[n]].value]
           bits == [n \in 1 .. m |-> coding[symbols[n]].bits]
           S == { x \in [buffer : Seq(Byte), write : Nat] \X Nat : Written(x[1], x[2]) }
           Step(n, x) == IF n < m
                           THEN << PushWord(x[1], value[n + 1], bits[n + 1]),
                                   x[2] * Power[bits[n + 1]]
                                     + (value[n + 1] % Power[bits[n + 1]]) >>
                           ELSE x
           step == [y \in Nat \X S |-> Step(y[1], y[2])]
<1>1. /\ m \in Nat /\ m # 0 /\ symbols \in Seq(Symbol) /\ Len(symbols) = m
      /\ \A n \in 1 .. m : symbols[n] \in Symbol
  <2>1. payload \in Seq(Symbol) /\ Eof \in Symbol
    BY DEF Symbol
  <2>2. symbols \in Seq(Symbol) /\ Len(symbols) = m /\ m \in Nat /\ m # 0
    BY <2>1 DEF Symbols
  <2> HIDE DEF symbols, m
  <2> QED BY <2>2
<1> HIDE DEF symbols, m
<1>2. \A n \in 1 .. m : value[n] \in Nat /\ bits[n] \in 0 .. WordBits
  BY <1>1 DEF Coding
<1>3. \A n \in 1 .. m : /\ value[n] = CodeAt(coding, payload, n).value
                        /\ bits[n] = CodeAt(coding, payload, n).bits
  BY DEF CodeAt, symbols
<1> HIDE DEF value, bits
<1>4. ASSUME NEW n \in Nat, NEW x \in S PROVE Step(n, x) \in S
  <2>1. CASE ~ n < m
    BY <2>1
  <2>2. CASE n < m
    <3>1. n + 1 \in 1 .. m
      BY <2>2, <1>1
    <3>2. x[1] \in [buffer : Seq(Byte), write : Nat] /\ x[2] \in Nat /\ Written(x[1], x[2])
      OBVIOUS
    <3> DEFINE v == value[n + 1]
               k == bits[n + 1]
    <3>3. v \in Nat /\ k \in 0 .. WordBits
      BY <3>1, <1>2
    <3> HIDE DEF v, k
    <3>4. /\ x[2] * Power[k] + (v % Power[k]) \in Nat
          /\ Written(PushWord(x[1], v, k), x[2] * Power[k] + (v % Power[k]))
      BY <3>2, <3>3, PushWordWrites
    <3>5. << PushWord(x[1], v, k), x[2] * Power[k] + (v % Power[k]) >> \in S
      BY <3>4 DEF Written
    <3> QED BY <2>2, <3>5 DEF v, k
  <2> QED BY <2>1, <2>2
<1>5. /\ step \in [Nat \X S -> S]
      /\ \A n \in Nat : \A x \in S : step[<< n, x >>] = Step(n, x)
  <2> HIDE DEF S, Step
  <2> QED BY <1>4
<1>6. << EmptyStream, 0 >> \in S
  BY EmptyIsWritten DEF Written
<1> HIDE DEF step
<1>7. PICK g : Follows(g, S, << EmptyStream, 0 >>, step)
  <2> HIDE DEF S
  <2>1. IsSteps(step, S)
    BY <1>5 DEF IsSteps
  <2> QED BY <2>1, <1>6, Recursion
<1>8. /\ g[0] = << EmptyStream, 0 >>
      /\ \A n \in Nat : g[n] \in S
      /\ \A n \in Nat : g[n + 1] = Step(n, g[n])
  <2> HIDE DEF S, Step
  <2> QED BY <1>5, <1>7 DEF Follows
<1> DEFINE stream == [n \in 0 .. m |-> g[n][1]]
           written == [n \in 0 .. m |-> g[n][2]]
<1>9. \A n \in 0 .. m : written[n] \in Nat /\ Written(stream[n], written[n])
  BY <1>1, <1>8
<1>10. stream[0] = EmptyStream /\ written[0] = 0
  BY <1>1, <1>8
<1>11. ASSUME NEW n \in 0 .. m - 1
       PROVE  /\ stream[n + 1] = PushWord(stream[n], value[n + 1], bits[n + 1])
              /\ written[n + 1] = written[n] * Power[bits[n + 1]]
                                    + (value[n + 1] % Power[bits[n + 1]])
  <2>1. n \in Nat /\ n < m /\ n + 1 \in 0 .. m /\ n \in 0 .. m
    BY <1>1
  <2> HIDE DEF S
  <2>2. g[n + 1] = Step(n, g[n])
    BY <2>1, <1>8
  <2>3. Step(n, g[n]) = << PushWord(g[n][1], value[n + 1], bits[n + 1]),
                           g[n][2] * Power[bits[n + 1]]
                             + (value[n + 1] % Power[bits[n + 1]]) >>
    BY <2>1
  <2> HIDE DEF Step
  <2> QED BY <2>1, <2>2, <2>3
<1> HIDE DEF S, Step
<1>12. ASSUME NEW n \in 0 .. m - 1 PROVE stream[n + 1].write = stream[n].write + bits[n + 1]
  <2>1. n + 1 \in 1 .. m /\ n \in 0 .. m
    BY <1>1
  <2> HIDE DEF stream, written
  <2>2. /\ value[n + 1] \in Nat /\ bits[n + 1] \in 0 .. WordBits
        /\ written[n] \in Nat /\ Written(stream[n], written[n])
    BY <2>1, <1>2, <1>9
  <2>3. PushWord(stream[n], value[n + 1], bits[n + 1]).write = stream[n].write + bits[n + 1]
    BY <2>2, PushWordWrites
  <2> QED BY <2>3, <1>11
<1> DEFINE Body(h, n) == IF n = 0 THEN EmptyStream
                         ELSE PushWord(h[n - 1], coding[symbols[n]].value,
                                       coding[symbols[n]].bits)
<1>13. stream = [n \in 0 .. Len(symbols) |-> Body(stream, n)]
  <2>1. ASSUME NEW n \in 0 .. m PROVE stream[n] = Body(stream, n)
    <3>1. CASE n = 0
      BY <3>1, <1>10
    <3>2. CASE n # 0
      <4> DEFINE j == n - 1
      <4>1. j \in 0 .. m - 1 /\ n = j + 1 /\ n \in 1 .. m
        BY <3>2, <1>1
      <4> HIDE DEF j, stream
      <4>2. stream[j + 1] = PushWord(stream[j], value[n], bits[n])
        BY <4>1, <1>11
      <4> QED BY <4>1, <4>2, <3>2 DEF j, value, bits
    <3> QED BY <3>1, <3>2
  <2>2. stream = [n \in 0 .. m |-> stream[n]]
    OBVIOUS
  <2> HIDE DEF stream, Body
  <2> QED BY <2>1, <2>2, <1>1
<1> DEFINE F == CHOOSE h : h = [n \in 0 .. Len(symbols) |-> Body(h, n)]
<1>14. Encoded(coding, payload) = F[Len(symbols)].buffer
  BY DEF Encoded, TakeBuffer, symbols, Symbols
<1>15. F = [n \in 0 .. m |-> Body(F, n)]
  BY <1>1, <1>13
<1> HIDE DEF F, stream, written
<1>16. \A n \in 0 .. m : F[n] = stream[n]
  <2> SUFFICES ASSUME \E n \in Nat : n <= m /\ F[n] # stream[n] PROVE FALSE
    BY <1>1
  <2> DEFINE T == { n \in Nat : n <= m /\ F[n] # stream[n] }
  <2>1. PICK n \in T : \A j \in T : ~(j < n)
    <3>1. T \in SUBSET Nat /\ T # {}
      OBVIOUS
    <3> HIDE DEF T
    <3> QED BY <3>1, LeastNatural
  <2>2. n \in Nat /\ n <= m /\ F[n] # stream[n]
    OBVIOUS
  <2>3. F[n] = Body(F, n) /\ stream[n] = Body(stream, n)
    <3>1. n \in 0 .. m
      BY <2>2, <1>1
    <3> HIDE DEF Body
    <3> QED BY <3>1, <1>1, <1>13, <1>15
  <2>4. n # 0
    BY <2>2, <2>3
  <2>5. n - 1 \in Nat /\ n - 1 < n /\ n - 1 <= m
    BY <2>2, <2>4, <1>1
  <2>6. F[n - 1] = stream[n - 1]
    BY <2>1, <2>5
  <2> QED BY <2>2, <2>3, <2>4, <2>6
<1>17. Encoded(coding, payload) = stream[m].buffer
  BY <1>1, <1>14, <1>16
<1>18. \A n \in 0 .. m - 1 : n + 1 \in 1 .. m
  BY <1>1
<1>19. m - 1 = Len(payload) /\ m = Len(payload) + 1
  BY DEF m
<1> HIDE DEF Body
<1>20. Goes(coding, payload, stream, written)
  BY <1>3, <1>9, <1>10, <1>11, <1>12, <1>17, <1>18, <1>19 DEF Goes
<1> QED BY <1>20

-----------------------------------------------------------------------------
(* The reader.                                                             *)

(* The number of the first p bits of a buffer, behind which one reads      *)
(* zeros.                                                                  *)
Prefix(b, p) == Number(b)[p] \div Power[p * ByteBits - p]

(* Any bytes that hold those bits give it.                                 *)
LEMMA MoreBytes ==
  ASSUME NEW b \in Seq(Byte), NEW k \in Nat, NEW r \in Nat, NEW d \in Nat
  PROVE  Number(b)[k + d] \div Power[r + d * ByteBits] = Number(b)[k] \div Power[r]
<1> DEFINE Bad(i) == Number(b)[k + i] \div Power[r + i * ByteBits]
                       # Number(b)[k] \div Power[r]
           T == { i \in Nat : Bad(i) }
<1> SUFFICES ASSUME Bad(d) PROVE FALSE
  OBVIOUS
<1>1. PICK i \in T : \A j \in T : ~(j < i)
  <2>1. T \in SUBSET Nat /\ T # {}
    OBVIOUS
  <2> HIDE DEF T
  <2> QED BY <2>1, LeastNatural
<1>2. i \in Nat /\ Bad(i)
  OBVIOUS
<1>3. i # 0
  <2>1. k + 0 = k /\ r + 0 * ByteBits = r
    BY Widths
  <2> QED BY <2>1, <1>2
<1> DEFINE j == i - 1
<1>4. j \in Nat /\ j < i /\ k + i = (k + j) + 1 /\ k + j \in Nat
  BY <1>2, <1>3
<1>5. Number(b)[k + j] \div Power[r + j * ByteBits] = Number(b)[k] \div Power[r]
  BY <1>1, <1>4
<1>6. /\ r + j * ByteBits \in Nat /\ ByteBits \in Nat
      /\ r + i * ByteBits = ByteBits + (r + j * ByteBits)
  <2>1. ByteBits \in Nat
    BY Widths
  <2>2. i * ByteBits = j * ByteBits + ByteBits
    BY <1>2, <2>1
  <2> HIDE DEF j
  <2>3. j * ByteBits \in Nat
    BY <2>1, <1>4, TimesNat
  <2> DEFINE Z == j * ByteBits
             W == i * ByteBits
  <2>4. Z \in Nat /\ W = Z + ByteBits
    BY <2>2, <2>3
  <2> HIDE DEF Z, W
  <2>5. r + Z \in Nat /\ r + W = ByteBits + (r + Z)
    BY <2>1, <2>4
  <2> QED BY <2>1, <2>5 DEF Z, W
<1> DEFINE P == Power[ByteBits]
           R == Power[r + j * ByteBits]
           x == ByteIn(b, k + j)
           n == Number(b)[k + j]
           N == Number(b)[(k + j) + 1]
<1>7. P \in Nat \ {0} /\ R \in Nat \ {0} /\ Power[r + i * ByteBits] = P * R
  <2> DEFINE h == r + j * ByteBits
  <2>1. h \in Nat /\ r + i * ByteBits = ByteBits + h
    BY <1>6
  <2> HIDE DEF h
  <2>2. Power[ByteBits + h] = Power[ByteBits] * Power[h]
    BY <1>6, <2>1, PowerOfSum
  <2>3. Power[h] \in Nat \ {0} /\ Power[ByteBits] \in Nat \ {0}
    BY <1>6, <2>1, PowerType
  <2> QED BY <2>1, <2>2, <2>3 DEF h
<1>8. N = n * P + x /\ n \in Nat /\ N \in Nat /\ x \in 0 .. P - 1
  <2>1. x \in Byte
    BY <1>4, ByteInType
  <2> QED BY <2>1, <1>4, NumberSteps, Widths
<1>9. N \div P = n
  <2> HIDE DEF N, n, x, P
  <2>1. n * P = P * n
    BY <1>7, <1>8, Times
  <2>2. N = P * n + x /\ N \in Int /\ n \in Int
    BY <2>1, <1>8
  <2> QED BY <2>2, <1>7, <1>8, DivideIs
<1>10. N \div (P * R) = (N \div P) \div R
  <2> HIDE DEF N, P, R
  <2> QED BY <1>7, <1>8, DivideTwice
<1>11. Number(b)[k + i] \div Power[r + i * ByteBits] = N \div (P * R)
  BY <1>4, <1>7
<1> QED BY <1>2, <1>5, <1>9, <1>10, <1>11

(* However many bytes one takes.                                          *)
LEMMA PrefixIs ==
  ASSUME NEW b \in Seq(Byte), NEW p \in Nat, NEW k \in Nat, NEW r \in Nat,
         p + r = k * ByteBits
  PROVE  Prefix(b, p) = Number(b)[k] \div Power[r]
<1> DEFINE B == ByteBits
           h == p * B - p
<1>1. B \in Nat /\ B > 1
  BY Widths
<1>2. h \in Nat /\ p + h = p * B
  <2>1. p * (B - 1) \in Nat /\ p * (B - 1) = p * B - p
    <3>1. B - 1 \in Nat
      BY <1>1
    <3> HIDE DEF B
    <3> QED BY <3>1, <1>1, TimesNat
  <2>2. p * B \in Nat
    BY <1>1, TimesNat
  <2> HIDE DEF B
  <2> QED BY <2>1, <2>2
<1>3. Prefix(b, p) = Number(b)[p] \div Power[h]
  BY DEF Prefix
<1> HIDE DEF h, B
<1>4. p * B \in Nat /\ k * B \in Nat /\ p + r = k * B
  BY <1>1, TimesNat DEF B
<1>5. CASE k >= p
  <2> DEFINE d == k - p
  <2>1. d \in Nat /\ k = p + d
    BY <1>5
  <2> HIDE DEF d
  <2>2. k * B = p * B + d * B /\ d * B \in Nat
    BY <2>1, <1>1, Times, TimesNat
  <2>3. r = h + d * B
    BY <2>2, <1>2, <1>4
  <2>4. Number(b)[p + d] \div Power[h + d * ByteBits] = Number(b)[p] \div Power[h]
    BY <2>1, <1>2, MoreBytes
  <2> QED BY <2>1, <2>3, <2>4, <1>3 DEF B
<1>6. CASE ~ k >= p
  <2> DEFINE d == p - k
  <2>1. d \in Nat /\ p = k + d
    BY <1>6
  <2> HIDE DEF d
  <2>2. p * B = k * B + d * B /\ d * B \in Nat
    BY <2>1, <1>1, Times, TimesNat
  <2>3. h = r + d * B
    BY <2>2, <1>2, <1>4
  <2>4. Number(b)[k + d] \div Power[r + d * ByteBits] = Number(b)[k] \div Power[r]
    BY <2>1, MoreBytes
  <2> QED BY <2>1, <2>3, <2>4, <1>3 DEF B
<1> QED BY <1>5, <1>6

(* The first bits of more bits.                                            *)
LEMMA PrefixOfPrefix ==
  ASSUME NEW b \in Seq(Byte), NEW p \in Nat, NEW n \in Nat
  PROVE  /\ Prefix(b, p + n) \in Nat
         /\ Prefix(b, p + n) \div Power[n] = Prefix(b, p)
<1> DEFINE k == p + n
           r == k * ByteBits - k
           N == Number(b)[k]
<1>1. k \in Nat /\ r \in Nat /\ k + r = k * ByteBits /\ p + (n + r) = k * ByteBits
  <2>1. ByteBits \in Nat /\ ByteBits - 1 \in Nat /\ k \in Nat
    BY Widths
  <2> HIDE DEF k
  <2>2. k * (ByteBits - 1) \in Nat /\ k * (ByteBits - 1) = k * ByteBits - k
    BY <2>1, TimesNat
  <2>3. k * ByteBits \in Nat
    BY <2>1, TimesNat
  <2>4. r \in Nat /\ k + r = k * ByteBits
    BY <2>1, <2>2, <2>3
  <2> QED BY <2>1, <2>4 DEF k
<1> HIDE DEF r, k
<1>2. Prefix(b, k) = N \div Power[r] /\ Prefix(b, p) = N \div Power[n + r]
  BY <1>1, PrefixIs
<1>3. Power[n + r] = Power[r] * Power[n]
  <2>1. n + r = r + n
    BY <1>1
  <2> QED BY <2>1, <1>1, PowerOfSum
<1>4. N \in Nat /\ Power[r] \in Nat \ {0} /\ Power[n] \in Nat \ {0}
  BY <1>1, NumberSteps, PowerType
<1> HIDE DEF N
<1>5. (N \div Power[r]) \div Power[n] = N \div (Power[r] * Power[n])
  BY <1>4, DivideTwice
<1>6. N \div Power[r] \in Nat
  BY <1>4, DivideType
<1> QED BY <1>2, <1>3, <1>5, <1>6 DEF k

(* Bits above the ones pulled do not matter.                               *)
Extends(big, pair, z, D, N, R) == big = z * (D * (N * R)) + pair

(* They are above the window.                                              *)
LEMMA WindowOfPair ==
  ASSUME NEW pair \in Nat, NEW z \in Nat, NEW D \in Nat \ {0}, NEW N \in Nat \ {0},
         NEW R \in Nat, NEW big, Extends(big, pair, z, D, N, R)
  PROVE  (big \div D) % N = (pair \div D) % N
<1> DEFINE q == pair \div D
           s == pair % D
           a == q \div N
           t == q % N
           zR == z * R
<1>1. q \in Nat /\ s \in 0 .. D - 1 /\ pair = D * q + s
  BY DivideType
<1>2. a \in Nat /\ t \in 0 .. N - 1 /\ q = N * a + t
  <2>1. q \in Nat
    BY <1>1
  <2> HIDE DEF q
  <2> QED BY <2>1, DivideType
<1>3. zR \in Nat /\ N * R \in Nat /\ N * zR \in Nat /\ D * (N * zR) \in Nat
  BY TimesNat
<1>4. z * (D * (N * R)) = D * (N * zR)
  <2>1. z * (D * (N * R)) = (D * (N * R)) * z /\ (D * (N * R)) * z = D * ((N * R) * z)
    BY <1>3, Times
  <2>2. (N * R) * z = N * (R * z) /\ R * z = z * R
    BY Times
  <2> QED BY <2>1, <2>2
<1> HIDE DEF q, s, a, t, zR
<1>5. big = D * (N * zR + q) + s
  <2>1. D * (N * zR + q) = D * (N * zR) + D * q
    BY <1>1, <1>3
  <2>2. D * q \in Nat
    BY <1>1, TimesNat
  <2> QED BY <2>1, <2>2, <1>1, <1>3, <1>4 DEF Extends
<1>6. big \div D = N * zR + q
  <2>1. N * zR + q \in Int /\ big \in Int
    <3>1. N * zR + q \in Nat
      BY <1>1, <1>3
    <3>2. D * (N * zR + q) \in Nat
      BY <3>1, TimesNat
    <3> QED BY <3>1, <3>2, <1>1, <1>5
  <2> QED BY <2>1, <1>1, <1>5, DivideIs
<1>7. N * zR + q = N * (zR + a) + t /\ zR + a \in Int /\ N * zR + q \in Int
  <2>1. N * (zR + a) = N * zR + N * a /\ N * a \in Nat
    BY <1>2, <1>3, TimesNat
  <2> QED BY <2>1, <1>1, <1>2, <1>3
<1>8. (N * zR + q) % N = t
  <2> DEFINE y == N * zR + q
  <2> HIDE DEF y
  <2>1. y = N * (zR + a) + t /\ zR + a \in Int /\ y \in Int
    BY <1>7 DEF y
  <2>2. y % N = t
    BY <2>1, <1>2, DivideIs
  <2> QED BY <2>2 DEF y
<1> QED BY <1>6, <1>8 DEF q, t

(* A reader on a buffer, its index inside or at the end.                   *)
Reads(reader) ==
  /\ reader \in [buffer : Seq(Byte), index : Nat]
  /\ reader.index <= BitCount(reader)

(* Its numbers are naturals.                                               *)
LEMMA BitCountType ==
  ASSUME NEW reader, Reads(reader)
  PROVE  /\ BitCount(reader) \in Nat /\ Len(reader.buffer) \in Nat
         /\ reader.index \in Nat /\ reader.buffer \in Seq(Byte)
<1>1. Len(reader.buffer) \in Nat /\ reader.index \in Nat /\ reader.buffer \in Seq(Byte)
  BY DEF Reads
<1>2. BitCount(reader) \in Nat
  BY <1>1, Widths, TimesNat DEF BitCount
<1> QED BY <1>1, <1>2

(* PullU8 returns the next bits and moves past them, up to the end.        *)
LEMMA PullByteReads ==
  ASSUME NEW reader, Reads(reader), NEW n \in 0 .. ByteBits
  PROVE  /\ PullByte(reader, n).reader =
              [reader EXCEPT !.index = AtMost(reader.index + n, BitCount(reader))]
         /\ PullByte(reader, n).result =
              Prefix(reader.buffer, reader.index + n) % Power[n]
<1> DEFINE b == reader.buffer
           p == reader.index
           B == ByteBits
           L == Len(b)
           C == BitCount(reader)
           i == p \div B
           r == p % B
           P == Power[B]
           N == Power[n]
<1>1. /\ C \in Nat /\ L \in Nat /\ p \in Nat /\ b \in Seq(Byte) /\ p <= C
      /\ C = L * B
  BY BitCountType DEF Reads, BitCount
<1>2. B \in Nat \ {0} /\ B > 1 /\ n \in Nat /\ n <= B
  BY Widths
<1>3. AtMost(n, ByteBits) = n
  BY <1>2 DEF AtMost
<1>4. /\ i \in Nat /\ r \in Nat /\ r < B /\ p = B * i + r
      /\ i >= L <=> p >= C
      /\ (p + n) \div B >= L <=> p + n >= C
  <2> HIDE DEF B, L, C, p
  <2>1. i \in Nat /\ r \in Nat /\ r < B /\ p = B * i + r
    BY <1>1, <1>2, DivideType
  <2>2. ASSUME NEW x \in Nat PROVE x \div B >= L <=> x >= C
    <3>1. x \div B \in Nat /\ (x < L * B => x \div B < L) /\ (x >= L * B => x \div B >= L)
      BY <1>1, <1>2, DivideType
    <3> QED BY <3>1, <1>1
  <2>3. p + n \in Nat
    BY <1>1, <1>2
  <2> QED BY <2>1, <2>2, <2>3, <1>1
<1>5. reader \in [buffer : Seq(Byte), index : Nat]
  BY DEF Reads
<1>6. N \in Nat \ {0} /\ P \in Nat \ {0}
  BY <1>2, PowerType
<1>7. Prefix(b, p + n) \in Nat
  BY <1>1, <1>2, PrefixOfPrefix
<1> HIDE DEF i, r, C, L
<1>8. CASE n = 0
  <2>1. PullByte(reader, n) = [reader |-> reader, result |-> 0]
    BY <1>3, <1>8 DEF PullByte
  <2>2. AtMost(p + n, C) = p
    BY <1>1, <1>8 DEF AtMost
  <2>3. [reader EXCEPT !.index = p] = reader
    BY <1>5
  <2>4. Prefix(b, p + n) % 1 = 0
    BY <1>7
  <2>5. N = 1
    BY <1>8, PowerSteps
  <2> QED BY <2>1, <2>2, <2>3, <2>4, <2>5 DEF C
<1>9. CASE n # 0 /\ i >= L
  <2>1. PullByte(reader, n) = [reader |-> [reader EXCEPT !.index = AtMost(@, C)],
                               result |-> 0]
    BY <1>3, <1>9 DEF PullByte, i, L, C
  <2>2. p = C /\ AtMost(p, C) = C /\ AtMost(p + n, C) = C
    <3>1. n \in Nat /\ n > 0
      BY <1>2, <1>9
    <3>2. p >= C
      BY <1>4, <1>9
    <3> HIDE DEF p
    <3> QED BY <3>1, <3>2, <1>1 DEF AtMost
  <2>3. [reader EXCEPT !.index = AtMost(@, C)] = [reader EXCEPT !.index = AtMost(p + n, C)]
    BY <2>2, <1>5
  <2>4. Prefix(b, p + n) % N = 0
    <3> DEFINE M == Power[B - n]
               x == Number(b)[L]
    <3>1. B - n \in Nat /\ M \in Nat \ {0}
      BY <1>2, PowerType
    <3>2. P = M * N
      <4> DEFINE k == B - n
      <4>1. k \in Nat /\ B = k + n
        BY <1>2
      <4> HIDE DEF k
      <4>2. Power[k + n] = Power[k] * Power[n]
        BY <1>2, <4>1, PowerOfSum
      <4> QED BY <4>1, <4>2 DEF k
    <3>3. Number(b)[L + 1] = x * P /\ x \in Nat
      <4>1. ByteIn(b, L) = 0
        BY <1>1 DEF ByteIn, L
      <4>2. Number(b)[L + 1] = x * P + 0 /\ x \in Nat
        BY <4>1, <1>1, NumberSteps
      <4> HIDE DEF x, P
      <4>3. x * P \in Nat
        BY <4>2, <1>6, TimesNat
      <4> QED BY <4>2, <4>3
    <3>4. Prefix(b, p + n) = Number(b)[L + 1] \div M
      <4>1. (p + n) + (B - n) = (L + 1) * B
        <5>1. (L + 1) * B = L * B + B
          BY <1>1, <1>2
        <5> DEFINE Z == L * B
                   W == (L + 1) * B
        <5>2. Z = p /\ W = Z + B
          BY <5>1, <2>2, <1>1
        <5> HIDE DEF Z, W, p, B
        <5>3. (p + n) + (B - n) = W
          BY <5>2, <1>1, <1>2
        <5> QED BY <5>3 DEF W
      <4>2. p + n \in Nat /\ L + 1 \in Nat
        BY <1>1, <1>2
      <4> HIDE DEF p, L, b
      <4> QED BY <4>1, <4>2, <3>1, <1>1, PrefixIs
    <3> HIDE DEF M, x, P, N
    <3>5. (x * P) \div M = x * N
      <4>1. x * P = M * (x * N) + 0
        <5>1. x * (M * N) = (M * N) * x /\ (M * N) * x = M * (N * x) /\ N * x = x * N
          BY <3>1, <3>3, <1>6, Times
        <5>2. M * (x * N) \in Int /\ x * N \in Int
          BY <3>1, <3>3, <1>6, Times
        <5> QED BY <5>1, <5>2, <3>2
      <4>2. x * P \in Int /\ x * N \in Int /\ 0 \in 0 .. M - 1
        BY <3>1, <3>3, <1>6, Times
      <4> QED BY <4>1, <4>2, <3>1, DivideIs
    <3>6. (x * N) % N = 0
      <4>1. x * N = N * x + 0 /\ x * N \in Int /\ x \in Int /\ 0 \in 0 .. N - 1
        BY <3>3, <1>6, Times
      <4> DEFINE y == x * N
      <4> HIDE DEF y
      <4>2. y = N * x + 0 /\ y \in Int
        BY <4>1 DEF y
      <4>3. y % N = 0
        BY <4>1, <4>2, <1>6, DivideIs
      <4> QED BY <4>3 DEF y
    <3> QED BY <3>3, <3>4, <3>5, <3>6
  <2> QED BY <2>1, <2>3, <2>4 DEF C
<1>10. CASE n # 0 /\ ~ i >= L
  <2> DEFINE pair == ByteIn(b, i) * P + ByteIn(b, i + 1)
             d == WordBits - r - n
             D == Power[d]
             R == Power[r]
             z == Number(b)[i]
  <2>1. PullByte(reader, n) = [reader |-> [reader EXCEPT !.index = Clamped(reader, @ + n)],
                               result |-> (pair \div D) % N]
    BY <1>3, <1>10 DEF PullByte, ByteIn, i, r, L
  <2>2. Clamped(reader, p + n) = AtMost(p + n, C)
    <3> HIDE DEF C
    <3>1. Clamped(reader, p + n) = IF p + n >= C THEN C ELSE p + n
      BY <1>4 DEF Clamped, C, L
    <3>2. AtMost(p + n, C) = IF p + n > C THEN C ELSE p + n
      BY DEF AtMost
    <3>3. p + n \in Nat
      BY <1>1, <1>2
    <3> HIDE DEF p
    <3> QED BY <3>1, <3>2, <3>3, <1>1
  <2>3. [reader EXCEPT !.index = Clamped(reader, @ + n)]
          = [reader EXCEPT !.index = AtMost(p + n, C)]
    BY <2>2, <1>5
  <2>4. d \in Nat /\ d + (n + r) = 2 * B /\ WordBits = 2 * B
    BY <1>2, <1>4, Widths
  <2>5. D \in Nat \ {0} /\ R \in Nat \ {0} /\ P * P = D * (N * R)
    <3> HIDE DEF d, r
    <3>1. Power[d + (n + r)] = Power[d] * Power[n + r] /\ Power[n + r] = Power[n] * Power[r]
      <4>1. d \in Nat /\ n \in Nat /\ r \in Nat /\ n + r \in Nat
        BY <2>4, <1>2, <1>4
      <4> QED BY <4>1, PowerOfSum
    <3>2. Power[B + B] = Power[B] * Power[B] /\ B + B = 2 * B
      BY <1>2, PowerOfSum
    <3> QED BY <3>1, <3>2, <2>4, <1>4, PowerType
  <2>6. z \in Nat /\ pair \in Nat /\ Number(b)[i + 2] = z * (P * P) + pair
    <3> DEFINE x == ByteIn(b, i)
               y == ByteIn(b, i + 1)
    <3> HIDE DEF i, b
    <3>1. x \in Nat /\ y \in Nat /\ i + 1 \in Nat /\ (i + 1) + 1 = i + 2
      <4>1. i + 1 \in Nat /\ (i + 1) + 1 = i + 2
        BY <1>4
      <4> QED BY <4>1, <1>1, <1>4, ByteInType DEF x, y
    <3>2. /\ Number(b)[i + 1] = z * P + x /\ z \in Nat
          /\ Number(b)[(i + 1) + 1] = Number(b)[i + 1] * P + y
      BY <3>1, <1>1, <1>4, NumberSteps
    <3> HIDE DEF x, y, z, P
    <3>3. (z * P + x) * P = z * (P * P) + x * P
      BY <3>1, <3>2, <1>6, Spread
    <3>4. x * P \in Nat /\ z * (P * P) \in Nat
      <4>1. P * P \in Nat
        BY <1>6, TimesNat
      <4> QED BY <4>1, <3>1, <3>2, <1>6, TimesNat
    <3>5. x * P + y \in Nat
      BY <3>1, <3>4
    <3>6. z * (P * P) + x * P + y = z * (P * P) + (x * P + y)
      BY <3>1, <3>4
    <3> QED BY <3>1, <3>2, <3>3, <3>5, <3>6 DEF x, y
  <2>7. Prefix(b, p + n) = Number(b)[i + 2] \div D
    <3>1. (p + n) + d = (i + 2) * B
      <4>1. (i + 2) * B = B * i + 2 * B /\ B * i \in Nat
        <5> HIDE DEF i, B
        <5>1. (i + 2) * B = i * B + 2 * B /\ i * B = B * i
          BY <1>2, <1>4, Times
        <5> QED BY <5>1, <1>2, <1>4, TimesNat
      <4> DEFINE Z == B * i
                 W == (i + 2) * B
      <4>2. Z \in Nat /\ W = Z + 2 * B /\ p = Z + r
        BY <4>1, <1>4
      <4> HIDE DEF Z, W, p, r, d, B, i
      <4>3. (p + n) + d = W
        BY <4>2, <2>4, <1>2, <1>4
      <4> QED BY <4>3 DEF W
    <3>2. p + n \in Nat /\ i + 2 \in Nat
      BY <1>1, <1>2, <1>4
    <3> HIDE DEF p, i, d, b
    <3> QED BY <3>1, <3>2, <2>4, <1>1, PrefixIs
  <2>8. Prefix(b, p + n) % N = (pair \div D) % N
    <3> HIDE DEF pair, z, D, N, R, P, b, p, i
    <3>1. pair \in Nat /\ z \in Nat /\ R \in Nat
      BY <2>5, <2>6
    <3> DEFINE big == Number(b)[i + 2]
    <3>2. Extends(big, pair, z, D, N, R)
      BY <2>5, <2>6 DEF Extends
    <3> HIDE DEF big
    <3>3. (big \div D) % N = (pair \div D) % N
      BY <3>1, <3>2, <2>5, <1>6, WindowOfPair
    <3> QED BY <3>3, <2>7 DEF big
  <2> HIDE DEF pair, D
  <2> QED BY <2>1, <2>3, <2>8 DEF C
<1> QED BY <1>8, <1>9, <1>10

(* A reader moved forward.                                                 *)
Moved(reader, n) == [reader EXCEPT !.index = AtMost(reader.index + n, BitCount(reader))]

(* It is a reader still, and two moves are one.                            *)
LEMMA MovedReads ==
  ASSUME NEW reader, Reads(reader), NEW n \in Nat
  PROVE  /\ Reads(Moved(reader, n)) /\ Moved(reader, n).buffer = reader.buffer
         /\ BitCount(Moved(reader, n)) = BitCount(reader)
         /\ Moved(reader, n).index = AtMost(reader.index + n, BitCount(reader))
         /\ reader.index + n <= BitCount(reader) =>
              Moved(reader, n).index = reader.index + n
         /\ \A m \in Nat : Moved(Moved(reader, n), m) = Moved(reader, n + m)
<1> DEFINE C == BitCount(reader)
           p == reader.index
           i == AtMost(p + n, C)
           moved == Moved(reader, n)
<1>1. C \in Nat /\ p \in Nat /\ p <= C /\ reader \in [buffer : Seq(Byte), index : Nat]
  BY BitCountType DEF Reads
<1>2. i \in Nat /\ i <= C /\ (p + n <= C => i = p + n)
  <2> HIDE DEF C, p
  <2> QED BY <1>1 DEF AtMost
<1>3. /\ moved = [reader EXCEPT !.index = i]
      /\ moved.buffer = reader.buffer /\ moved.index = i
      /\ moved \in [buffer : Seq(Byte), index : Nat]
  <2> HIDE DEF i
  <2> QED BY <1>1, <1>2 DEF Moved, i
<1> HIDE DEF moved
<1>4. BitCount(moved) = C
  BY <1>3 DEF BitCount
<1>5. Reads(moved)
  BY <1>2, <1>3, <1>4 DEF Reads
<1>6. ASSUME NEW m \in Nat PROVE Moved(moved, m) = Moved(reader, n + m)
  <2>1. Moved(moved, m) = [moved EXCEPT !.index = AtMost(i + m, C)]
    BY <1>3, <1>4 DEF Moved
  <2>2. AtMost(i + m, C) = AtMost(p + (n + m), C)
    <3> HIDE DEF C, p
    <3> QED BY <1>1 DEF AtMost
  <2>3. [moved EXCEPT !.index = AtMost(i + m, C)]
          = [reader EXCEPT !.index = AtMost(p + (n + m), C)]
    <3> HIDE DEF C, p, i
    <3> QED BY <2>2, <1>1, <1>3
  <2> QED BY <2>1, <2>3 DEF Moved
<1> QED BY <1>2, <1>3, <1>4, <1>5, <1>6 DEF moved

(* PullU16.                                                                *)
LEMMA PullWordReads ==
  ASSUME NEW reader, Reads(reader), NEW n \in 0 .. WordBits
  PROVE  /\ PullWord(reader, n).reader = Moved(reader, n)
         /\ PullWord(reader, n).result \in 0 .. Power[n] - 1
         /\ reader.index + ByteBits <= BitCount(reader) =>
              PullWord(reader, n).result =
                Prefix(reader.buffer, reader.index + n) % Power[n]
<1> DEFINE b == reader.buffer
           p == reader.index
           B == ByteBits
           N == Power[n]
           X == Prefix(b, p + n)
<1>1. B \in Nat /\ n \in Nat /\ n <= 2 * B /\ WordBits = 2 * B
  BY Widths
<1>2. AtMost(n, WordBits) = n
  BY <1>1 DEF AtMost
<1>3. p \in Nat /\ b \in Seq(Byte)
  BY BitCountType
<1>4. N \in Nat \ {0} /\ X \in Nat
  BY <1>1, <1>3, PowerType, PrefixOfPrefix
<1>5. X % N \in 0 .. N - 1
  <2> HIDE DEF X, N
  <2> QED BY <1>4, DivideType
<1>6. CASE ~ n > B
  <2>1. PullWord(reader, n) = PullByte(reader, n)
    BY <1>2, <1>6 DEF PullWord
  <2>2. n \in 0 .. ByteBits
    BY <1>1, <1>6
  <2> QED BY <2>1, <2>2, <1>5, PullByteReads DEF Moved
<1>7. CASE n > B
  <2> DEFINE e == n - B
             E == Power[e]
             P == Power[B]
             high == PullByte(reader, B)
             low == PullByte(high.reader, e)
  <2>1. e \in Nat /\ e \in 0 .. ByteBits /\ B \in 0 .. ByteBits /\ n = B + e
    BY <1>1, <1>7
  <2>2. PullByte(reader, n) = high
    <3>1. AtMost(n, ByteBits) = AtMost(B, ByteBits)
      BY <1>1, <1>7 DEF AtMost
    <3> QED BY <3>1 DEF PullByte
  <2>3. PullWord(reader, n) = [reader |-> low.reader, result |-> high.result * E + low.result]
    BY <2>2, <1>2, <1>7 DEF PullWord
  <2>4. E \in Nat \ {0} /\ P \in Nat \ {0} /\ N = P * E
    <3> HIDE DEF e
    <3>1. Power[B + e] = Power[B] * Power[e]
      BY <1>1, <2>1, PowerOfSum
    <3> QED BY <3>1, <1>1, <2>1, PowerType
  <2>5. high.reader = Moved(reader, B) /\ high.result = Prefix(b, p + B) % P
    BY <2>1, PullByteReads DEF Moved
  <2>6. Reads(high.reader) /\ high.reader.buffer = b
    BY <2>5, <1>1, MovedReads
  <2> HIDE DEF high, e
  <2>7. low.reader = Moved(high.reader, e) /\ low.result = Prefix(b, high.reader.index + e) % E
    BY <2>1, <2>6, PullByteReads DEF Moved
  <2>8. low.reader = Moved(reader, n)
    BY <2>1, <2>5, <2>7, <1>1, MovedReads
  <2>9. /\ high.result \in Nat /\ high.result < P
        /\ low.result \in Nat /\ low.result < E
    <3>1. high.reader.index \in Nat
      BY <2>6, BitCountType
    <3>2. Prefix(b, p + B) \in Nat /\ Prefix(b, high.reader.index + e) \in Nat
      BY <3>1, <2>1, <1>1, <1>3, PrefixOfPrefix
    <3> DEFINE x == Prefix(b, p + B)
               y == Prefix(b, high.reader.index + e)
    <3> HIDE DEF x, y, P, E
    <3> QED BY <3>2, <2>4, <2>5, <2>7, DivideType DEF x, y
  <2> HIDE DEF low, E, P, N, X
  <2>10. high.result * E + low.result \in 0 .. N - 1
    <3>1. high.result * E \in Nat /\ high.result * E + E <= P * E
      BY <2>4, <2>9, ShiftedBelow
    <3> QED BY <3>1, <2>4, <2>9
  <2>11. ASSUME p + B <= BitCount(reader) PROVE high.result * E + low.result = X % N
    <3>1. high.reader.index = p + B
      BY <2>5, <2>11, <1>1, MovedReads
    <3>2. low.result = X % E
      <4>1. (p + B) + e = p + n
        BY <2>1, <1>1, <1>3
      <4> QED BY <3>1, <4>1, <2>7 DEF X
    <3>3. X \div E = Prefix(b, p + B)
      <4>1. p + B \in Nat /\ (p + B) + e = p + n
        BY <2>1, <1>1, <1>3
      <4>2. Prefix(b, (p + B) + e) \div Power[e] = Prefix(b, p + B)
        BY <4>1, <2>1, <1>3, PrefixOfPrefix
      <4> QED BY <4>1, <4>2 DEF X, E
    <3> DEFINE w == X % N
    <3>4. w \div E = high.result /\ w % E = low.result
      <4>1. P * E = E * P
        BY <2>4, Times
      <4>2. (X % (E * P)) \div E = (X \div E) % P /\ (X % (E * P)) % E = X % E
        BY <2>4, <1>4, DivideTwice
      <4> QED BY <4>1, <4>2, <3>2, <3>3, <2>4, <2>5
    <3>5. w \in Nat
      BY <1>5
    <3> HIDE DEF w
    <3>6. w = E * high.result + low.result /\ E * high.result = high.result * E
      <4>1. w = E * (w \div E) + (w % E)
        BY <3>5, <2>4, DivideType
      <4> QED BY <4>1, <3>4, <2>4, <2>9, Times
    <3> QED BY <3>6 DEF w
  <2> QED BY <2>3, <2>8, <2>10, <2>11 DEF N, X
<1> QED BY <1>6, <1>7

-----------------------------------------------------------------------------
(* The decode map.                                                         *)

(* An entry is unset, names a symbol whose code begins the index, or one   *)
(* of the second maps.                                                     *)
LEMMA FirstEntryType ==
  ASSUME NEW coding, Coding(coding), NEW i
  PROVE  \/ /\ FirstEntry(coding, i) = Unset
            /\ \A s \in Used(coding) : i \notin FirstIndexes(coding[s])
         \/ \E s \in Used(coding) :
              /\ i \in FirstIndexes(coding[s]) /\ IsLong(coding[s])
              /\ FirstEntry(coding, i) = Continue(TopBits(coding[s]))
         \/ \E s \in Used(coding) :
              /\ i \in FirstIndexes(coding[s]) /\ ~ IsLong(coding[s])
              /\ FirstEntry(coding, i) = Found(s, coding[s].bits)
<1> DEFINE writers == { s \in Used(coding) : i \in FirstIndexes(coding[s]) }
           s == Max(writers)
<1>1. FirstEntry(coding, i) = IF writers = {} THEN Unset
                              ELSE IF IsLong(coding[s]) THEN Continue(TopBits(coding[s]))
                              ELSE Found(s, coding[s].bits)
  BY DEF FirstEntry
<1>2. writers # {} => s \in writers
  <2>1. writers \in SUBSET (0 .. Power[ByteBits]) /\ Power[ByteBits] \in Nat
    BY Widths DEF Used
  <2> HIDE DEF writers
  <2> QED BY <2>1, MaxOfBounded
<1> HIDE DEF s
<1>3. /\ writers # {} => s \in Used(coding) /\ i \in FirstIndexes(coding[s])
      /\ writers = {} => \A r \in Used(coding) : i \notin FirstIndexes(coding[r])
  BY <1>2
<1> HIDE DEF writers
<1> QED BY <1>1, <1>3

(* So does an entry of a second map.                                       *)
LEMMA SecondEntryType ==
  ASSUME NEW coding, Coding(coding), NEW top, NEW i
  PROVE  \/ /\ SecondEntry(coding, top, i) = Unset
            /\ \A s \in LongCodes(coding) :
                 TopBits(coding[s]) # top \/ i \notin SecondIndexes(coding[s])
         \/ \E s \in LongCodes(coding) :
              /\ TopBits(coding[s]) = top /\ i \in SecondIndexes(coding[s])
              /\ SecondEntry(coding, top, i) = Found(s, RestBits(coding[s]))
<1> DEFINE writers == { s \in LongCodes(coding) :
                          TopBits(coding[s]) = top /\ i \in SecondIndexes(coding[s]) }
           s == Max(writers)
<1>1. SecondEntry(coding, top, i) = IF writers = {} THEN Unset
                                    ELSE Found(s, RestBits(coding[s]))
  BY DEF SecondEntry
<1>2. writers # {} => s \in writers
  <2>1. writers \in SUBSET (0 .. Power[ByteBits]) /\ Power[ByteBits] \in Nat
    BY Widths DEF LongCodes, Used
  <2> HIDE DEF writers
  <2> QED BY <2>1, MaxOfBounded
<1> HIDE DEF s
<1>3. /\ writers # {} =>
           /\ s \in LongCodes(coding)
           /\ TopBits(coding[s]) = top /\ i \in SecondIndexes(coding[s])
      /\ writers = {} =>
           \A r \in LongCodes(coding) :
             TopBits(coding[r]) # top \/ i \notin SecondIndexes(coding[r])
  BY <1>2
<1> HIDE DEF writers
<1> QED BY <1>1, <1>3

(* What Decode finds at an index of the first map, and of a second one.    *)
LEMMA DecodeMapType ==
  ASSUME NEW coding, Coding(coding), NEW i \in 0 .. Power[FirstBits] - 1
  PROVE  /\ DecodeMapOf(coding).first[i] = FirstEntry(coding, i)
         /\ (FirstEntry(coding, i).bits # 0 /\ FirstEntry(coding, i).kind = "Symbol") =>
              /\ FirstEntry(coding, i).value \in Symbol
              /\ FirstEntry(coding, i).bits \in 0 .. FirstBits
         /\ (FirstEntry(coding, i).bits # 0 /\ FirstEntry(coding, i).kind # "Symbol") =>
              \A j \in 0 .. Power[SecondBits] - 1 :
                LET top == FirstEntry(coding, i).value
                IN  /\ DecodeMapOf(coding).second[top][j] = SecondEntry(coding, top, j)
                    /\ SecondEntry(coding, top, j).value \in Symbol
                    /\ SecondEntry(coding, top, j).bits \in 0 .. SecondBits
<1>1. DecodeMapOf(coding).first[i] = FirstEntry(coding, i)
  BY DEF DecodeMapOf
<1>2. \A s \in Used(coding) : /\ s \in Symbol /\ coding[s].bits \in Nat
                              /\ coding[s].bits <= WordBits
  BY Widths DEF Used, Coding
<1>3. /\ ByteBits \in Nat /\ ByteBits > 1 /\ FirstBits = ByteBits + 1
      /\ SecondBits = ByteBits - 1 /\ WordBits = 2 * ByteBits /\ 0 \in Symbol
  BY Widths
<1> DEFINE e == FirstEntry(coding, i)
<1>4. \/ e = Unset
      \/ \E s \in Used(coding) : IsLong(coding[s]) /\ e = Continue(TopBits(coding[s]))
      \/ \E s \in Used(coding) : ~ IsLong(coding[s]) /\ e = Found(s, coding[s].bits)
  BY FirstEntryType
<1> HIDE DEF e
<1>5. ASSUME e.bits # 0, e.kind = "Symbol"
      PROVE  e.value \in Symbol /\ e.bits \in 0 .. FirstBits
  <2>1. PICK s \in Used(coding) : ~ IsLong(coding[s]) /\ e = Found(s, coding[s].bits)
    BY <1>4, <1>5 DEF Unset, Continue
  <2>2. e.value = s /\ e.bits = coding[s].bits
    BY <2>1 DEF Found
  <2>3. coding[s].bits \in 0 .. FirstBits
    BY <2>1, <1>2, <1>3 DEF IsLong
  <2> QED BY <2>2, <2>3, <1>2
<1>6. ASSUME e.bits # 0, e.kind # "Symbol", NEW j \in 0 .. Power[SecondBits] - 1
      PROVE  /\ DecodeMapOf(coding).second[e.value][j] = SecondEntry(coding, e.value, j)
             /\ SecondEntry(coding, e.value, j).value \in Symbol
             /\ SecondEntry(coding, e.value, j).bits \in 0 .. SecondBits
  <2>1. PICK s \in Used(coding) : IsLong(coding[s]) /\ e = Continue(TopBits(coding[s]))
    BY <1>4, <1>6 DEF Unset, Found
  <2>2. e.value \in { TopBits(coding[t]) : t \in LongCodes(coding) }
    BY <2>1 DEF LongCodes, Continue
  <2>3. DecodeMapOf(coding).second[e.value][j] = SecondEntry(coding, e.value, j)
    BY <2>2 DEF DecodeMapOf
  <2> DEFINE f == SecondEntry(coding, e.value, j)
  <2>4. \/ f = Unset
        \/ \E t \in LongCodes(coding) : f = Found(t, RestBits(coding[t]))
    BY SecondEntryType
  <2> HIDE DEF f
  <2>5. f.value \in Symbol /\ f.bits \in 0 .. SecondBits
    <3>1. CASE f = Unset
      BY <3>1, <1>3 DEF Unset
    <3>2. CASE \E t \in LongCodes(coding) : f = Found(t, RestBits(coding[t]))
      <4>1. PICK t \in LongCodes(coding) : f = Found(t, RestBits(coding[t]))
        BY <3>2
      <4>2. /\ t \in Symbol /\ coding[t].bits \in Nat /\ coding[t].bits <= WordBits
            /\ coding[t].bits > FirstBits
        BY <1>2 DEF LongCodes, IsLong
      <4>3. RestBits(coding[t]) \in 0 .. SecondBits
        BY <4>2, <1>3 DEF RestBits
      <4> QED BY <4>1, <4>2, <4>3 DEF Found
    <3> QED BY <2>4, <3>1, <3>2
  <2> QED BY <2>3, <2>5 DEF f
<1> QED BY <1>1, <1>5, <1>6 DEF e

-----------------------------------------------------------------------------
(* Decode.                                                                 *)

(* While it decodes, the read index has passed a bit for every byte.       *)
Reading ==
  /\ pc \in {"building", "refused", "ready", "decoding", "decoded", "corrupt"}
  /\ frequencies \in Tables
  /\ message \in Messages \cup {NoMessage}
  /\ Reads(inBuffer)
  /\ lastPosition \in 0 .. BitCount(inBuffer)
  /\ result \in Seq(Byte)
  /\ Len(result) <= BitCount(inBuffer)
  /\ pc \in {"building", "refused", "ready"} => lastPosition = 0 /\ result = << >>
  /\ pc = "decoding" => lastPosition = inBuffer.index /\ Len(result) <= lastPosition

(* A reader that begins.                                                   *)
LEMMA ReaderBegins ==
  ASSUME NEW b \in Seq(Byte)
  PROVE  Reads(Reader(b)) /\ Reader(b).index = 0 /\ BitCount(Reader(b)) \in Nat
<1>1. Reader(b) \in [buffer : Seq(Byte), index : Nat] /\ Reader(b).index = 0
  BY DEF Reader
<1>2. BitCount(Reader(b)) \in Nat
  BY <1>1, Widths, TimesNat DEF BitCount
<1> QED BY <1>1, <1>2 DEF Reads

(* It holds before anything is decoded.                                    *)
LEMMA InitReading == Init => Reading
<1> SUFFICES ASSUME Init PROVE Reading
  OBVIOUS
<1>1. << >> \in Seq(Byte) /\ Len(<< >>) = 0
  OBVIOUS
<1>2. Reads(inBuffer) /\ BitCount(inBuffer) \in Nat
  BY <1>1, ReaderBegins DEF Init
<1> QED BY <1>1, <1>2 DEF Init, Reading

(* The codes that were built can be pushed.                                *)
LEMMA BuiltCoding ==
  ASSUME Construction, pc \in {"ready", "decoding", "decoded", "corrupt"}
  PROVE  Coding(codes) /\ decodeMap = DecodeMapOf(codes)
<1>1. PICK tree : /\ HasRoom(tree) /\ Eof \in DOMAIN tree.depth
                  /\ codes = CanonicalCodes(tree)
                  /\ \A s \in Symbol : codes[s].bits <= MaxCodeBits
                  /\ decodeMap = DecodeMapOf(codes)
  BY DEF Construction, Built
<1>2. PICK taken : Takes(tree, taken)
  BY <1>1 DEF HasRoom
<1>3. Canonical(codes, taken)
  BY <1>1, <1>2, CodesAreCanonical DEF HasRoom
<1>4. MaxCodeBits = WordBits /\ WordBits \in Nat
  BY Widths
<1>5. Coding(codes)
  BY <1>1, <1>3, <1>4 DEF Canonical, Coding
<1> QED BY <1>1, <1>5

(* What Encode returns are bytes.                                          *)
LEMMA EncodedType ==
  ASSUME NEW coding, Coding(coding), NEW payload \in Seq(Byte)
  PROVE  Encoded(coding, payload) \in Seq(Byte)
<1>1. PICK stream, written : Goes(coding, payload, stream, written)
  BY EncodedGoes
<1> DEFINE m == Len(payload) + 1
<1>2. m \in 0 .. m /\ m \in Nat
  OBVIOUS
<1> HIDE DEF m
<1>3. Written(stream[m], written[m]) /\ Encoded(coding, payload) = stream[m].buffer
  BY <1>1, <1>2 DEF Goes, m
<1> QED BY <1>3 DEF Written

(* Readers of the same buffer.                                             *)
Same(reader) == Reads(reader) /\ BitCount(reader) = BitCount(inBuffer)

(* A reader moved back is one too.                                         *)
LEMMA RewindReads ==
  ASSUME NEW reader, Reads(reader), NEW n \in Nat
  PROVE  Reads(Rewind(reader, n)) /\ BitCount(Rewind(reader, n)) = BitCount(reader)
<1> DEFINE i == IF n > reader.index THEN 0 ELSE reader.index - n
           back == Rewind(reader, n)
<1>1. /\ BitCount(reader) \in Nat /\ reader.index \in Nat /\ reader.index <= BitCount(reader)
      /\ reader \in [buffer : Seq(Byte), index : Nat]
  BY BitCountType DEF Reads
<1>2. i \in Nat /\ i <= BitCount(reader)
  BY <1>1
<1>3. back = [reader EXCEPT !.index = i]
  BY <1>1 DEF Rewind
<1> HIDE DEF i, back
<1>4. back.buffer = reader.buffer /\ back.index = i /\ back \in [buffer : Seq(Byte), index : Nat]
  BY <1>1, <1>2, <1>3
<1>5. BitCount(back) = BitCount(reader)
  BY <1>4 DEF BitCount
<1> QED BY <1>2, <1>4, <1>5 DEF Reads, back

(* A turn of Decode's loop stops or, before the end of the buffer, yields  *)
(* a byte.                                                                 *)
Turn ==
  \/ \E outcome \in {"decoded", "corrupt"} : \E reader :
       Same(reader) /\ Stop(outcome, reader)
  \/ inBuffer.index < BitCount(inBuffer) /\
     \E byte \in Byte : \E reader : Same(reader) /\ Take(byte, reader)

(* That is what a step of the decoder does.                                *)
LEMMA DecodeStepTurns ==
  ASSUME Reading, Construction, DecodeStep
  PROVE  Turn
<1> DEFINE pulled == PullWord(inBuffer, FirstBits)
           codeWord == decodeMap.first[pulled.result]
           more == PullByte(pulled.reader, SecondBits)
           second == decodeMap.second[codeWord.value][more.result]
<1>1. Coding(codes) /\ decodeMap = DecodeMapOf(codes)
  BY BuiltCoding DEF DecodeStep
<1>2. /\ ByteBits \in Nat /\ FirstBits \in 0 .. WordBits /\ SecondBits \in 0 .. ByteBits
      /\ FirstBits \in Nat /\ SecondBits \in Nat /\ Symbol = Byte \cup {Eof}
  BY Widths
<1>3. Reads(inBuffer) /\ inBuffer.index \in Nat /\ BitCount(inBuffer) \in Nat
  BY BitCountType DEF Reading
<1>4. /\ pulled.reader = Moved(inBuffer, FirstBits)
      /\ pulled.result \in 0 .. Power[FirstBits] - 1
  BY <1>2, <1>3, PullWordReads
<1>5. Same(pulled.reader)
  BY <1>2, <1>3, <1>4, MovedReads DEF Same
<1>6. /\ more.reader = Moved(pulled.reader, SecondBits)
      /\ more.result = Prefix(pulled.reader.buffer, pulled.reader.index + SecondBits)
                         % Power[SecondBits]
  <2> HIDE DEF pulled
  <2>1. Reads(pulled.reader)
    BY <1>5 DEF Same
  <2> QED BY <2>1, <1>2, PullByteReads DEF Moved
<1>7. more.result \in 0 .. Power[SecondBits] - 1
  <2> HIDE DEF pulled, more
  <2>1. pulled.reader.index \in Nat /\ pulled.reader.buffer \in Seq(Byte)
    BY <1>5, BitCountType DEF Same
  <2>2. Prefix(pulled.reader.buffer, pulled.reader.index + SecondBits) \in Nat
    BY <2>1, <1>2, PrefixOfPrefix
  <2>3. Power[SecondBits] \in Nat \ {0}
    BY <1>2, PowerType
  <2> DEFINE x == Prefix(pulled.reader.buffer, pulled.reader.index + SecondBits)
             N == Power[SecondBits]
  <2> HIDE DEF x, N
  <2>4. x % N \in 0 .. N - 1
    BY <2>2, <2>3, DivideType DEF x, N
  <2> QED BY <2>4, <1>6 DEF x, N
<1>8. Same(more.reader)
  <2> HIDE DEF pulled, more
  <2> QED BY <1>2, <1>5, <1>6, MovedReads DEF Same
<1> DEFINE e == FirstEntry(codes, pulled.result)
<1>9. codeWord = e
  <2> HIDE DEF pulled
  <2> QED BY <1>1, <1>4, DecodeMapType
<1>10. (e.bits # 0 /\ e.kind = "Symbol") => e.value \in Symbol /\ e.bits \in 0 .. FirstBits
  <2> HIDE DEF pulled
  <2> QED BY <1>1, <1>4, DecodeMapType
<1>11. (e.bits # 0 /\ e.kind # "Symbol") =>
         second.value \in Symbol /\ second.bits \in 0 .. SecondBits
  <2> HIDE DEF pulled, more
  <2>1. SUFFICES ASSUME e.bits # 0, e.kind # "Symbol"
                 PROVE  second.value \in Symbol /\ second.bits \in 0 .. SecondBits
    OBVIOUS
  <2>2. second = SecondEntry(codes, e.value, more.result)
    BY <2>1, <1>1, <1>4, <1>7, <1>9, DecodeMapType
  <2>3. /\ SecondEntry(codes, e.value, more.result).value \in Symbol
        /\ SecondEntry(codes, e.value, more.result).bits \in 0 .. SecondBits
    BY <2>1, <1>1, <1>4, <1>7, DecodeMapType
  <2> QED BY <2>2, <2>3
<1>12. DecodeStep =>
         IF inBuffer.index >= BitCount(inBuffer)
           THEN Stop("decoded", inBuffer)
         ELSE IF codeWord.bits = 0
           THEN Stop("corrupt", pulled.reader)
         ELSE IF codeWord.kind = "Symbol"
           THEN IF codeWord.value = Eof
                  THEN Stop("decoded", pulled.reader)
                  ELSE Take(codeWord.value, Rewind(pulled.reader, FirstBits - codeWord.bits))
         ELSE IF second.value = Eof
           THEN Stop("decoded", more.reader)
         ELSE Take(second.value, Rewind(more.reader, SecondBits - second.bits))
  BY DEF DecodeStep
<1> HIDE DEF pulled, more, second, codeWord
<1>13. CASE inBuffer.index >= BitCount(inBuffer)
  <2>1. Stop("decoded", inBuffer)
    BY <1>12, <1>13
  <2>2. Same(inBuffer)
    BY <1>3 DEF Same
  <2> QED BY <2>1, <2>2 DEF Turn
<1>14. CASE ~ inBuffer.index >= BitCount(inBuffer)
  <2>1. inBuffer.index < BitCount(inBuffer)
    BY <1>3, <1>14
  <2>2. CASE e.bits = 0
    <3>1. Stop("corrupt", pulled.reader)
      BY <2>2, <1>9, <1>12, <1>14
    <3> QED BY <3>1, <1>5 DEF Turn
  <2>3. CASE e.bits # 0 /\ e.kind = "Symbol" /\ e.value = Eof
    <3>1. Stop("decoded", pulled.reader)
      BY <2>3, <1>9, <1>12, <1>14
    <3> QED BY <3>1, <1>5 DEF Turn
  <2>4. CASE e.bits # 0 /\ e.kind = "Symbol" /\ e.value # Eof
    <3>1. Take(e.value, Rewind(pulled.reader, FirstBits - e.bits))
      BY <2>4, <1>9, <1>12, <1>14
    <3>2. e.value \in Byte /\ FirstBits - e.bits \in Nat
      BY <2>4, <1>2, <1>10
    <3>3. Same(Rewind(pulled.reader, FirstBits - e.bits))
      BY <3>2, <1>5, RewindReads DEF Same
    <3> QED BY <2>1, <3>1, <3>2, <3>3 DEF Turn
  <2>5. CASE e.bits # 0 /\ e.kind # "Symbol" /\ second.value = Eof
    <3>1. Stop("decoded", more.reader)
      BY <2>5, <1>9, <1>12, <1>14
    <3> QED BY <3>1, <1>8 DEF Turn
  <2>6. CASE e.bits # 0 /\ e.kind # "Symbol" /\ second.value # Eof
    <3>1. Take(second.value, Rewind(more.reader, SecondBits - second.bits))
      BY <2>6, <1>9, <1>12, <1>14
    <3>2. second.value \in Byte /\ SecondBits - second.bits \in Nat
      BY <2>6, <1>2, <1>11
    <3>3. Same(Rewind(more.reader, SecondBits - second.bits))
      BY <3>2, <1>8, RewindReads DEF Same
    <3> QED BY <2>1, <3>1, <3>2, <3>3 DEF Turn
  <2> QED BY <2>2, <2>3, <2>4, <2>5, <2>6
<1> QED BY <1>13, <1>14

(* Every step keeps the reader inside its buffer.                          *)
LEMMA NextReading == Construction /\ Reading /\ [Next]_vars => Reading'
<1> SUFFICES ASSUME Construction, Reading, [Next]_vars PROVE Reading'
  OBVIOUS
<1> USE DEF Reading
<1>1. CASE JoinTrees
  BY <1>1 DEF JoinTrees
<1>2. CASE GenerateMaps
  <2>1. /\ pc = "building" /\ (pc' = "refused" \/ pc' = "ready")
        /\ UNCHANGED <<frequencies, message, inBuffer, lastPosition, result>>
    BY <1>2 DEF GenerateMaps
  <2> QED BY <2>1
<1>3. ASSUME NEW source \in Messages \cup {NoMessage}, NEW buffer \in Seq(Byte),
             BeginDecode(source, buffer)
      PROVE  Reading'
  <2>1. /\ pc = "ready" /\ pc' = "decoding" /\ message' = source
        /\ inBuffer' = Reader(buffer) /\ UNCHANGED <<frequencies, lastPosition, result>>
    BY <1>3 DEF BeginDecode
  <2>2. lastPosition = 0 /\ result = << >> /\ Len(result) = 0
    BY <2>1
  <2>3. Reads(Reader(buffer)) /\ Reader(buffer).index = 0 /\ BitCount(Reader(buffer)) \in Nat
    BY ReaderBegins
  <2> QED BY <2>1, <2>2, <2>3
<1>4. CASE DecodeEncoded
  <2>1. PICK m \in Messages : BeginDecode(m, Encoded(codes, m))
    BY <1>4 DEF DecodeEncoded
  <2>2. Coding(codes)
    BY <2>1, BuiltCoding DEF BeginDecode
  <2>3. m \in Seq(Byte)
    BY HuffmanAssumption
  <2> QED BY <2>1, <2>2, <2>3, <1>3, EncodedType
<1>5. CASE DecodeStranger
  <2>1. PICK b \in Strangers : BeginDecode(NoMessage, b)
    BY <1>5 DEF DecodeStranger
  <2>2. b \in Seq(Byte)
    BY HuffmanAssumption
  <2> QED BY <2>1, <2>2, <1>3
<1>6. CASE DecodeStep
  <2>1. /\ pc = "decoding" /\ UNCHANGED <<frequencies, message>>
        /\ lastPosition = inBuffer.index /\ Len(result) <= lastPosition
        /\ inBuffer.index \in Nat /\ BitCount(inBuffer) \in Nat /\ Len(result) \in Nat
    BY <1>6, BitCountType DEF DecodeStep
  <2>2. Turn
    BY <1>6, DecodeStepTurns
  <2>3. CASE \E outcome \in {"decoded", "corrupt"} : \E reader :
               Same(reader) /\ Stop(outcome, reader)
    <3>0. PICK outcome \in {"decoded", "corrupt"} : \E reader :
                 Same(reader) /\ Stop(outcome, reader)
      BY <2>3
    <3>1. PICK reader : Same(reader) /\ Stop(outcome, reader)
      BY <3>0
    <3>2. /\ pc' = outcome /\ inBuffer' = reader /\ lastPosition' = lastPosition
          /\ result' = result /\ Reads(reader) /\ BitCount(reader) = BitCount(inBuffer)
      BY <3>1 DEF Same, Stop
    <3>3. BitCount(inBuffer)' = BitCount(inBuffer) /\ Reads(inBuffer)'
      BY <3>2
    <3> QED BY <2>1, <3>2, <3>3
  <2>4. CASE inBuffer.index < BitCount(inBuffer) /\
             \E byte \in Byte : \E reader : Same(reader) /\ Take(byte, reader)
    <3>0. PICK byte \in Byte : \E reader : Same(reader) /\ Take(byte, reader)
      BY <2>4
    <3>1. PICK reader : Same(reader) /\ Take(byte, reader)
      BY <3>0
    <3>2. /\ result' = Append(result, byte) /\ inBuffer' = reader
          /\ Reads(reader) /\ BitCount(reader) = BitCount(inBuffer)
          /\ reader.index \in Nat /\ reader.index <= BitCount(inBuffer)
      BY <3>1, BitCountType DEF Same, Take, Reads
    <3>3. BitCount(inBuffer)' = BitCount(inBuffer) /\ Reads(inBuffer)'
      BY <3>2
    <3>4. result' \in Seq(Byte) /\ Len(result') = Len(result) + 1
      BY <3>2
    <3>5. Len(result') <= BitCount(inBuffer)
      BY <2>1, <2>4, <3>4
    <3>6. CASE GoesOn(reader.index)
      <4>1. lastPosition' = reader.index /\ pc' = pc /\ reader.index > lastPosition
        BY <3>1, <3>6 DEF Take, GoesOn
      <4> QED BY <2>1, <3>2, <3>3, <3>4, <3>5, <4>1
    <3>7. CASE ~ GoesOn(reader.index)
      <4>1. lastPosition' = lastPosition /\ pc' = "decoded"
        BY <3>1, <3>7 DEF Take
      <4> QED BY <2>1, <3>2, <3>3, <3>4, <3>5, <4>1
    <3> QED BY <3>6, <3>7
  <2> QED BY <2>2, <2>3, <2>4 DEF Turn
<1>7. CASE UNCHANGED vars
  BY <1>7 DEF vars, Reads, BitCount
<1> QED BY <1>1, <1>2, <1>4, <1>5, <1>6, <1>7 DEF Next

(* For every width of a byte, table, payload and buffer: every variable    *)
(* has its type, the read index stays in the buffer, what is decoded are   *)
(* bytes.                                                                  *)
THEOREM CompressorTypeCorrect == Spec => []TypeOK
<1>1. Init => Construction /\ Reading
  BY InitConstruction, InitReading
<1>2. Construction /\ Reading /\ [Next]_vars => (Construction /\ Reading)'
  BY NextConstruction, NextReading
<1>3. Reading => TypeOK
  <2> SUFFICES ASSUME Reading PROVE TypeOK
    OBVIOUS
  <2>1. inBuffer.index \in 0 .. BitCount(inBuffer) /\ inBuffer.buffer \in Seq(Byte)
    BY BitCountType DEF Reading, Reads
  <2> QED BY <2>1 DEF Reading, TypeOK
<1> QED BY <1>1, <1>2, <1>3, PTL DEF Spec

(* And Decode yields no more bytes than its buffer has bits: its loop ends *)
(* whatever it is given.                                                   *)
THEOREM DecodeEnds == Spec => []DecodeBounded
<1>1. Init => Construction /\ Reading
  BY InitConstruction, InitReading
<1>2. Construction /\ Reading /\ [Next]_vars => (Construction /\ Reading)'
  BY NextConstruction, NextReading
<1>3. Reading => DecodeBounded
  BY DEF Reading, DecodeBounded
<1> QED BY <1>1, <1>2, <1>3, PTL DEF Spec

-----------------------------------------------------------------------------
(* Tables in which every byte occurs.                                      *)

(* A longer shift is a larger power.                                       *)
LEMMA PowerBelow ==
  ASSUME NEW m \in Nat, NEW n \in Nat, Power[m] < Power[n]
  PROVE  m < n
<1> SUFFICES ASSUME n <= m PROVE FALSE
  OBVIOUS
<1> DEFINE d == m - n
<1>1. d \in Nat /\ m = n + d
  OBVIOUS
<1>2. Power[n + d] = Power[n] * Power[d]
  BY <1>1, PowerOfSum
<1>3. Power[n] \in Nat \ {0} /\ Power[d] \in Nat \ {0} /\ Power[m] \in Nat
  BY <1>1, PowerType
<1>4. 0 * Power[n] + Power[n] <= Power[d] * Power[n]
  <2>1. 0 \in Nat /\ 0 < Power[d]
    BY <1>3
  <2> QED
    BY <2>1, <1>3, ShiftedBelow
<1>5. Power[d] * Power[n] = Power[n] * Power[d] /\ 0 * Power[n] = 0
  BY <1>3
<1> QED
  BY <1>1, <1>2, <1>3, <1>4, <1>5

(* A byte takes at least one of the places at each depth below it.         *)
Upto(t, level) == { b \in Byte \cap DOMAIN t.depth : t.depth[b] <= level }
(* So they do together.                                                    *)
LEMMA UptoIsTaken ==
  ASSUME NEW t, IsTree(t), NEW taken, Takes(t, taken), NEW n \in Nat
  PROVE  IsFiniteSet(Upto(t, n)) /\ Cardinality(Upto(t, n)) <= taken[n]
<1> DEFINE Bad(k) == ~ Cardinality(Upto(t, k)) <= taken[k]
<1>1. \A k \in Nat : IsFiniteSet(Upto(t, k)) /\ Cardinality(Upto(t, k)) \in Nat
  <2> TAKE k \in Nat
  <2>1. Upto(t, k) \subseteq Byte
    BY DEF Upto
  <2> QED
    BY <2>1, Widths, FS_Subset, FS_CardinalityType
<1> SUFFICES ASSUME Bad(n) PROVE FALSE
  BY <1>1
<1> DEFINE T == { k \in Nat : Bad(k) }
<1>2. n \in T /\ T \subseteq Nat
  OBVIOUS
<1>3. PICK k \in T : \A j \in T : k <= j
  <2> HIDE DEF T
  <2> QED
    BY <1>2, LeastNatural
<1>4. k \in Nat /\ Bad(k)
  BY <1>3
<1>5. \A b \in Byte \cap DOMAIN t.depth : t.depth[b] \in Nat
  BY DEF IsTree
<1>6. taken[k] \in Nat
  BY <1>4 DEF Takes
<1>7. k # 0
  <2> SUFFICES ASSUME k = 0 PROVE FALSE
    OBVIOUS
  <2>1. Upto(t, 0) = Leaves(t, 0)
    BY <1>5 DEF Upto, Leaves
  <2>2. taken[0] = Cardinality(Leaves(t, 0))
    BY DEF Takes, Count
  <2> QED
    BY <1>1, <1>4, <2>1, <2>2
<1> DEFINE j == k - 1
<1>8. j \in Nat /\ k = j + 1 /\ ~ Bad(j)
  <2>1. j \in Nat /\ k = j + 1 /\ ~ k <= j
    BY <1>4, <1>7
  <2> QED
    BY <2>1, <1>3
<1>9. Upto(t, k) = Upto(t, j) \cup Leaves(t, k) /\ Upto(t, j) \cap Leaves(t, k) = {}
  BY <1>5, <1>8 DEF Upto, Leaves
<1>10. IsFiniteSet(Leaves(t, k)) /\ Count(t, k) \in Nat
  BY CountType
<1>11. Cardinality(Upto(t, k)) = Cardinality(Upto(t, j)) + Count(t, k)
  <2>1. Cardinality(Upto(t, j) \cup Leaves(t, k)) =
          Cardinality(Upto(t, j)) + Cardinality(Leaves(t, k))
            - Cardinality(Upto(t, j) \cap Leaves(t, k))
    BY <1>1, <1>8, <1>10, FS_Union
  <2>2. Cardinality(Upto(t, j) \cap Leaves(t, k)) = 0
    BY <1>9, FS_EmptySet
  <2> QED
    BY <1>1, <1>8, <1>9, <1>10, <2>1, <2>2 DEF Count
<1>12. taken[j] \in Nat /\ taken[k] = 2 * taken[j] + Count(t, k)
  BY <1>8 DEF Takes
<1> QED
  BY <1>1, <1>4, <1>8, <1>10, <1>11, <1>12

(* With a leaf for every byte the longest code of a byte is longer than a  *)
(* byte, and none is empty.                                                *)
LEMMA AllBytesTaken ==
  ASSUME NEW t, IsTree(t), NEW taken, Takes(t, taken), Eof \in DOMAIN t.depth,
         Byte \subseteq DOMAIN t.depth
  PROVE  /\ \A b \in Byte : PathBits(t)[b] \in Nat \ {0}
         /\ Max(Range(PathBits(t))) \in Nat
         /\ Max(Range(PathBits(t))) > ByteBits
<1> DEFINE bits == PathBits(t)
           max == Max(Range(bits))
<1>1. /\ bits \in [Byte -> Nat] /\ max \in Nat /\ \A b \in Byte : bits[b] <= max
  BY PathBitsType
<1>2. \A b \in Byte : bits[b] = t.depth[b]
  BY DEF PathBits
<1>3. \A b \in Byte : bits[b] # 0
  <2>1. taken[0] = Count(t, 0) /\ taken[0] < Power[0] /\ taken[0] \in Nat
    BY DEF Takes
  <2>2. Cardinality(Leaves(t, 0)) = 0 /\ IsFiniteSet(Leaves(t, 0))
    BY <2>1, PowerSteps, CountType DEF Count
  <2>3. Leaves(t, 0) = {}
    BY <2>2, FS_EmptySet
  <2> QED
    BY <1>2, <2>3 DEF Leaves
<1>4. Upto(t, max) = Byte
  <2> HIDE DEF bits, max
  <2> QED
    BY <1>1, <1>2 DEF Upto
<1>5. Cardinality(Byte) <= taken[max]
  BY <1>1, <1>4, UptoIsTaken
<1>6. Cardinality(Byte) = Power[ByteBits]
  <2>1. Power[ByteBits] \in Nat /\ 0 \in Int /\ Power[ByteBits] - 1 \in Int /\ Power[ByteBits] # 0
    BY Widths
  <2>2. Cardinality(0 .. Power[ByteBits] - 1) =
          IF 0 > Power[ByteBits] - 1 THEN 0 ELSE (Power[ByteBits] - 1) - 0 + 1
    BY <2>1, FS_Interval
  <2> QED
    BY <2>1, <2>2, Widths
<1>7. taken[max] \in Nat /\ taken[max] < Power[max] /\ Power[max] \in Nat
  BY <1>1, PowerType DEF Takes
<1>8. ByteBits < max
  <2>1. Power[ByteBits] < Power[max]
    <3> HIDE DEF max
    <3> QED
      BY <1>5, <1>6, <1>7, Widths
  <2> QED
    BY <1>1, <2>1, Widths, PowerBelow
<1> QED
  BY <1>1, <1>3, <1>8, Widths

(* Every byte has a code, and the first decode map has no room for that of *)
(* the end marker.                                                         *)
AllCoded(coding) ==
  /\ \A b \in Byte : coding[b].bits # 0
  /\ coding[Eof].bits > FirstBits
(* So it is where every byte has a leaf.                                   *)
LEMMA AllAreCoded ==
  ASSUME NEW t, IsTree(t), NEW taken, Takes(t, taken), Eof \in DOMAIN t.depth,
         Byte \subseteq DOMAIN t.depth
  PROVE  AllCoded(CanonicalCodes(t))
<1> DEFINE bits == PathBits(t)
           max == Max(Range(bits))
<1>1. (\A b \in Byte : bits[b] \in Nat \ {0}) /\ max \in Nat /\ max > ByteBits
  BY AllBytesTaken
<1>2. \A b \in Byte : b \in Symbol /\ b # Eof
  BY Widths
<1>3. \A b \in Byte : CanonicalCodes(t)[b].bits = bits[b]
  BY <1>1, <1>2 DEF CanonicalCodes
<1>4. Eof \in Symbol /\ CanonicalCodes(t)[Eof].bits = MarkerBits(max)
  BY Widths DEF CanonicalCodes
<1>5. MarkerBits(max) = max + 1 /\ ByteBits \in Nat
  BY <1>1, Widths DEF MarkerBits
<1> QED
  BY <1>1, <1>3, <1>4, <1>5, Widths DEF AllCoded

-----------------------------------------------------------------------------
(* The next WordBits bits of a buffer begin with a code.                   *)
Matches(code, window) == window \div Power[WordBits - code.bits] = code.value

(* They begin with that of one symbol only.                                *)
LEMMA ShorterMatches ==
  ASSUME NEW t, NEW taken, Takes(t, taken), NEW coding, Canonical(coding, taken),
         Coding(coding), NEW s \in Used(coding), NEW u \in Used(coding),
         coding[s].bits <= coding[u].bits, NEW window \in Nat,
         Matches(coding[s], window), Matches(coding[u], window)
  PROVE  s = u
<1> SUFFICES ASSUME s # u PROVE FALSE
  OBVIOUS
<1> DEFINE m == coding[s].bits
           n == coding[u].bits
<1>1. /\ s \in Symbol /\ u \in Symbol /\ m \in Nat /\ n \in Nat /\ m # 0 /\ n # 0
      /\ m <= WordBits /\ n <= WordBits /\ WordBits \in Nat
  <2>1. WordBits \in Nat
    BY Widths
  <2> QED
    BY <2>1 DEF Coding, Used
<1>2. coding[u].value \div Power[n - m] # coding[s].value
  BY <1>1, NoCodeBegins
<1>3. /\ WordBits - n \in Nat /\ n - m \in Nat
      /\ WordBits - m = (WordBits - n) + (n - m)
  BY <1>1
<1>4. Power[WordBits - m] = Power[WordBits - n] * Power[n - m]
  BY <1>3, PowerOfSum
<1>5. Power[WordBits - n] \in Nat \ {0} /\ Power[n - m] \in Nat \ {0}
  BY <1>3, PowerType
<1>6. (window \div Power[WordBits - n]) \div Power[n - m]
        = window \div (Power[WordBits - n] * Power[n - m])
  BY <1>5, DivideTwice
<1> QED
  BY <1>2, <1>4, <1>6 DEF Matches

(* Whichever is the longer.                                                *)
LEMMA OneMatches ==
  ASSUME NEW t, NEW taken, Takes(t, taken), NEW coding, Canonical(coding, taken),
         Coding(coding), NEW s \in Used(coding), NEW u \in Used(coding),
         NEW window \in Nat, Matches(coding[s], window), Matches(coding[u], window)
  PROVE  s = u
<1>1. coding[s].bits \in Int /\ coding[u].bits \in Int
  BY Widths DEF Coding, Used
<1>2. CASE coding[s].bits <= coding[u].bits
  BY <1>2, ShorterMatches
<1>3. CASE coding[u].bits <= coding[s].bits
  BY <1>3, ShorterMatches
<1> QED
  BY <1>1, <1>2, <1>3

(* The numbers of total bits that begin with a value of some bits.         *)
LEMMA StartingWithIs ==
  ASSUME NEW v \in Nat, NEW bits \in Nat \ {0}, NEW total \in Nat, bits <= total,
         NEW i \in Nat
  PROVE  i \in StartingWith(v, bits, total) <=> i \div Power[total - bits] = v
<1> DEFINE free == Power[total - bits]
<1>1. total - bits \in Nat /\ free \in Nat \ {0}
  <2>1. total - bits \in Nat
    OBVIOUS
  <2> QED
    BY <2>1, PowerType
<1>2. CASE bits < total
  <2>1. StartingWith(v, bits, total) = { v * free + k : k \in 0 .. free - 1 }
    BY <1>2 DEF StartingWith
  <2> HIDE DEF free
  <2>2. ASSUME i \in StartingWith(v, bits, total) PROVE i \div free = v
    <3>1. PICK k \in 0 .. free - 1 : i = v * free + k
      BY <2>1, <2>2
    <3>2. i = free * v + k
      BY <3>1, <1>1
    <3> QED
      BY <3>1, <3>2, <1>1, DivideIs
  <2>3. ASSUME i \div free = v PROVE i \in StartingWith(v, bits, total)
    <3>1. i = free * (i \div free) + (i % free) /\ i % free \in Nat /\ i % free < free
      BY <1>1, DivideType
    <3>2. i % free \in 0 .. free - 1 /\ free * v = v * free
      BY <3>1, <1>1
    <3>3. i = v * free + (i % free)
      BY <3>1, <3>2, <2>3
    <3> QED
      BY <2>1, <3>2, <3>3
  <2> QED
    BY <2>2, <2>3 DEF free
<1>3. CASE ~ bits < total
  <2>1. bits = total /\ StartingWith(v, bits, total) = {v} /\ total - bits = 0
    BY <1>3 DEF StartingWith
  <2>2. Power[total - bits] = 1
    BY <2>1, PowerSteps
  <2>3. i = 1 * i + 0 /\ 0 \in 0 .. 1 - 1 /\ 1 \in Nat \ {0}
    OBVIOUS
  <2>4. i \div 1 = i
    BY <2>3, DivideIs
  <2> QED
    BY <2>1, <2>2, <2>4
<1> QED
  BY <1>2, <1>3

(* The widths of the two indexes make a window.                            *)
LEMMA WindowWidths ==
  ASSUME NEW coding, Coding(coding), NEW s \in Used(coding)
  PROVE  /\ coding[s].bits \in Nat \ {0} /\ coding[s].bits <= WordBits
         /\ coding[s].value \in Nat /\ s \in Symbol
         /\ FirstBits \in Nat /\ SecondBits \in Nat /\ WordBits \in Nat
         /\ WordBits = SecondBits + FirstBits
         /\ IsLong(coding[s]) =>
              /\ RestBits(coding[s]) \in Nat \ {0}
              /\ RestBits(coding[s]) <= SecondBits
              /\ coding[s].bits = FirstBits + RestBits(coding[s])
              /\ SecondBits - RestBits(coding[s]) \in Nat
              /\ WordBits - coding[s].bits = SecondBits - RestBits(coding[s])
         /\ ~ IsLong(coding[s]) =>
              /\ coding[s].bits <= FirstBits /\ FirstBits - coding[s].bits \in Nat
              /\ WordBits - coding[s].bits = SecondBits + (FirstBits - coding[s].bits)
<1>1. s \in Symbol /\ coding[s].bits > 0
  BY DEF Used
<1>2. coding[s].bits \in 0 .. WordBits /\ coding[s].value \in Nat
  BY <1>1 DEF Coding
<1> QED
  BY <1>1, <1>2, Widths DEF IsLong, RestBits

(* A short code is entered where it matches.                               *)
LEMMA ShortIndexes ==
  ASSUME NEW coding, Coding(coding), NEW s \in Used(coding), ~ IsLong(coding[s]),
         NEW window \in Nat
  PROVE  window \div Power[SecondBits] \in FirstIndexes(coding[s])
           <=> Matches(coding[s], window)
<1> DEFINE m == coding[s].bits
           i == window \div Power[SecondBits]
<1>1. /\ m \in Nat \ {0} /\ m <= FirstBits /\ FirstBits - m \in Nat
      /\ coding[s].value \in Nat /\ FirstBits \in Nat /\ SecondBits \in Nat
      /\ WordBits - m = SecondBits + (FirstBits - m)
  BY WindowWidths
<1>2. Power[SecondBits] \in Nat \ {0} /\ Power[FirstBits - m] \in Nat \ {0}
  BY <1>1, PowerType
<1>3. i \in Nat
  BY <1>2, DivideType
<1>4. i \div Power[FirstBits - m] = window \div (Power[SecondBits] * Power[FirstBits - m])
  BY <1>2, DivideTwice
<1>5. Power[WordBits - m] = Power[SecondBits] * Power[FirstBits - m]
  BY <1>1, PowerOfSum
<1>6. FirstIndexes(coding[s]) = StartingWith(coding[s].value, m, FirstBits)
  BY DEF FirstIndexes
<1>7. i \in StartingWith(coding[s].value, m, FirstBits)
        <=> i \div Power[FirstBits - m] = coding[s].value
  <2> HIDE DEF i, m
  <2> QED
    BY <1>1, <1>3, StartingWithIs
<1> QED
  BY <1>4, <1>5, <1>6, <1>7 DEF Matches

(* So is a long one, at both of its indexes and at no other pair.          *)
LEMMA LongIndexes ==
  ASSUME NEW coding, Coding(coding), NEW s \in Used(coding), IsLong(coding[s]),
         NEW window \in Nat
  PROVE  Matches(coding[s], window) <=>
           /\ window \div Power[SecondBits] = TopBits(coding[s])
           /\ window % Power[SecondBits] \in SecondIndexes(coding[s])
<1> DEFINE r == RestBits(coding[s])
           v == coding[s].value
           P == Power[SecondBits - r]
           R == Power[r]
           w == window \div P
           j == window % Power[SecondBits]
<1>1. /\ r \in Nat \ {0} /\ r <= SecondBits /\ SecondBits - r \in Nat /\ v \in Nat
      /\ SecondBits \in Nat /\ WordBits - coding[s].bits = SecondBits - r
      /\ SecondBits = (SecondBits - r) + r
  BY WindowWidths
<1>2. P \in Nat \ {0} /\ R \in Nat \ {0} /\ Power[SecondBits] \in Nat \ {0}
  BY <1>1, PowerType
<1>3. Power[SecondBits] = P * R
  BY <1>1, PowerOfSum
<1>4. /\ w \div R = window \div Power[SecondBits]
      /\ j \div P = w % R
  <2> HIDE DEF P, R
  <2>1. /\ (window \div P) \div R = window \div (P * R)
        /\ (window % (P * R)) \div P = (window \div P) % R
    BY <1>2, DivideTwice
  <2> QED
    BY <1>3, <2>1
<1>5. w \in Nat /\ j \in Nat /\ v % R \in Nat
  <2> HIDE DEF P, R
  <2> QED
    BY <1>1, <1>2, DivideType
<1>6. j \in SecondIndexes(coding[s]) <=> j \div P = v % R
  <2>1. SecondIndexes(coding[s]) = StartingWith(v % R, r, SecondBits)
    BY DEF SecondIndexes
  <2> HIDE DEF j, v, r
  <2>2. j \in StartingWith(v % R, r, SecondBits) <=> j \div Power[SecondBits - r] = v % R
    BY <1>1, <1>5, StartingWithIs
  <2> QED
    BY <2>1, <2>2
<1>7. TopBits(coding[s]) = v \div R
  BY DEF TopBits
<1>8. Matches(coding[s], window) <=> w = v
  BY <1>1 DEF Matches
<1>9. w = R * (w \div R) + (w % R) /\ v = R * (v \div R) + (v % R)
  <2> HIDE DEF w, v, R
  <2> QED
    BY <1>1, <1>2, <1>5, DivideType
<1>10. (w \div R = v \div R /\ w % R = v % R) <=> w = v
  <2> HIDE DEF w, v, R
  <2> QED
    BY <1>9
<1> HIDE DEF w, v, R, j, P
<1> QED
  BY <1>4, <1>6, <1>7, <1>8, <1>10 DEF j

(* The code of one symbol begins no other that is too long for the first   *)
(* map, cut off as it is there.                                            *)
LEMMA ShortBeginsNoTop ==
  ASSUME NEW t, NEW taken, Takes(t, taken), NEW coding, Canonical(coding, taken),
         Coding(coding), NEW s \in Used(coding), NEW u \in Used(coding),
         ~ IsLong(coding[s]), IsLong(coding[u]), NEW window \in Nat,
         Matches(coding[s], window)
  PROVE  window \div Power[SecondBits] # TopBits(coding[u])
<1> DEFINE m == coding[s].bits
           n == coding[u].bits
           r == RestBits(coding[u])
           v == coding[u].value
           P == Power[FirstBits - m]
           R == Power[r]
<1>1. /\ m \in Nat \ {0} /\ m <= FirstBits /\ FirstBits - m \in Nat
      /\ s \in Symbol /\ u \in Symbol /\ r \in Nat \ {0} /\ v \in Nat
      /\ FirstBits \in Nat /\ SecondBits \in Nat /\ n \in Nat
      /\ n = FirstBits + r
      /\ WordBits - m = SecondBits + (FirstBits - m)
  BY WindowWidths
<1>2. m <= n /\ n - m = r + (FirstBits - m) /\ s # u
  BY <1>1
<1>3. v \div Power[n - m] # coding[s].value
  BY <1>1, <1>2, NoCodeBegins
<1>4. P \in Nat \ {0} /\ R \in Nat \ {0} /\ Power[SecondBits] \in Nat \ {0}
  BY <1>1, PowerType
<1>5. Power[n - m] = R * P /\ Power[WordBits - m] = Power[SecondBits] * P
  BY <1>1, <1>2, PowerOfSum
<1>6. /\ (v \div R) \div P = v \div (R * P)
      /\ (window \div Power[SecondBits]) \div P = window \div (Power[SecondBits] * P)
  <2> HIDE DEF P, R, v
  <2>1. v \in Nat
    BY <1>1
  <2>2. P \in Nat \ {0} /\ R \in Nat \ {0}
    BY <1>4
  <2>3. (v \div R) \div P = v \div (R * P)
    BY <2>1, <2>2, DivideTwice
  <2>4. (window \div Power[SecondBits]) \div P = window \div (Power[SecondBits] * P)
    BY <1>4, <2>2, DivideTwice
  <2> QED
    BY <2>3, <2>4
<1>7. TopBits(coding[u]) = v \div R
  BY DEF TopBits
<1>8. window \div Power[WordBits - m] = coding[s].value
  BY DEF Matches
<1> HIDE DEF v, R, P, m
<1> QED
  BY <1>3, <1>5, <1>6, <1>7, <1>8

(* At the top of the window that the code of s begins the first map names  *)
(* s, or the second map that names s at the rest.                          *)
Decodes(coding, s, window) ==
  LET first == FirstEntry(coding, window \div Power[SecondBits])
  IN  /\ ~ IsLong(coding[s]) => first = Found(s, coding[s].bits)
      /\ IsLong(coding[s]) =>
           /\ first = Continue(TopBits(coding[s]))
           /\ SecondEntry(coding, TopBits(coding[s]), window % Power[SecondBits])
                = Found(s, RestBits(coding[s]))
(* So they do, as no other code matches.                                   *)
LEMMA MapDecodes ==
  ASSUME NEW t, NEW taken, Takes(t, taken), NEW coding, Canonical(coding, taken),
         Coding(coding), NEW s \in Used(coding), NEW window \in Nat,
         Matches(coding[s], window)
  PROVE  Decodes(coding, s, window)
<1> DEFINE i == window \div Power[SecondBits]
           j == window % Power[SecondBits]
           top == TopBits(coding[s])
<1>1. \A u \in Used(coding) : Matches(coding[u], window) => u = s
  BY OneMatches
<1>2. \A u \in Used(coding) : ~ IsLong(coding[u]) /\ i \in FirstIndexes(coding[u]) => u = s
  BY <1>1, ShortIndexes
<1>3. ASSUME ~ IsLong(coding[s])
      PROVE  FirstEntry(coding, i) = Found(s, coding[s].bits)
  <2>1. i \in FirstIndexes(coding[s])
    BY <1>3, ShortIndexes
  <2>2. \A u \in Used(coding) : IsLong(coding[u]) => i \notin FirstIndexes(coding[u])
    <3> TAKE u \in Used(coding)
    <3> HAVE IsLong(coding[u])
    <3>1. i # TopBits(coding[u])
      BY <1>3, ShortBeginsNoTop
    <3>2. FirstIndexes(coding[u]) = {TopBits(coding[u])}
      BY DEF FirstIndexes
    <3> QED
      BY <3>1, <3>2
  <2> HIDE DEF i
  <2> QED
    BY <1>2, <2>1, <2>2, FirstEntryType
<1>4. ASSUME IsLong(coding[s])
      PROVE  /\ FirstEntry(coding, i) = Continue(top)
             /\ SecondEntry(coding, top, j) = Found(s, RestBits(coding[s]))
  <2>1. i = top /\ j \in SecondIndexes(coding[s])
    BY <1>4, LongIndexes
  <2>2. i \in FirstIndexes(coding[s])
    BY <1>4, <2>1 DEF FirstIndexes
  <2>3. \A u \in Used(coding) : IsLong(coding[u]) /\ i \in FirstIndexes(coding[u]) =>
          TopBits(coding[u]) = top
    BY <2>1 DEF FirstIndexes
  <2>4. FirstEntry(coding, i) = Continue(top)
    <3> HIDE DEF i, top
    <3> QED
      BY <1>2, <1>4, <2>2, <2>3, FirstEntryType
  <2>5. s \in LongCodes(coding) /\ LongCodes(coding) \subseteq Used(coding)
    BY <1>4 DEF LongCodes
  <2>6. \A u \in LongCodes(coding) :
          TopBits(coding[u]) = top /\ j \in SecondIndexes(coding[u]) => u = s
    <3> TAKE u \in LongCodes(coding)
    <3> HAVE TopBits(coding[u]) = top /\ j \in SecondIndexes(coding[u])
    <3>1. u \in Used(coding) /\ IsLong(coding[u])
      BY DEF LongCodes
    <3>2. Matches(coding[u], window)
      BY <2>1, <3>1, LongIndexes
    <3> QED
      BY <1>1, <3>1, <3>2
  <2>7. SecondEntry(coding, top, j) = Found(s, RestBits(coding[s]))
    <3> HIDE DEF j, top
    <3>1. top = TopBits(coding[s])
      BY DEF top
    <3> QED
      BY <2>1, <2>5, <2>6, <3>1, SecondEntryType
  <2> QED
    BY <2>4, <2>7
<1> QED
  BY <1>3, <1>4 DEF Decodes

-----------------------------------------------------------------------------
(* The next WordBits bits at a position.                                   *)
Window(b, p) == Prefix(b, p + WordBits) % Power[WordBits]

(* It is a window, and its upper and lower parts are what is pulled.       *)
LEMMA WindowParts ==
  ASSUME NEW b \in Seq(Byte), NEW p \in Nat
  PROVE  /\ Window(b, p) \in Nat
         /\ Window(b, p) \div Power[SecondBits]
              = Prefix(b, p + FirstBits) % Power[FirstBits]
         /\ Window(b, p) % Power[SecondBits]
              = Prefix(b, p + FirstBits + SecondBits) % Power[SecondBits]
         /\ \A n \in 0 .. WordBits :
              Window(b, p) \div Power[WordBits - n] = Prefix(b, p + n) % Power[n]
<1>1. /\ ByteBits \in Nat /\ WordBits \in Nat /\ FirstBits \in Nat /\ SecondBits \in Nat
      /\ FirstBits \in 0 .. WordBits /\ SecondBits = WordBits - FirstBits
      /\ WordBits = FirstBits + SecondBits
      /\ p + FirstBits + SecondBits = p + WordBits /\ p + WordBits \in Nat
  BY Widths
<1> DEFINE X == Prefix(b, p + WordBits)
<1>2. X \in Nat
  BY <1>1, PrefixOfPrefix
<1>3. \A n \in Nat : Power[n] \in Nat \ {0}
  BY PowerType
<1>4. Window(b, p) \in Nat
  <2>1. Power[WordBits] \in Nat \ {0}
    BY <1>1, <1>3
  <2> HIDE DEF X
  <2>2. X % Power[WordBits] \in Nat
    BY <1>2, <2>1, DivideType
  <2> QED
    BY <2>2 DEF Window, X
<1>5. ASSUME NEW n \in 0 .. WordBits
      PROVE  /\ Window(b, p) \div Power[WordBits - n] = Prefix(b, p + n) % Power[n]
             /\ Window(b, p) % Power[WordBits - n] = X % Power[WordBits - n]
  <2> DEFINE A == Power[WordBits - n]
             N == Power[n]
  <2>1. n \in Nat /\ WordBits - n \in Nat /\ WordBits = (WordBits - n) + n
    BY <1>1
  <2>2. A \in Nat \ {0} /\ N \in Nat \ {0}
    BY <1>3, <2>1
  <2>3. Power[WordBits] = A * N
    BY <2>1, PowerOfSum
  <2>4. p + n \in Nat /\ (p + n) + (WordBits - n) = p + WordBits
    BY <1>1, <2>1
  <2>5. X \div A = Prefix(b, p + n)
    <3>1. Prefix(b, (p + n) + (WordBits - n)) \div Power[WordBits - n] = Prefix(b, p + n)
      BY <2>1, <2>4, PrefixOfPrefix
    <3> QED
      BY <3>1, <2>4
  <2>6. (X % (A * N)) \div A = (X \div A) % N /\ (X % (A * N)) % A = X % A
    <3> HIDE DEF X, A, N
    <3> QED
      BY <1>2, <2>2, DivideTwice
  <2>7. Window(b, p) = X % (A * N)
    BY <2>3 DEF Window
  <2> HIDE DEF X, A, N
  <2>8. Window(b, p) \div A = Prefix(b, p + n) % N /\ Window(b, p) % A = X % A
    BY <2>5, <2>6, <2>7
  <2> QED
    BY <2>8 DEF A, N
<1> QED
  BY <1>1, <1>4, <1>5

(* Where each symbol begins in the encoding of a payload: the code of each *)
(* is what one reads there, and the end marker is still to come.           *)
Positions(coding, payload, b, position) ==
  /\ position[0] = 0
  /\ \A n \in 0 .. Len(payload) :
       /\ position[n] \in Nat
       /\ position[n] + coding[Eof].bits <= Len(b) * ByteBits
       /\ Matches(CodeAt(coding, payload, n + 1), Window(b, position[n]))
  /\ \A n \in 0 .. Len(payload) - 1 :
       position[n + 1] = position[n] + CodeAt(coding, payload, n + 1).bits

(* The symbols of a payload.                                               *)
LEMMA SymbolsType ==
  ASSUME NEW payload \in Seq(Byte), NEW n \in 0 .. Len(payload)
  PROVE  /\ Len(payload) \in Nat
         /\ Symbols(payload)[n + 1] \in Symbol
         /\ n # Len(payload) => Symbols(payload)[n + 1] = payload[n + 1]
                                  /\ payload[n + 1] \in Byte
         /\ n = Len(payload) => Symbols(payload)[n + 1] = Eof
<1>1. Byte \subseteq Symbol /\ Eof \in Symbol
  BY Widths
<1>2. Len(payload) \in Nat
  OBVIOUS
<1>3. CASE n = Len(payload)
  <2>1. Append(payload, Eof)[Len(payload) + 1] = Eof
    OBVIOUS
  <2> QED
    BY <1>1, <1>2, <1>3, <2>1 DEF Symbols
<1>4. CASE n # Len(payload)
  <2>1. n + 1 \in 1 .. Len(payload)
    BY <1>2, <1>4
  <2>2. Append(payload, Eof)[n + 1] = payload[n + 1] /\ payload[n + 1] \in Byte
    BY <2>1
  <2> QED
    BY <1>1, <1>2, <1>4, <2>2 DEF Symbols
<1> QED
  BY <1>3, <1>4

(* The number that was written to a stream is that of its first bits.      *)
LEMMA WrittenIsPrefix ==
  ASSUME NEW stream, NEW X \in Nat, Written(stream, X)
  PROVE  /\ stream.buffer \in Seq(Byte) /\ stream.write \in Nat
         /\ Len(stream.buffer) * ByteBits \in Nat
         /\ stream.write <= Len(stream.buffer) * ByteBits
         /\ Prefix(stream.buffer, stream.write) = X
<1> DEFINE b == stream.buffer
           r == Room(stream)
           Z == Len(b) * ByteBits
<1>1. b \in Seq(Byte) /\ stream.write \in Nat /\ r \in 0 .. ByteBits - 1
  BY DEF Written
<1>2. Len(b) \in Nat /\ ByteBits \in Nat
  BY <1>1, Widths
<1>3. Z \in Nat
  BY <1>2, TimesNat
<1>4. r = Z - stream.write /\ r \in Nat
  BY <1>1, <1>2 DEF Room
<1>5. stream.write + r = Len(b) * ByteBits /\ stream.write <= Z
  <2> HIDE DEF r, Z
  <2>1. stream.write + r = Z
    BY <1>1, <1>3, <1>4
  <2> QED
    BY <1>1, <1>3, <1>4, <2>1 DEF Z
<1>6. Prefix(b, stream.write) = Number(b)[Len(b)] \div Power[r]
  <2> HIDE DEF r, b
  <2> QED
    BY <1>1, <1>2, <1>4, <1>5, PrefixIs
<1>7. Number(b)[Len(b)] = X * Power[r]
  BY DEF Written
<1>8. (X * Power[r]) \div Power[r] = X
  <2> DEFINE P == Power[r]
  <2>1. P \in Nat \ {0}
    BY <1>4, PowerType
  <2> HIDE DEF P
  <2>2. X * P = P * X + 0 /\ 0 \in 0 .. P - 1 /\ X * P \in Int
    BY <2>1
  <2>3. (X * P) \div P = X
    BY <2>1, <2>2, DivideIs
  <2> QED
    BY <2>3 DEF P
<1> QED
  BY <1>1, <1>3, <1>5, <1>6, <1>7, <1>8

(* A code is smaller than its bits allow.                                  *)
LEMMA CodeFits ==
  ASSUME NEW coding, NEW taken, Canonical(coding, taken), Coding(coding),
         AllCoded(coding), NEW s \in Symbol
  PROVE  /\ s \in Used(coding) /\ coding[s].bits \in Nat \ {0}
         /\ coding[s].bits \in 0 .. WordBits /\ coding[s].value \in Nat
         /\ coding[s].value % Power[coding[s].bits] = coding[s].value
<1>1. coding[s].value \in Nat /\ coding[s].bits \in 0 .. WordBits
  BY DEF Coding
<1>2. coding[s].bits \in Nat \ {0}
  <2>1. coding[s].bits \in Nat /\ FirstBits \in Nat /\ WordBits \in Nat
    BY <1>1, Widths
  <2> QED
    BY <2>1, Widths DEF AllCoded
<1>3. coding[s].value < Power[coding[s].bits]
  BY <1>2 DEF Canonical
<1> DEFINE v == coding[s].value
           P == Power[coding[s].bits]
<1>4. P \in Nat \ {0}
  BY <1>2, PowerType
<1>5. v % P = v
  <2>1. v \in Nat /\ v < P
    BY <1>1, <1>3
  <2> HIDE DEF v, P
  <2>2. v = P * 0 + v /\ v \in 0 .. P - 1
    BY <1>4, <2>1
  <2> QED
    BY <1>4, <2>1, <2>2, DivideIs
<1> QED
  BY <1>1, <1>2, <1>5 DEF Used

(* What was written before a symbol can be read back from what is behind   *)
(* it.                                                                     *)
LEMMA ReadBack ==
  ASSUME NEW b \in Seq(Byte), NEW p \in Nat, NEW n \in 0 .. WordBits, NEW X \in Nat,
         NEW v \in Nat, v % Power[n] = v, n \in Nat,
         Prefix(b, p + n) = X * Power[n] + v
  PROVE  Prefix(b, p) = X /\ Window(b, p) \div Power[WordBits - n] = v
<1> DEFINE P == Power[n]
           Y == Prefix(b, p + n)
<1>1. P \in Nat \ {0}
  BY PowerType
<1>2. Y \div P = Prefix(b, p)
  BY PrefixOfPrefix
<1>3. Y \div P = X /\ Y % P = v
  <2>1. Y = X * P + v /\ v % P = v
    OBVIOUS
  <2> HIDE DEF P, Y
  <2>2. v % P \in Nat /\ v % P < P
    BY <1>1, DivideType
  <2>3. v \in 0 .. P - 1 /\ Y = P * X + v /\ Y \in Int
    BY <1>1, <2>1, <2>2
  <2>4. X \in Int /\ v \in 0 .. P - 1 /\ Y = P * X + v /\ Y \in Int
    BY <2>3
  <2>5. \A q \in Int : \A r \in 0 .. P - 1 : Y = P * q + r => Y \div P = q /\ Y % P = r
    BY <1>1, <2>4, DivideIs
  <2> QED
    BY <2>4, <2>5
<1>4. Window(b, p) \div Power[WordBits - n] = Y % P
  BY WindowParts
<1> QED
  BY <1>2, <1>3, <1>4

(* In what Encode returns every symbol of the payload has such a position. *)
LEMMA EncodedPositions ==
  ASSUME NEW coding, NEW taken, Canonical(coding, taken), Coding(coding),
         AllCoded(coding), NEW payload \in Seq(Byte)
  PROVE  /\ Encoded(coding, payload) \in Seq(Byte)
         /\ \E position : Positions(coding, payload, Encoded(coding, payload), position)
<1> DEFINE len == Len(payload)
           b == Encoded(coding, payload)
           C(n) == CodeAt(coding, payload, n)
           E == coding[Eof].bits
           Z == Len(b) * ByteBits
<1>1. PICK stream, written : Goes(coding, payload, stream, written)
  BY EncodedGoes
<1>2. len \in Nat /\ b \in Seq(Byte) /\ len \in 0 .. len
  BY EncodedType
<1>3. ASSUME NEW n \in 0 .. len
      PROVE  /\ C(n + 1).bits \in Nat /\ C(n + 1).bits \in 0 .. WordBits
             /\ C(n + 1).value \in Nat
             /\ C(n + 1).value % Power[C(n + 1).bits] = C(n + 1).value
  <2>1. Symbols(payload)[n + 1] \in Symbol
    BY SymbolsType
  <2> QED
    BY <2>1, CodeFits DEF CodeAt
<1>4. C(len + 1).bits = E
  BY <1>2, SymbolsType DEF CodeAt
<1> DEFINE position == [n \in Nat |-> stream[n].write]
<1>5. \A n \in 0 .. len + 1 : n \in Nat /\ position[n] = stream[n].write
  BY <1>2
<1>6. ASSUME NEW n \in 0 .. len + 1
      PROVE  /\ position[n] \in Nat /\ written[n] \in Nat
             /\ position[n] <= Len(stream[n].buffer) * ByteBits
             /\ Prefix(stream[n].buffer, position[n]) = written[n]
  <2>1. written[n] \in Nat /\ Written(stream[n], written[n])
    BY <1>1 DEF Goes
  <2> QED
    BY <1>5, <2>1, WrittenIsPrefix
<1>7. ASSUME NEW n \in 0 .. len
      PROVE  /\ n + 1 \in 0 .. len + 1 /\ n \in 0 .. len + 1
             /\ position[n + 1] = position[n] + C(n + 1).bits
             /\ written[n + 1] = written[n] * Power[C(n + 1).bits] + C(n + 1).value
  <2>1. n + 1 \in 0 .. len + 1 /\ n \in 0 .. len + 1
    BY <1>2
  <2>2. /\ stream[n + 1].write = stream[n].write + C(n + 1).bits
        /\ written[n + 1] = written[n] * Power[C(n + 1).bits]
                              + (C(n + 1).value % Power[C(n + 1).bits])
    BY <1>1 DEF Goes
  <2> QED
    BY <1>3, <1>5, <2>1, <2>2
<1>8. b = stream[len + 1].buffer /\ position[0] = 0
  <2>1. stream[0] = EmptyStream /\ b = stream[len + 1].buffer
    BY <1>1 DEF Goes
  <2> QED
    BY <1>2, <1>5, <2>1 DEF EmptyStream
<1> HIDE DEF position
<1>9. ASSUME NEW n \in 0 .. len, Prefix(b, position[n + 1]) = written[n + 1]
      PROVE  /\ Prefix(b, position[n]) = written[n]
             /\ Matches(C(n + 1), Window(b, position[n]))
  <2> DEFINE p == position[n]
             m == C(n + 1).bits
             v == C(n + 1).value
             X == written[n]
  <2>1. p \in Nat /\ X \in Nat
    BY <1>6, <1>7
  <2>2. m \in Nat /\ m \in 0 .. WordBits /\ v \in Nat /\ v % Power[m] = v
    BY <1>3
  <2>3. Prefix(b, p + m) = X * Power[m] + v
    BY <1>7, <1>9
  <2> HIDE DEF p, m, v, X, b
  <2>4. Prefix(b, p) = X /\ Window(b, p) \div Power[WordBits - m] = v
    BY <1>2, <2>1, <2>2, <2>3, ReadBack
  <2> QED
    BY <2>4 DEF Matches, p, m, v, X
<1> DEFINE At(n) == /\ Prefix(b, position[n + 1]) = written[n + 1]
                    /\ position[n] + E <= Z
<1>10. At(len)
  <2>1. len + 1 \in 0 .. len + 1 /\ position[len + 1] = position[len] + E
    BY <1>2, <1>4, <1>7
  <2>2. Prefix(b, position[len + 1]) = written[len + 1] /\ position[len + 1] <= Z
    BY <1>6, <1>8, <2>1
  <2> QED
    BY <2>1, <2>2
<1>11. ASSUME NEW n \in Nat, n + 1 \in 0 .. len, At(n + 1) PROVE At(n)
  <2>1. n \in 0 .. len
    BY <1>2, <1>11
  <2>2. Prefix(b, position[n + 1]) = written[n + 1]
    BY <1>9, <1>11
  <2>3. /\ position[n + 1] = position[n] + C(n + 1).bits
        /\ position[n + 1] \in Nat /\ position[n] \in Nat /\ C(n + 1).bits \in Nat
    BY <1>3, <1>6, <1>7, <2>1
  <2>4. position[n + 1] + E <= Z /\ E \in Nat /\ Z \in Nat
    <3>1. E \in Nat
      BY <1>2, <1>3, <1>4
    <3>2. Z \in Nat
      BY <1>2, Widths, TimesNat
    <3> QED
      BY <1>11, <3>1, <3>2
  <2>5. position[n] + E <= Z
    <3> HIDE DEF E, Z, C
    <3> QED
      BY <2>3, <2>4
  <2> QED
    BY <2>2, <2>5
<1>12. \A n \in 0 .. len : At(n)
  <2> HIDE DEF At, len
  <2> SUFFICES ASSUME NEW n \in 0 .. len, ~ At(n) PROVE FALSE
    OBVIOUS
  <2> DEFINE T == { k \in Nat : k <= len /\ ~ At(len - k) }
  <2>1. len - n \in T /\ T \subseteq Nat
    <3>1. len - n \in Nat /\ len - n <= len /\ len - (len - n) = n
      BY <1>2
    <3> QED
      BY <3>1
  <2>2. PICK k \in T : \A j \in T : k <= j
    <3> HIDE DEF T
    <3> QED
      BY <2>1, LeastNatural
  <2>3. k \in Nat /\ k <= len /\ ~ At(len - k)
    BY <2>2
  <2>4. k # 0
    <3>1. k = 0 => len - k = len
      BY <1>2
    <3> QED
      BY <1>10, <2>3, <3>1
  <2> DEFINE i == k - 1
  <2>5. i \in Nat /\ i <= len /\ ~ k <= i /\ len - i = (len - k) + 1
        /\ len - k \in Nat /\ (len - k) + 1 \in 0 .. len
    BY <1>2, <2>3, <2>4
  <2>6. At(len - i)
    BY <2>2, <2>5
  <2> QED
    BY <1>11, <2>3, <2>5, <2>6
<1>13. Positions(coding, payload, b, position)
  <2>1. ASSUME NEW n \in 0 .. len
        PROVE  /\ position[n] \in Nat /\ position[n] + E <= Len(b) * ByteBits
               /\ Matches(C(n + 1), Window(b, position[n]))
    <3>1. At(n)
      BY <1>12
    <3> QED
      BY <1>6, <1>7, <1>9, <3>1
  <2>2. ASSUME NEW n \in 0 .. len - 1
        PROVE  position[n + 1] = position[n] + C(n + 1).bits
    <3>1. n \in 0 .. len
      BY <1>2
    <3> QED
      BY <1>7, <3>1
  <2> QED
    BY <1>8, <2>1, <2>2 DEF Positions
<1> QED
  BY <1>2, <1>13

-----------------------------------------------------------------------------
(* What a turn of Decode's loop pulls first, and what behind a long code.  *)
Pulled(reader) == PullWord(reader, FirstBits)
More(reader) == PullByte(Pulled(reader).reader, SecondBits)

(* Together they are the window at the index.                              *)
LEMMA PullsWindow ==
  ASSUME NEW reader, Reads(reader), reader.index + FirstBits <= BitCount(reader)
  PROVE  LET window == Window(reader.buffer, reader.index)
         IN  /\ window \in Nat
             /\ Pulled(reader).reader = Moved(reader, FirstBits)
             /\ Pulled(reader).result \in 0 .. Power[FirstBits] - 1
             /\ Pulled(reader).result = window \div Power[SecondBits]
             /\ More(reader).reader = Moved(reader, WordBits)
             /\ More(reader).result \in 0 .. Power[SecondBits] - 1
             /\ More(reader).result = window % Power[SecondBits]
<1> DEFINE b == reader.buffer
           p == reader.index
           window == Window(b, p)
           pulled == Pulled(reader)
           more == More(reader)
<1>1. /\ ByteBits \in Nat /\ FirstBits \in Nat /\ SecondBits \in Nat /\ WordBits \in Nat
      /\ FirstBits \in 0 .. WordBits /\ SecondBits \in 0 .. ByteBits
      /\ FirstBits + SecondBits = WordBits /\ FirstBits = ByteBits + 1
  BY Widths
<1>2. BitCount(reader) \in Nat /\ p \in Nat /\ b \in Seq(Byte)
  BY BitCountType
<1>3. p + ByteBits <= BitCount(reader)
  BY <1>1, <1>2
<1>4. /\ pulled.reader = Moved(reader, FirstBits)
      /\ pulled.result \in 0 .. Power[FirstBits] - 1
      /\ pulled.result = Prefix(b, p + FirstBits) % Power[FirstBits]
  BY <1>1, <1>3, PullWordReads DEF Pulled
<1>5. /\ window \in Nat
      /\ window \div Power[SecondBits] = Prefix(b, p + FirstBits) % Power[FirstBits]
      /\ window % Power[SecondBits]
           = Prefix(b, p + FirstBits + SecondBits) % Power[SecondBits]
  <2> HIDE DEF b, p
  <2> QED
    BY <1>2, WindowParts
<1>6. /\ Reads(Moved(reader, FirstBits)) /\ Moved(reader, FirstBits).buffer = b
      /\ Moved(reader, FirstBits).index = p + FirstBits
      /\ Moved(Moved(reader, FirstBits), SecondBits) = Moved(reader, WordBits)
  <2>1. /\ Reads(Moved(reader, FirstBits)) /\ Moved(reader, FirstBits).buffer = b
        /\ Moved(reader, FirstBits).index = p + FirstBits
    BY <1>1, MovedReads
  <2>2. \A m \in Nat : Moved(Moved(reader, FirstBits), m) = Moved(reader, FirstBits + m)
    BY <1>1, MovedReads
  <2>3. Moved(Moved(reader, FirstBits), SecondBits) = Moved(reader, FirstBits + SecondBits)
    BY <1>1, <2>2
  <2> QED
    BY <1>1, <2>1, <2>3
<1>7. /\ more.reader = Moved(Moved(reader, FirstBits), SecondBits)
      /\ more.result = Prefix(b, p + FirstBits + SecondBits) % Power[SecondBits]
  <2> DEFINE next == Moved(reader, FirstBits)
  <2>1. more = PullByte(next, SecondBits)
    BY <1>4 DEF More
  <2> HIDE DEF next, more
  <2>2. Reads(next) /\ next.buffer = b /\ next.index = p + FirstBits
    BY <1>6 DEF next
  <2>3. /\ PullByte(next, SecondBits).reader = Moved(next, SecondBits)
        /\ PullByte(next, SecondBits).result
             = Prefix(next.buffer, next.index + SecondBits) % Power[SecondBits]
    BY <1>1, <2>2, PullByteReads DEF Moved
  <2> QED
    BY <2>1, <2>2, <2>3 DEF next
<1>8. window % Power[SecondBits] \in 0 .. Power[SecondBits] - 1
  <2> DEFINE N == Power[SecondBits]
  <2>1. N \in Nat \ {0}
    BY <1>1, PowerType
  <2> HIDE DEF N, window
  <2>2. window % N \in Nat /\ window % N < N
    BY <1>5, <2>1, DivideType
  <2> QED
    BY <2>1, <2>2 DEF N
<1> HIDE DEF b, p, window, pulled, more
<1> QED
  BY <1>4, <1>5, <1>6, <1>7, <1>8 DEF b, p, window, pulled, more

(* So the decode map gives the symbol whose code is there.                 *)
LEMMA ReadsSymbol ==
  ASSUME NEW t, NEW taken, Takes(t, taken), NEW coding, Canonical(coding, taken),
         Coding(coding), NEW s \in Used(coding), NEW reader, Reads(reader),
         reader.index + FirstBits <= BitCount(reader),
         Matches(coding[s], Window(reader.buffer, reader.index))
  PROVE  LET first == DecodeMapOf(coding).first[Pulled(reader).result]
             second == DecodeMapOf(coding).second[first.value][More(reader).result]
         IN  /\ ~ IsLong(coding[s]) => first = Found(s, coding[s].bits)
             /\ IsLong(coding[s]) => /\ first.kind = "Second" /\ first.bits # 0
                                     /\ second = Found(s, RestBits(coding[s]))
<1> DEFINE window == Window(reader.buffer, reader.index)
           i == Pulled(reader).result
           j == More(reader).result
           top == TopBits(coding[s])
<1>1. /\ window \in Nat /\ i \in 0 .. Power[FirstBits] - 1
      /\ i = window \div Power[SecondBits]
      /\ j \in 0 .. Power[SecondBits] - 1 /\ j = window % Power[SecondBits]
  BY PullsWindow
<1> HIDE DEF window, i, j
<1>2. Decodes(coding, s, window)
  BY <1>1, MapDecodes DEF window
<1>3. DecodeMapOf(coding).first[i] = FirstEntry(coding, i)
  BY <1>1, DecodeMapType
<1>4. CASE ~ IsLong(coding[s])
  <2>1. FirstEntry(coding, i) = Found(s, coding[s].bits)
    BY <1>1, <1>2, <1>4 DEF Decodes
  <2> QED
    BY <1>3, <1>4, <2>1 DEF i
<1>5. CASE IsLong(coding[s])
  <2>1. /\ FirstEntry(coding, i) = Continue(top)
        /\ SecondEntry(coding, top, j) = Found(s, RestBits(coding[s]))
    BY <1>1, <1>2, <1>5 DEF Decodes
  <2> DEFINE e == FirstEntry(coding, i)
  <2>2. e.kind = "Second" /\ e.bits = FirstBits /\ e.value = top
    BY <2>1 DEF Continue
  <2>3. e.bits # 0 /\ e.kind # "Symbol"
    BY <2>2, Widths
  <2>4. DecodeMapOf(coding).second[e.value][j] = SecondEntry(coding, e.value, j)
    BY <1>1, <2>3, DecodeMapType
  <2> HIDE DEF e, top
  <2>5. DecodeMapOf(coding).second[e.value][j] = Found(s, RestBits(coding[s]))
    BY <2>1, <2>2, <2>4
  <2> QED
    BY <1>3, <1>5, <2>2, <2>3, <2>5 DEF i, j, e
<1> QED
  BY <1>4, <1>5

(* What was pulled too much is given back.                                 *)
LEMMA GivesBack ==
  ASSUME NEW reader, Reads(reader), NEW n \in Nat, NEW k \in 0 .. n,
         reader.index + n <= BitCount(reader)
  PROVE  /\ Rewind(Moved(reader, n), n - k).index = reader.index + k
         /\ Rewind(Moved(reader, n), n - k).buffer = reader.buffer
<1> DEFINE next == Moved(reader, n)
<1>1. /\ next.index = reader.index + n /\ next.buffer = reader.buffer /\ Reads(next)
  BY MovedReads
<1>2. next \in [buffer : Seq(Byte), index : Nat] /\ reader.index \in Nat /\ n \in Nat
  BY <1>1, BitCountType DEF Reads
<1> HIDE DEF next
<1>3. ~ (n - k > next.index) /\ next.index - (n - k) = reader.index + k
  BY <1>1, <1>2
<1>4. Rewind(next, n - k) = [next EXCEPT !.index = reader.index + k]
  BY <1>3 DEF Rewind
<1> QED
  BY <1>1, <1>2, <1>4 DEF next

-----------------------------------------------------------------------------
(* Every table the game may return counts every byte, as in the tests of   *)
(* the managers.                                                           *)
EveryByteOccurs == \A table \in Tables : \A b \in Byte : table[b] > 0

(* Then every byte has a code, and the codes are those of one tree.        *)
Coded ==
  /\ Coding(codes) /\ AllCoded(codes) /\ decodeMap = DecodeMapOf(codes)
  /\ \E t, taken : Takes(t, taken) /\ Canonical(codes, taken)
(* So it is once they are built.                                           *)
LEMMA BuiltIsCoded ==
  ASSUME EveryByteOccurs, Construction, Reading,
         pc \in {"ready", "decoding", "decoded", "corrupt"}
  PROVE  Coded
<1>1. PICK tree : /\ HasRoom(tree) /\ Eof \in DOMAIN tree.depth
                  /\ \A b \in Byte : frequencies[b] > 0 => b \in DOMAIN tree.depth
                  /\ codes = CanonicalCodes(tree)
                  /\ \A s \in Symbol : codes[s].bits <= MaxCodeBits
                  /\ decodeMap = DecodeMapOf(codes)
  BY DEF Construction, Built
<1>2. IsTree(tree)
  BY <1>1 DEF HasRoom
<1>3. PICK taken : Takes(tree, taken)
  BY <1>1 DEF HasRoom
<1>4. Canonical(codes, taken)
  BY <1>1, <1>2, <1>3, CodesAreCanonical
<1>5. Byte \subseteq DOMAIN tree.depth
  BY <1>1 DEF EveryByteOccurs, Reading
<1>6. AllCoded(codes)
  BY <1>1, <1>2, <1>3, <1>5, AllAreCoded
<1>7. Coding(codes)
  BY BuiltCoding
<1> QED
  BY <1>1, <1>3, <1>4, <1>6, <1>7 DEF Coded

(* What is decoded of an encoding: n symbols, and the index is at the next *)
(* one.                                                                    *)
Sent(n, position) ==
  /\ n \in 0 .. Len(message)
  /\ Positions(codes, message, inBuffer.buffer, position)
  /\ inBuffer.index = position[n]
  /\ Len(result) = n
  /\ \A i \in 1 .. n : result[i] = message[i]

Decoding ==
  /\ pc \in {"building", "refused", "ready"} => message = NoMessage
  /\ message # NoMessage =>
       /\ message \in Seq(Byte)
       /\ pc \in {"decoding", "decoded"}
       /\ pc = "decoded" => result = message
       /\ pc = "decoding" => \E n, position : Sent(n, position)

(* The turn of the loop that meets the symbol at that index.               *)
LEMMA SymbolIsRead ==
  ASSUME Coded, Reading, message \in Seq(Byte), NEW n, NEW position, Sent(n, position),
         DecodeStep
  PROVE  /\ n = Len(message) => \E reader : Stop("decoded", reader)
         /\ n # Len(message) =>
              \E reader : /\ Take(message[n + 1], reader)
                          /\ reader.index = position[n + 1]
                          /\ reader.buffer = inBuffer.buffer
                          /\ reader.index > lastPosition
<1> DEFINE len == Len(message)
           s == Symbols(message)[n + 1]
           p == inBuffer.index
           C == BitCount(inBuffer)
           E == codes[Eof].bits
           m == codes[s].bits
           pulled == Pulled(inBuffer)
           more == More(inBuffer)
           first == decodeMap.first[pulled.result]
           second == decodeMap.second[first.value][more.result]
<1>1. /\ n \in 0 .. len /\ n \in Nat /\ len \in Nat /\ s \in Symbol
      /\ n # len => s = message[n + 1] /\ s \in Byte
      /\ n = len => s = Eof
  <2>1. n \in 0 .. len
    BY DEF Sent
  <2> QED
    BY <2>1, SymbolsType
<1>2. PICK t, taken : Takes(t, taken) /\ Canonical(codes, taken)
  BY DEF Coded
<1>3. /\ Coding(codes) /\ AllCoded(codes) /\ decodeMap = DecodeMapOf(codes)
  BY DEF Coded
<1>4. /\ s \in Used(codes) /\ m \in Nat \ {0} /\ E \in Nat \ {0}
  <2>1. Eof \in Symbol
    BY Widths
  <2> HIDE DEF s
  <2> QED
    BY <1>1, <1>2, <1>3, <2>1, CodeFits
<1>5. /\ FirstBits \in Nat /\ SecondBits \in Nat /\ WordBits \in Nat /\ E > FirstBits
      /\ WordBits = FirstBits + SecondBits /\ SecondBits < FirstBits
  BY <1>3, Widths DEF AllCoded
<1>6. Reads(inBuffer) /\ p \in Nat /\ C \in Nat /\ pc = "decoding" /\ lastPosition = p
  BY BitCountType DEF Reading, DecodeStep
<1>7. /\ p = position[n] /\ p + E <= C
      /\ Matches(codes[s], Window(inBuffer.buffer, p))
      /\ n # len => position[n + 1] = p + m /\ p + m + E <= C
  <2>1. p = position[n] /\ Positions(codes, message, inBuffer.buffer, position)
    BY DEF Sent
  <2>2. /\ position[n] + E <= C
        /\ Matches(codes[s], Window(inBuffer.buffer, position[n]))
    BY <1>1, <2>1 DEF Positions, CodeAt, BitCount
  <2>3. ASSUME n # len PROVE position[n + 1] = p + m /\ position[n + 1] + E <= C
    <3>1. n \in 0 .. len - 1 /\ n + 1 \in 0 .. len
      BY <1>1, <2>3
    <3> QED
      BY <2>1, <3>1 DEF Positions, CodeAt, BitCount
  <2> QED
    BY <2>1, <2>2, <2>3
<1>8. p + FirstBits <= C /\ p < C
  <2> HIDE DEF p, C, E
  <2> QED
    BY <1>4, <1>5, <1>6, <1>7
<1>9. /\ pulled.reader = Moved(inBuffer, FirstBits)
      /\ more.reader = Moved(inBuffer, WordBits)
  BY <1>6, <1>8, PullsWindow
<1>10. /\ ~ IsLong(codes[s]) => first = Found(s, m)
       /\ IsLong(codes[s]) => /\ first.kind = "Second" /\ first.bits # 0
                              /\ second = Found(s, RestBits(codes[s]))
  <2> HIDE DEF s
  <2> QED
    BY <1>2, <1>3, <1>4, <1>6, <1>7, <1>8, ReadsSymbol
<1>11. IF p >= C THEN Stop("decoded", inBuffer)
       ELSE IF first.bits = 0 THEN Stop("corrupt", pulled.reader)
       ELSE IF first.kind = "Symbol"
         THEN IF first.value = Eof
                THEN Stop("decoded", pulled.reader)
                ELSE Take(first.value, Rewind(pulled.reader, FirstBits - first.bits))
       ELSE IF second.value = Eof THEN Stop("decoded", more.reader)
       ELSE Take(second.value, Rewind(more.reader, SecondBits - second.bits))
  BY DEF DecodeStep, Pulled, More
<1>12. ~ (p >= C)
  <2> HIDE DEF p, C
  <2> QED
    BY <1>6, <1>8
<1>13. /\ IsLong(codes[s]) => /\ m = FirstBits + RestBits(codes[s])
                              /\ RestBits(codes[s]) \in Nat \ {0}
                              /\ RestBits(codes[s]) <= SecondBits
       /\ ~ IsLong(codes[s]) => m <= FirstBits
  <2> HIDE DEF s
  <2> QED
    BY <1>3, <1>4, WindowWidths
<1> HIDE DEF pulled, more, first, second, s, p, C, m, E
<1>14. CASE n = len
  <2>1. s = Eof /\ IsLong(codes[s])
    BY <1>1, <1>5, <1>14 DEF IsLong, E
  <2>2. first.kind # "Symbol" /\ first.bits # 0 /\ second.value = Eof
    BY <1>10, <2>1 DEF Found
  <2>3. Stop("decoded", more.reader)
    BY <1>11, <1>12, <2>2
  <2> QED
    BY <1>14, <2>3
<1>15. CASE n # len /\ ~ IsLong(codes[s])
  <2>1. s \in Byte /\ s # Eof /\ s = message[n + 1]
    BY <1>1, <1>15, Widths
  <2>2. first.kind = "Symbol" /\ first.bits = m /\ first.value = s
    BY <1>10, <1>15 DEF Found
  <2> DEFINE reader == Rewind(pulled.reader, FirstBits - m)
  <2>3. Take(s, reader)
    BY <1>4, <1>11, <1>12, <2>1, <2>2
  <2>4. m \in 0 .. FirstBits
    BY <1>4, <1>13, <1>15
  <2>5. reader.index = p + m /\ reader.buffer = inBuffer.buffer
    BY <1>5, <1>6, <1>8, <1>9, <2>4, GivesBack DEF p, C
  <2>6. reader.index = position[n + 1] /\ reader.index > lastPosition
    BY <1>4, <1>6, <1>7, <1>15, <2>5
  <2> QED
    BY <1>15, <2>1, <2>3, <2>5, <2>6
<1>16. CASE n # len /\ IsLong(codes[s])
  <2> DEFINE r == RestBits(codes[s])
  <2>1. s \in Byte /\ s # Eof /\ s = message[n + 1]
    BY <1>1, <1>16, Widths
  <2>2. /\ first.kind # "Symbol" /\ first.bits # 0
        /\ second.bits = r /\ second.value = s
    BY <1>10, <1>16 DEF Found
  <2>3. m = FirstBits + r /\ r \in Nat \ {0} /\ r <= SecondBits
    BY <1>13, <1>16
  <2> HIDE DEF r
  <2> DEFINE reader == Rewind(more.reader, SecondBits - r)
  <2>4. Take(s, reader)
    BY <1>11, <1>12, <2>1, <2>2
  <2>5. p + WordBits <= C
    BY <1>4, <1>5, <1>6, <1>7, <1>16, <2>3
  <2>6. m \in 0 .. WordBits /\ SecondBits - r = WordBits - m
    BY <1>5, <2>3
  <2>7. reader.index = p + m /\ reader.buffer = inBuffer.buffer
    <3>1. reader = Rewind(Moved(inBuffer, WordBits), WordBits - m)
      BY <1>9, <2>6
    <3> HIDE DEF reader
    <3> QED
      BY <1>5, <1>6, <2>5, <2>6, <3>1, GivesBack DEF p, C
  <2>8. reader.index = position[n + 1] /\ reader.index > lastPosition
    BY <1>4, <1>6, <1>7, <1>16, <2>7
  <2> QED
    BY <1>16, <2>1, <2>4, <2>7, <2>8
<1> QED
  BY <1>14, <1>15, <1>16

(* A turn that yields the next symbol, or ends behind the last one.        *)
LEMMA SymbolIsKept ==
  ASSUME Coded, Reading, Decoding, message # NoMessage, DecodeStep
  PROVE  Decoding'
<1>1. /\ pc = "decoding" /\ message \in Seq(Byte)
      /\ message' = message /\ codes' = codes
      /\ result \in Seq(Byte)
  BY DEF DecodeStep, Decoding, Reading
<1>2. PICK n, position : Sent(n, position)
  BY <1>1 DEF Decoding
<1>3. /\ n \in 0 .. Len(message) /\ Len(result) = n /\ Len(message) \in Nat
      /\ \A i \in 1 .. n : result[i] = message[i]
  BY <1>1, <1>2 DEF Sent
<1>4. CASE n = Len(message)
  <2>1. PICK reader : Stop("decoded", reader)
    BY <1>1, <1>2, <1>4, SymbolIsRead
  <2>2. pc' = "decoded" /\ result' = result
    BY <2>1 DEF Stop
  <2>3. result = message
    BY <1>1, <1>3, <1>4
  <2> QED
    BY <1>1, <2>2, <2>3 DEF Decoding
<1>5. CASE n # Len(message)
  <2>1. PICK reader : /\ Take(message[n + 1], reader)
                      /\ reader.index = position[n + 1]
                      /\ reader.buffer = inBuffer.buffer
                      /\ reader.index > lastPosition
    BY <1>1, <1>2, <1>5, SymbolIsRead
  <2>2. result' = Append(result, message[n + 1]) /\ inBuffer' = reader /\ pc' = pc
    BY <2>1 DEF Take, GoesOn
  <2>3. n + 1 \in 0 .. Len(message) /\ n \in Nat
    BY <1>3, <1>5
  <2>4. /\ Len(result') = n + 1
        /\ \A i \in 1 .. n + 1 : result'[i] = message[i]
    <3>1. /\ Len(Append(result, message[n + 1])) = n + 1
          /\ \A i \in 1 .. n : Append(result, message[n + 1])[i] = result[i]
          /\ Append(result, message[n + 1])[n + 1] = message[n + 1]
      BY <1>1, <1>3
    <3>2. \A i \in 1 .. n + 1 : i \in 1 .. n \/ i = n + 1
      BY <2>3
    <3> QED
      BY <1>3, <2>2, <3>1, <3>2
  <2>5. Positions(codes, message, inBuffer.buffer, position)' = 
          Positions(codes, message, inBuffer.buffer, position)
    BY <1>1, <2>1, <2>2 DEF Positions, CodeAt
  <2>6. Positions(codes, message, inBuffer.buffer, position)
    BY <1>2 DEF Sent
  <2>7. Sent(n + 1, position)'
    BY <1>1, <2>1, <2>2, <2>3, <2>4, <2>5, <2>6 DEF Sent
  <2> QED
    BY <1>1, <2>2, <2>7 DEF Decoding
<1> QED
  BY <1>4, <1>5

(* Decode begins at the first symbol of what Encode returned.              *)
LEMMA EncodingIsSent ==
  ASSUME Coded, Reading, NEW m \in Messages, BeginDecode(m, Encoded(codes, m))
  PROVE  Decoding'
<1>1. m \in Seq(Byte)
  BY HuffmanAssumption
<1>2. PICK t, taken : Takes(t, taken) /\ Canonical(codes, taken)
  BY DEF Coded
<1> DEFINE b == Encoded(codes, m)
<1>3. PICK position : Positions(codes, m, b, position)
  BY <1>1, <1>2, EncodedPositions DEF Coded
<1> HIDE DEF b
<1>4. /\ pc' = "decoding" /\ message' = m /\ inBuffer' = Reader(b)
      /\ codes' = codes /\ result' = result /\ pc = "ready"
  BY DEF BeginDecode, b
<1>5. result' = << >> /\ Len(result') = 0
  BY <1>4 DEF Reading
<1>6. inBuffer'.buffer = b /\ inBuffer'.index = 0
  BY <1>4 DEF Reader
<1>7. position[0] = 0 /\ 0 \in 0 .. Len(m)
  BY <1>1, <1>3 DEF Positions
<1>8. Sent(0, position)'
  BY <1>3, <1>4, <1>5, <1>6, <1>7 DEF Sent
<1> QED
  BY <1>1, <1>4, <1>8 DEF Decoding

(* Every step keeps what is decoded a beginning of what was encoded.       *)
LEMMA NextDecoding ==
  ASSUME EveryByteOccurs, Construction, Reading, Decoding, [Next]_vars
  PROVE  Decoding'
<1>1. CASE JoinTrees
  <2>1. pc = "building" /\ pc' = pc /\ message' = message
    BY <1>1 DEF JoinTrees
  <2> QED
    BY <2>1 DEF Decoding
<1>2. CASE GenerateMaps
  <2>1. pc = "building" /\ message' = message
    BY <1>2 DEF GenerateMaps
  <2> QED
    BY <2>1 DEF Decoding
<1>3. CASE DecodeEncoded
  <2>1. PICK m \in Messages : BeginDecode(m, Encoded(codes, m))
    BY <1>3 DEF DecodeEncoded
  <2>2. Coded
    BY <2>1, BuiltIsCoded DEF BeginDecode
  <2> QED
    BY <2>1, <2>2, EncodingIsSent
<1>4. CASE DecodeStranger
  <2>1. message' = NoMessage
    BY <1>4 DEF DecodeStranger, BeginDecode
  <2> QED
    BY <2>1 DEF Decoding
<1>5. CASE DecodeStep
  <2>1. CASE message = NoMessage
    BY <1>5, <2>1 DEF DecodeStep, Decoding
  <2>2. CASE message # NoMessage
    <3>1. Coded
      BY <1>5, BuiltIsCoded DEF DecodeStep
    <3> QED
      BY <1>5, <2>2, <3>1, SymbolIsKept
  <2> QED
    BY <2>1, <2>2
<1>6. CASE UNCHANGED vars
  <2>1. /\ pc' = pc /\ message' = message /\ result' = result /\ codes' = codes
        /\ inBuffer' = inBuffer
    BY <1>6 DEF vars
  <2> QED
    BY <2>1 DEF Decoding, Sent, Positions, CodeAt
<1> QED
  BY <1>1, <1>2, <1>3, <1>4, <1>5, <1>6 DEF Next

(* A beginning of a payload, symbol by symbol.                             *)
LEMMA BeginsPayload ==
  ASSUME NEW a \in Seq(Byte), NEW b \in Seq(Byte), Len(a) <= Len(b),
         \A i \in 1 .. Len(a) : a[i] = b[i]
  PROVE  IsPrefix(a, b)
<1>1. SubSeq(a, 1, Len(a)) = SubSeq(b, 1, Len(a))
  OBVIOUS
<1> QED
  BY <1>1 DEF IsPrefix

(* Where every table counts every byte, every payload that Encode is given *)
(* comes out of Decode as it was, byte by byte, for every width of a byte, *)
(* every tree the priority queue may give and every length of the payload; *)
(* Decode does not throw on it.                                            *)
THEOREM DecodesWhatWasEncoded ==
  ASSUME EveryByteOccurs
  PROVE  Spec => []RoundTrip
<1>1. Init => Construction /\ Reading /\ Decoding
  <2>1. Init => Decoding
    BY DEF Init, Decoding
  <2> QED
    BY <2>1, InitConstruction, InitReading
<1>2. Construction /\ Reading /\ Decoding /\ [Next]_vars
        => (Construction /\ Reading /\ Decoding)'
  BY NextConstruction, NextReading, NextDecoding
<1>3. Reading /\ Decoding => RoundTrip
  <2> SUFFICES ASSUME Reading, Decoding, message # NoMessage
               PROVE  /\ IsPrefix(result, message) /\ pc # "corrupt"
                      /\ pc = "decoded" => result = message
    BY DEF RoundTrip
  <2>1. /\ pc \in {"decoding", "decoded"} /\ message \in Seq(Byte)
        /\ pc = "decoded" => result = message
        /\ result \in Seq(Byte)
    BY DEF Decoding, Reading
  <2>2. CASE pc = "decoded"
    BY <2>1, <2>2, BeginsPayload
  <2>3. CASE pc = "decoding"
    <3>1. PICK n, position : Sent(n, position)
      BY <2>3 DEF Decoding
    <3>2. Len(result) <= Len(message) /\ \A i \in 1 .. Len(result) : result[i] = message[i]
      BY <2>1, <3>1 DEF Sent
    <3> QED
      BY <2>1, <2>3, <3>2, BeginsPayload
  <2> QED
    BY <2>1, <2>2, <2>3
<1> QED
  BY <1>1, <1>2, <1>3, PTL DEF Spec

=============================================================================
