------------------------ MODULE WrappingCounterProofs ------------------------
(***************************************************************************)
(* The arithmetic of WrappingCounter for every number of bits: what        *)
(* masking does to numbers that are near each other (WrapForward), that    *)
(* operator< then orders the masked values as the numbers (LessForward),   *)
(* and that operator- then gives their distance (MinusForward).  Before    *)
(* them, least and largest numbers, which all other proofs use too.        *)
(***************************************************************************)
EXTENDS WrappingCounter, FiniteSetsExt, WellFoundedInduction, TLAPS

(* A non-empty set of naturals has a least element.                        *)
LEMMA LeastNatural ==
  ASSUME NEW S \in SUBSET Nat, S # {}
  PROVE  \E x \in S : \A y \in S : ~(y < x)
<1>1. \E x \in S : \A y \in S : ~(<<y, x>> \in OpToRel(<, Nat))
  BY NatLessThanWellFounded, WFMin
<1>2. \A x, y \in Nat : <<y, x>> \in OpToRel(<, Nat) <=> y < x
  BY DEF OpToRel
<1> QED BY <1>1, <1>2

(* A non-empty set of numbers up to n has a maximum.                       *)
LEMMA MaxOfBounded ==
  ASSUME NEW n \in Nat, NEW S \in SUBSET (0 .. n), S # {}
  PROVE  Max(S) \in S /\ \A j \in S : Max(S) >= j
<1> DEFINE T == { n - k : k \in S }
<1>1. T \in SUBSET Nat
  OBVIOUS
<1>2. PICK k \in S : TRUE
  OBVIOUS
<1>3. n - k \in T
  OBVIOUS
<1>4. PICK x \in T : \A y \in T : ~(y < x)
  BY <1>1, <1>3, LeastNatural
<1>5. PICK m \in S : x = n - m
  OBVIOUS
<1>6. ASSUME NEW j \in S PROVE m >= j
  <2>1. n - j \in T
    OBVIOUS
  <2>2. ~(n - j < n - m)
    BY <2>1, <1>4, <1>5
  <2>3. j \in 0 .. n /\ m \in 0 .. n
    OBVIOUS
  <2> QED BY <2>2, <2>3
<1> QED BY <1>6 DEF Max

-----------------------------------------------------------------------------
(* There are counter values: WrappingCounter::max() + 1 is positive.       *)
LEMMA ModulusType == Modulus \in Nat \ {0}
BY HalfAssumption DEF Modulus

(* Masking is division with a rest.                                        *)
LEMMA DivideWithRest ==
  ASSUME NEW a \in Int, NEW m \in Nat \ {0}
  PROVE  /\ a \div m \in Int
         /\ a % m \in 0 .. m - 1
         /\ a = m * (a \div m) + (a % m)
OBVIOUS

(* A factor that is at least k makes a multiple that is at least k times.  *)
LEMMA TimesAtLeast ==
  ASSUME NEW m \in Nat \ {0}, NEW d \in Int, NEW k \in Int, d >= k
  PROVE  m * d >= m * k
OBVIOUS

(* Two numbers less than half a window apart are, masked, as far apart as  *)
(* before or, where the counter wrapped between them, a whole window less. *)
LEMMA WrapForward ==
  ASSUME NEW a \in Int, NEW b \in Int, a <= b, b - a < Half
  PROVE  \/ Wrap(b) = Wrap(a) + (b - a)
         \/ Wrap(b) = Wrap(a) + (b - a) - Modulus
<1> DEFINE qa == a \div Modulus
           qb == b \div Modulus
<1>1. /\ qa \in Int
      /\ Wrap(a) \in 0 .. Modulus - 1
      /\ a = Modulus * qa + Wrap(a)
  BY ModulusType, DivideWithRest DEF Wrap
<1>2. /\ qb \in Int
      /\ Wrap(b) \in 0 .. Modulus - 1
      /\ b = Modulus * qb + Wrap(b)
  BY ModulusType, DivideWithRest DEF Wrap
<1> HIDE DEF qa, qb
<1>3. Modulus * (qb - qa) = (b - a) - (Wrap(b) - Wrap(a))
  BY <1>1, <1>2, ModulusType
<1>4. /\ Modulus * (qb - qa) < 2 * Modulus
      /\ Modulus * (qb - qa) > -Modulus
  BY <1>1, <1>2, <1>3, HalfAssumption DEF Modulus
<1>5. qb - qa < 2
  <2>1. SUFFICES ASSUME qb - qa >= 2 PROVE FALSE
    BY <1>1, <1>2
  <2>2. Modulus * (qb - qa) >= Modulus * 2
    BY <2>1, <1>1, <1>2, ModulusType, TimesAtLeast
  <2> QED BY <2>2, <1>4, <1>1, <1>2, ModulusType
<1>6. qb - qa > -1
  <2>1. SUFFICES ASSUME -1 >= qb - qa PROVE FALSE
    BY <1>1, <1>2
  <2>2. Modulus * (-1) >= Modulus * (qb - qa)
    BY <2>1, <1>1, <1>2, ModulusType, TimesAtLeast
  <2> QED BY <2>2, <1>4, <1>1, <1>2, ModulusType
<1>7. qb - qa \in {0, 1}
  BY <1>1, <1>2, <1>5, <1>6
<1> QED BY <1>1, <1>2, <1>3, <1>7, ModulusType

(* A masked number is a counter value.                                     *)
LEMMA WrapType ==
  ASSUME NEW a \in Int
  PROVE  Wrap(a) \in Sequence
BY ModulusType, DivideWithRest DEF Wrap, Sequence, MaxValue

(* Division with a rest has one result.                                    *)
LEMMA RestIsUnique ==
  ASSUME NEW m \in Nat \ {0}, NEW n \in Int, NEW q \in Int, NEW r \in 0 .. m - 1,
         n = m * q + r
  PROVE  n % m = r
<1> DEFINE p == n \div m
           s == n % m
<1>1. p \in Int /\ s \in 0 .. m - 1 /\ n = m * p + s
  BY DivideWithRest
<1> HIDE DEF p, s
<1>2. m * (q - p) = s - r
  BY <1>1
<1>3. ~ q - p >= 1
  <2>1. SUFFICES ASSUME q - p >= 1 PROVE FALSE
    OBVIOUS
  <2>2. m * (q - p) >= m * 1
    BY <2>1, <1>1, TimesAtLeast
  <2> QED BY <2>2, <1>1, <1>2
<1>4. ~ -1 >= q - p
  <2>1. SUFFICES ASSUME -1 >= q - p PROVE FALSE
    OBVIOUS
  <2>2. m * (-1) >= m * (q - p)
    BY <2>1, <1>1, TimesAtLeast
  <2> QED BY <2>2, <1>1, <1>2
<1>5. q = p
  BY <1>1, <1>3, <1>4
<1>6. s = r
  BY <1>1, <1>2, <1>5
<1> QED BY <1>6 DEF s

(* operator- is plain subtraction where nothing wraps.                     *)
LEMMA MinusOfSmaller ==
  ASSUME NEW a \in Sequence, NEW b \in Sequence, b <= a
  PROVE  Minus(a, b) = a - b
<1>1. a - b \in 0 .. Modulus - 1 /\ a - b = Modulus * 0 + (a - b)
  BY ModulusType DEF Sequence, MaxValue
<1> QED BY <1>1, ModulusType, RestIsUnique DEF Minus

(* The threshold of operator<, (max() >> 1) + 1, is half the counter       *)
(* values.                                                                 *)
LEMMA HalfOfMax == (MaxValue \div 2) + 1 = Half
BY HalfAssumption DEF MaxValue, Modulus

(* operator< orders counters as the numbers they stand for, when these are *)
(* less than half a window apart.                                          *)
LEMMA LessForward ==
  ASSUME NEW a \in Int, NEW b \in Int, a < b, b - a < Half
  PROVE  /\ Less(Wrap(a), Wrap(b))
         /\ ~Less(Wrap(b), Wrap(a))
         /\ Wrap(a) # Wrap(b)
<1>1. Wrap(a) \in Sequence /\ Wrap(b) \in Sequence
  BY WrapType
<1>2. CASE Wrap(b) = Wrap(a) + (b - a)
  <2>1. Wrap(a) < Wrap(b) /\ Wrap(a) # Wrap(b)
    BY <1>1, <1>2 DEF Sequence
  <2>2. Minus(Wrap(b), Wrap(a)) = b - a
    BY <1>1, <1>2, <2>1, MinusOfSmaller DEF Sequence
  <2> QED BY <1>1, <2>1, <2>2, HalfOfMax, HalfAssumption DEF Less, Sequence
<1>3. CASE Wrap(b) = Wrap(a) + (b - a) - Modulus
  <2>1. Wrap(b) < Wrap(a) /\ Wrap(a) # Wrap(b)
    BY <1>1, <1>3, HalfAssumption DEF Sequence, Modulus
  <2>2. Minus(Wrap(a), Wrap(b)) = Modulus - (b - a)
    BY <1>1, <1>3, <2>1, MinusOfSmaller, ModulusType DEF Sequence
  <2> QED
    BY <1>1, <2>1, <2>2, HalfOfMax, HalfAssumption DEF Less, Sequence, Modulus
<1> QED BY <1>2, <1>3, WrapForward

(* operator++ on a counter is adding one to the number it stands for.      *)
LEMMA PlusOne ==
  ASSUME NEW a \in Int
  PROVE  PlusAssign(Wrap(a), 1) = Wrap(a + 1)
<1> DEFINE q == a \div Modulus
           r == Wrap(a)
<1>1. q \in Int /\ r \in 0 .. Modulus - 1 /\ a = Modulus * q + r
  BY ModulusType, DivideWithRest DEF Wrap
<1> HIDE DEF q, r
<1>2. CASE r + 1 < Modulus
  <2>1. r + 1 \in 0 .. Modulus - 1 /\ r + 1 = Modulus * 0 + (r + 1)
    BY <1>1, <1>2, ModulusType
  <2>2. a + 1 = Modulus * q + (r + 1)
    BY <1>1, ModulusType
  <2>3. (r + 1) % Modulus = r + 1
    BY <2>1, <1>1, ModulusType, RestIsUnique
  <2>4. (a + 1) % Modulus = r + 1
    BY <2>1, <2>2, <1>1, ModulusType, RestIsUnique
  <2> QED BY <2>3, <2>4 DEF PlusAssign, Wrap, r
<1>3. CASE r + 1 = Modulus
  <2>1. 0 \in 0 .. Modulus - 1 /\ r + 1 = Modulus * 1 + 0
    BY <1>1, <1>3, ModulusType
  <2>2. a + 1 = Modulus * (q + 1) + 0
    BY <1>1, <1>3, ModulusType
  <2>3. (r + 1) % Modulus = 0
    BY <2>1, <1>1, ModulusType, RestIsUnique
  <2>4. (a + 1) % Modulus = 0
    BY <2>1, <2>2, <1>1, ModulusType, RestIsUnique
  <2> QED BY <2>3, <2>4 DEF PlusAssign, Wrap, r
<1> QED BY <1>1, <1>2, <1>3, ModulusType

(* What Deliver does to received, in terms of the numbers.                 *)
LEMMA AcceptsIffNewer ==
  ASSUME NEW n \in Int, NEW m \in Int, n - m < Half, m - n < Half
  PROVE  Greater(Wrap(n), Wrap(m)) <=> n > m
<1>1. CASE n > m
  BY <1>1, LessForward DEF Greater
<1>2. CASE n = m
  BY <1>2 DEF Greater
<1>3. CASE n < m
  BY <1>3, LessForward DEF Greater
<1> QED BY <1>1, <1>2, <1>3

(* operator- gives the distance of two such numbers.                       *)
LEMMA MinusForward ==
  ASSUME NEW a \in Int, NEW b \in Int, a <= b, b - a < Half
  PROVE  Minus(Wrap(b), Wrap(a)) = b - a
<1>1. b - a \in 0 .. Modulus - 1 /\ Wrap(a) \in Int /\ Wrap(b) \in Int
  BY HalfAssumption, WrapType DEF Modulus, Sequence
<1>2. \/ Wrap(b) - Wrap(a) = Modulus * 0 + (b - a)
      \/ Wrap(b) - Wrap(a) = Modulus * (-1) + (b - a)
  BY <1>1, WrapForward, ModulusType
<1>3. Wrap(b) - Wrap(a) \in Int /\ 0 \in Int /\ -1 \in Int
  BY <1>1
<1>4. (Wrap(b) - Wrap(a)) % Modulus = b - a
  BY <1>1, <1>2, <1>3, ModulusType, RestIsUnique
<1> QED BY <1>4 DEF Minus

(* The newest number up to n whose sequence is zero: none in a stretch     *)
(* that no counter wrapped in.                                             *)
LEMMA WrapOfMultiple ==
  ASSUME NEW n \in Int
  PROVE  Wrap(n - Minus(Wrap(n), 0)) = 0
<1> DEFINE q == n \div Modulus
           r == Wrap(n)
<1>1. q \in Int /\ r \in 0 .. Modulus - 1 /\ n = Modulus * q + r
  BY ModulusType, DivideWithRest DEF Wrap
<1> HIDE DEF q
<1>2. Minus(r, 0) = r
  BY <1>1, MinusOfSmaller, ModulusType DEF Sequence, MaxValue
<1>3. n - r = Modulus * q + 0 /\ 0 \in 0 .. Modulus - 1
  BY <1>1, ModulusType
<1>4. (n - r) % Modulus = 0
  BY <1>1, <1>3, ModulusType, RestIsUnique
<1> QED BY <1>2, <1>4 DEF Wrap

=============================================================================
