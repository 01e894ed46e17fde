--------------------------- MODULE WrappingCounter ---------------------------
(***************************************************************************)
(* The sequence numbers of the protocol: WrappingCounter<T, BITS> of       *)
(* src/include/Network/WrappingCounter.hpp, instantiated by Sequence.hpp   *)
(* as WrappingCounter<uint16_t, 15>.  A counter is its value; every value  *)
(* is masked to BITS bits, which is arithmetic modulo 2^BITS.              *)
(***************************************************************************)
EXTENDS Integers

CONSTANT Half      \* 2^(BITS - 1): half the number of counter values

(* 15 bits in the code; the mask arithmetic needs only an even modulus.    *)
ASSUME HalfAssumption == Half \in Nat \ {0}

Modulus == 2 * Half            \* max() + 1
MaxValue == Modulus - 1        \* max()
Sequence == 0 .. MaxValue

(* Mistake: the value is taken as it is.                                   *)
WrapUnmasked(n) == n

(* explicit WrappingCounter(T): newValue & max()                           *)
Wrap(n) == n % Modulus

(* operator-, the distance from b forward to a                             *)
Minus(a, b) == (a - b) % Modulus

(* Mistake: the sum is not masked.                                         *)
PlusUnmasked(a, n) == a + n

(* operator+=, operator-= with a plain integer on the right                *)
PlusAssign(a, n)  == (a + n) % Modulus
MinusAssign(a, n) == (a - n) % Modulus

(* Mistake: the values are compared as they are.                           *)
LessPlain(a, b) == a < b

(* operator<: (max() >> 1) + 1 is Half                                     *)
Less(a, b) ==
  /\ a # b
  /\ \/ b > a /\ Minus(b, a) <= (MaxValue \div 2) + 1
     \/ b < a /\ Minus(a, b) > (MaxValue \div 2) + 1

(* operator>                                                               *)
Greater(a, b) == a # b /\ ~Less(a, b)

=============================================================================
