----------------------------- MODULE FixedPoint -----------------------------
(***************************************************************************)
(* threads/fixed-point.h: numbers with F_BITS as one.  Division is C's,    *)
(* which truncates towards zero.                                           *)
(***************************************************************************)
EXTENDS Integers

CONSTANT F_BITS

Quot(a, b) == IF a >= 0 THEN a \div b ELSE -((-a) \div b)    \* b > 0

itofp(x) == x * F_BITS

fptoi(x) == Quot(x, F_BITS)

fptoi_round(x) ==
  IF x >= 0 THEN Quot(x + (F_BITS \div 2), F_BITS) ELSE Quot(x - (F_BITS \div 2), F_BITS)

fp_add(a, b) == a + b
fp_sub(a, b) == a - b
fp_mul(a, b) == Quot(a * b, F_BITS)
fp_div(a, b) == Quot(a * F_BITS, b)
fp_int_add(a, b) == a + b * F_BITS
fp_int_sub(a, b) == a - b * F_BITS
fp_int_mul(a, b) == a * b
fp_int_div(a, b) == Quot(a, b)

=============================================================================
