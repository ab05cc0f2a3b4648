----------------------------- MODULE Arithmetic -----------------------------
(***************************************************************************)
(* lib/arithmetic.c: 64-bit division made of the DIVL instruction, which   *)
(* divides 64 bits by 32 and traps if the quotient needs more than 32.     *)
(* Widths are scaled: a word has W bits, a double word 2 * W, and the      *)
(* halving steps of nlz are those of a word of W bits.                     *)
(***************************************************************************)
EXTENDS Integers, Sequences
LOCAL INSTANCE SequencesExt

CONSTANTS W,
          Halves     \* W / 2, W / 4, ... 1

VARIABLES operands,  \* what the compiler's code passes
          answer     \* what it gets back

avars == <<operands, answer>>

B == 2 ^ W
Unsigned == 0 .. B * B - 1
Signed == -((B * B) \div 2) .. ((B * B) \div 2) - 1
Wrap(x) == x % (B * B)
AsSigned(x) == IF x >= (B * B) \div 2 THEN x - B * B ELSE x

Trap == -1
divl(n, d) == IF n \div d < B THEN n \div d ELSE Trap

(* The number of leading zero bits, half the remaining bits at a time. *)
nlz(x) ==
  FoldLeft(LAMBDA s, h : IF s.x < 2 ^ (W - h) THEN [n |-> s.n + h, x |-> s.x * 2 ^ h] ELSE s,
           [n |-> 0, x |-> x], Halves).n

(* A variant that trusts the estimate. *)
Corrected_not(q, n, d) == q

(* The estimate is at most one too large. *)
Corrected(q, n, d) == IF Wrap(n - (q - 1) * d) < d THEN q - 1 ELSE q

udiv64(n, d) ==
  IF d < B
  THEN LET n1 == n \div B
           low == divl(B * (n1 % d) + (n % B), d)
       IN  IF low = Trap THEN Trap ELSE low + B * (n1 \div d)
  ELSE IF n < d THEN 0
  ELSE LET s == nlz(d \div B)
           top == divl(n \div 2, Wrap(d * 2 ^ s) \div B)
       IN  IF top = Trap THEN Trap ELSE Corrected(top \div 2 ^ (W - 1 - s), n, d)

(* umod64 is declared to return 32 bits: the remainder loses its upper     *)
(* word.                                                                   *)
umod64(n, d) == Wrap(n - d * udiv64(n, d)) % B

Abs(x) == IF x >= 0 THEN x ELSE -x

sdiv64(n, d) ==
  LET q_abs == udiv64(Abs(n), Abs(d))
  IN  IF q_abs = Trap THEN [trap |-> TRUE, q |-> 0]
      ELSE [trap |-> FALSE,
            q |-> IF (n < 0) = (d < 0) THEN AsSigned(q_abs) ELSE AsSigned(Wrap(-q_abs))]

(* The low word of the remainder, as a signed one. *)
smod64(n, d) ==
  LET r == Wrap(n - d * sdiv64(n, d).q) % B
  IN  IF r >= B \div 2 THEN r - B ELSE r

AInit ==
  /\ operands \in [n : Unsigned, d : Unsigned \ {0}, signed : {FALSE}]
                    \cup [n : Signed, d : Signed \ {0}, signed : {TRUE}]
  /\ answer = [done |-> FALSE, trap |-> FALSE, q |-> 0, r |-> 0]

Divide ==
  /\ ~answer.done
  /\ LET n == operands.n
         d == operands.d
     IN  answer' = IF operands.signed
                   THEN [done |-> TRUE, trap |-> sdiv64(n, d).trap, q |-> sdiv64(n, d).q,
                         r |-> smod64(n, d)]
                   ELSE [done |-> TRUE, trap |-> udiv64(n, d) = Trap, q |-> udiv64(n, d),
                         r |-> umod64(n, d)]
  /\ UNCHANGED operands

ASpec == AInit /\ [][Divide]_avars

(***************************************************************************)
(* Properties.                                                             *)
(***************************************************************************)
TruncatedQuotient(n, d) ==
  IF (n < 0) = (d < 0) THEN Abs(n) \div Abs(d) ELSE -(Abs(n) \div Abs(d))

(* "This code is correct and will not trap": for all operands the quotient *)
(* is C's, except for the one that does not fit, where it wraps.           *)
QuotientExact ==
  answer.done =>
    /\ ~answer.trap
    /\ answer.q = IF operands.signed
                  THEN AsSigned(Wrap(TruncatedQuotient(operands.n, operands.d)))
                  ELSE operands.n \div operands.d

(* The remainder is C's whenever the divisor is small enough for every     *)
(* remainder to fit the word that umod64 and smod64 return.                *)
RemainderExact ==
  answer.done /\ Abs(operands.d) <= (IF operands.signed THEN B \div 2 ELSE B) =>
    answer.r = operands.n - operands.d * TruncatedQuotient(operands.n, operands.d)

=============================================================================
