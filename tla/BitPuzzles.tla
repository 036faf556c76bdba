------------------------------ MODULE BitPuzzles -----------------------------
(***************************************************************************)
(* The integer puzzles of src/data/bits.c, on words of W bits instead of   *)
(* 32, in two's complement, of four bytes of 2^LogByte bits instead of     *)
(* four of 8.  As the coding rules at the head of the file allow, sums and *)
(* shifts wrap and a right shift is arithmetic.                            *)
(***************************************************************************)
EXTENDS Integers, Bitwise

CONSTANT LogByte   \* bound: a byte has 2^LogByte bits, 3 in the program

ASSUME ByteBound == LogByte \in Nat

VARIABLE arguments     \* x, y, or <<>> before they are chosen

ByteBits == 2^LogByte
W == 4 * ByteBits
TMin == -(2^(W - 1))
TMax == 2^(W - 1) - 1
Word == TMin..TMax

------------------------------------------------------------------------------
(* The operators of C *)

Wrap(n) == ((n - TMin) % 2^W) + TMin
Unsigned(x) == x % 2^W
and(x, y) == Wrap(Unsigned(x) & Unsigned(y))
or(x, y) == Wrap(Unsigned(x) | Unsigned(y))
xor(x, y) == Wrap(Unsigned(x) ^^ Unsigned(y))
inv(x) == Wrap(2^W - 1 - Unsigned(x))
plus(x, y) == Wrap(x + y)
shl(x, n) == Wrap(x * 2^n)
shr(x, n) == x \div 2^n
not(x) == IF x = 0 THEN 1 ELSE 0

------------------------------------------------------------------------------
(* bits.c *)

bit_and(x, y) == inv(or(inv(x), inv(y)))

negate(x) == plus(inv(x), 1)

is_equal(x, y) == not(plus(plus(x, inv(y)), 1))

\* Mutation: the shift alone, which rounds down.
floor_div(x, n) == shr(x, n)

div_pwr_2(x, n) ==
    LET sign == shr(x, W - 1)
    IN shr(plus(x, and(sign, plus(plus(shl(1, n), inv(1)), 1))), n)

conditional(x, y, z) ==
    LET i == plus(inv(not(not(x))), 1)
    IN or(and(inv(i), z), and(i, y))

replaceByte(x, n, c) ==
    LET i == shl(n, LogByte)
        mask == shl(2^ByteBits - 1, i)
    IN or(and(x, inv(mask)), shl(c, i))

add_ok(x, y) ==
    LET signx == shr(x, W - 1)
        signy == shr(y, W - 1)
        signa == shr(plus(x, y), W - 1)
    IN not(and(plus(plus(signa, inv(signy)), 1), plus(plus(signa, inv(signx)), 1)))

abs_val(x) ==
    LET sign == shr(x, W - 1)
    IN plus(plus(xor(x, sign), inv(sign)), 1)

bang(x) ==
    LET mask == shr(or(x, plus(inv(x), 1)), W - 1)
    IN plus(mask, 1)

------------------------------------------------------------------------------
BitsInit == arguments = <<>>

BitsNext ==
    /\ arguments = <<>>
    /\ \E x, y \in Word : arguments' = <<x, y>>

------------------------------------------------------------------------------
(* What the comments promise, in arithmetic *)

Byte(x, n) == (Unsigned(x) \div 2^(n * ByteBits)) % 2^ByteBits
Truth(b) == IF b THEN 1 ELSE 0
TowardsZero(x, d) == IF x >= 0 THEN x \div d ELSE -((-x) \div d)

Binary(x, y) ==
    /\ bit_and(x, y) = and(x, y)
    /\ is_equal(x, y) = Truth(x = y)
    /\ conditional(x, y, TMin) = IF x # 0 THEN y ELSE TMin
    /\ conditional(y, TMax, x) = IF y # 0 THEN TMax ELSE x
    /\ add_ok(x, y) = Truth(x + y \in Word)

Unary(x) ==
    /\ negate(x) = IF x = TMin THEN TMin ELSE -x
    /\ \A n \in 0..(W - 2) : div_pwr_2(x, n) = TowardsZero(x, 2^n)
    /\ \A n, k \in 0..3, c \in 0..(2^ByteBits - 1) :
         Byte(replaceByte(x, n, c), k) = IF k = n THEN c ELSE Byte(x, k)
    /\ x # TMin => abs_val(x) = IF x < 0 THEN -x ELSE x
    /\ bang(x) = Truth(x = 0)

\* Each puzzle computes what its comment says for every word, the least and the
\* greatest included: no carry, sign or overflow makes div_pwr_2 round down,
\* add_ok miss an overflow, or is_equal and conditional take a wrong branch.
BitsCorrect ==
    arguments # <<>> =>
      LET x == arguments[1]
          y == arguments[2]
      IN Binary(x, y) /\ (y = 0 => Unary(x))
==============================================================================
