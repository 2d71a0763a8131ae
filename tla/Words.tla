------------------------------- MODULE Words -------------------------------
(***************************************************************************)
(* The 256 bit words of the interpreter: multi-word arithmetic of          *)
(* src/evm/intx (int128.hpp, intx.hpp, div.hpp, div.cpp).  A machine word  *)
(* has B bits instead of 64; uint128, uint256 and uint512 are 2, 4 and 8   *)
(* machine words as in the code, and every intermediate value is reduced   *)
(* modulo 2^B where the C type wraps.  A number is a natural; the code's   *)
(* halves and digits are taken from it by LoHalf, HiHalf and AsWords.      *)
(***************************************************************************)
EXTENDS Integers, Sequences

CONSTANTS
    B,         \* bits of a machine word (64)
    ByteBits,  \* bits of a byte (8)
    Operand,   \* words on top of the first stack
    Third      \* words below them: moduli, and operands of a second operation

ASSUME WidthAssumption ==
    /\ B \in Nat /\ B > 1
    /\ ByteBits \in Nat /\ ByteBits > 0 /\ B % ByteBits = 0

\* Powers of two: 1 << n.
TwoTo[n \in Nat] == IF n = 0 THEN 1 ELSE 2 * TwoTo[n - 1]

Beta == TwoTo[B]
Size(w) == TwoTo[w * B]             \* values of a uint of w machine words
U(w, n) == n % Size(w)              \* what the C type keeps

ASSUME OperandAssumption == Operand \subseteq 0 .. Size(4) - 1 /\ Third \subseteq 0 .. Size(4) - 1

LoHalf(w, x) == x % Size(w \div 2)
HiHalf(w, x) == x \div Size(w \div 2)
Join(w, hi, lo) == hi * Size(w \div 2) + lo
Digit(x, i) == (x \div Size(i)) % Beta
Truth(b) == IF b THEN 1 ELSE 0
AsWords(w, x) == [i \in 0 .. w - 1 |-> Digit(x, i)]

Digits(n) == [0 .. n - 1 -> 0 .. Beta - 1]

\* for (i = 0; i < n; ++i) and for (j = n; j >= 0; --j): step[j] takes the loop's
\* variables to their next values.
Upto(step, base, n) ==
    LET after[i \in 0 .. n] == IF i = 0 THEN base ELSE step[i - 1][after[i - 1]]
    IN  after[n]
Downto(step, base, n) ==
    LET after[i \in 0 .. n + 1] == IF i = 0 THEN base ELSE step[n + 1 - i][after[i - 1]]
    IN  after[n + 1]

FromWords(w, d) == Downto([i \in 0 .. w - 1 |-> [acc \in Nat |-> acc * Beta + d[i]]], 0, w - 1)

-----------------------------------------------------------------------------
(* int128.hpp: sums, comparisons, shifts and products of two machine words *)

\* Variant: an equal low half counts as a carry.
Add128Eager(x, y) ==
    LET lo == U(1, LoHalf(2, x) + LoHalf(2, y))
        carry == IF LoHalf(2, x) >= lo THEN 1 ELSE 0
    IN  Join(2, U(1, HiHalf(2, x) + HiHalf(2, y) + carry), lo)

Add128(x, y) ==
    LET lo == U(1, LoHalf(2, x) + LoHalf(2, y))
        carry == IF LoHalf(2, x) > lo THEN 1 ELSE 0
    IN  Join(2, U(1, HiHalf(2, x) + HiHalf(2, y) + carry), lo)

Sub128(x, y) ==
    LET lo == U(1, LoHalf(2, x) - LoHalf(2, y))
        borrow == IF LoHalf(2, x) < lo THEN 1 ELSE 0
    IN  Join(2, U(1, HiHalf(2, x) - HiHalf(2, y) - borrow), lo)

\* Variant: one right shift by B - s, which is a shift by zero for s = 0.
Shl128OneShift(x, s) ==
    IF s < B
    THEN Join(2, U(1, U(1, HiHalf(2, x) * TwoTo[s]) + (LoHalf(2, x) \div TwoTo[(B - s) % B])),
              U(1, LoHalf(2, x) * TwoTo[s]))
    ELSE IF s < 2 * B THEN Join(2, U(1, LoHalf(2, x) * TwoTo[s - B]), 0) ELSE 0

Shl128(x, s) ==
    IF s < B
    THEN Join(2, U(1, HiHalf(2, x) * TwoTo[s]) + ((LoHalf(2, x) \div 2) \div TwoTo[B - 1 - s]),
              U(1, LoHalf(2, x) * TwoTo[s]))
    ELSE IF s < 2 * B THEN Join(2, U(1, LoHalf(2, x) * TwoTo[s - B]), 0) ELSE 0

Shr128(x, s) ==
    IF s < B
    THEN Join(2, HiHalf(2, x) \div TwoTo[s],
              (LoHalf(2, x) \div TwoTo[s]) + U(1, U(1, HiHalf(2, x) * 2) * TwoTo[B - 1 - s]))
    ELSE IF s < 2 * B THEN HiHalf(2, x) \div TwoTo[s - B] ELSE 0

Umul64(x, y) == x * y

\* Variant: one of the two cross products is left out.
Mul128OneCross(x, y) ==
    LET p == Umul64(LoHalf(2, x), LoHalf(2, y))
    IN  Join(2, U(1, HiHalf(2, p) + LoHalf(2, x) * HiHalf(2, y)), LoHalf(2, p))

Mul128(x, y) ==
    LET p == Umul64(LoHalf(2, x), LoHalf(2, y))
    IN  Join(2, U(1, HiHalf(2, p) + LoHalf(2, x) * HiHalf(2, y) + HiHalf(2, x) * LoHalf(2, y)),
             LoHalf(2, p))

\* clz: leading zeros of a machine word, by halving; B for zero.
Clz64(x) == CHOOSE n \in 0 .. B : x * TwoTo[n] < Beta /\ (n = B \/ x * TwoTo[n + 1] >= Beta)
Clz128(x) == IF HiHalf(2, x) = 0 THEN Clz64(LoHalf(2, x)) + B ELSE Clz64(HiHalf(2, x))

-----------------------------------------------------------------------------
(* intx.hpp: the same on 4 and 8 machine words, half by half *)

LessHalves(LessHalf(_, _), w, x, y) ==
    \/ LessHalf(HiHalf(w, x), HiHalf(w, y))
    \/ HiHalf(w, x) = HiHalf(w, y) /\ LessHalf(LoHalf(w, x), LoHalf(w, y))

Less128(x, y) == LessHalves(LAMBDA a, b : a < b, 2, x, y)
Less256(x, y) == LessHalves(Less128, 4, x, y)

AddCarry128(x, y) == LET s == Add128(x, y) IN [value |-> s, carry |-> Less128(s, x)]

AddCarry256(x, y) ==
    LET lo == AddCarry128(LoHalf(4, x), LoHalf(4, y))
        tt == AddCarry128(HiHalf(4, x), HiHalf(4, y))
        hi == AddCarry128(tt.value, IF lo.carry THEN 1 ELSE 0)
    IN  [value |-> Join(4, hi.value, lo.value), carry |-> tt.carry \/ hi.carry]

Add256(x, y) == AddCarry256(x, y).value
Neg256(x) == Add256(Size(4) - 1 - x, 1)         \* ~x + 1
Sub256(x, y) == Add256(x, Neg256(y))

\* The variant with one machine word and a carry at a time.
AddLoop(w, x, y) ==
    LET Step == [i \in 0 .. w - 1 |-> [acc \in [z : Nat, k : 0 .. 1] |->
            LET z == U(1, Digit(x, i) + Digit(y, i))
                zk == U(1, z + acc.k)
            IN  [z |-> acc.z + zk * Size(i),
                 k |-> IF zk < acc.k \/ z < Digit(x, i) THEN 1 ELSE 0]]]
    IN  Upto(Step, [z |-> 0, k |-> 0], w).z

\* What leaves one half enters the other: shifted by the rest of the half, in
\* two shifts so that none is as wide as the half.
Shl256(x, s) ==
    LET half == 2 * B
        over == Shr128(Shr128(LoHalf(4, x), half - s - 1), 1)
    IN  IF s < half THEN Join(4, Shl128(HiHalf(4, x), s) + over, Shl128(LoHalf(4, x), s))
        ELSE IF s < 2 * half THEN Join(4, Shl128(LoHalf(4, x), s - half), 0) ELSE 0

Shr256(x, s) ==
    LET half == 2 * B
        over == Shl128(Shl128(HiHalf(4, x), half - s - 1), 1)
    IN  IF s < half THEN Join(4, Shr128(HiHalf(4, x), s), Shr128(LoHalf(4, x), s) + over)
        ELSE IF s < 2 * half THEN Shr128(HiHalf(4, x), s - half) ELSE 0

\* Shift left machine word by machine word; for shifts below the width.
ShlLoop(w, x, shift) ==
    LET s == shift % B
        skip == shift \div B
        Step == [i \in 0 .. w - 1 |-> [acc \in [r : Nat, carry : Nat] |->
            [r |-> acc.r + (U(1, Digit(x, i) * TwoTo[s]) + acc.carry) * Size(i + skip),
             carry |-> (Digit(x, i) \div TwoTo[B - s - 1]) \div 2]]]
    IN  Upto(Step, [r |-> 0, carry |-> 0], w - skip).r

\* Full product of two numbers of w machine words by the four products of
\* their halves: umul<Int>, with the sum and the left shift of Int.
UmulHalves(UmulHalf(_, _), Plus(_, _), Left(_, _), w, x, y) ==
    LET t0 == UmulHalf(LoHalf(w, x), LoHalf(w, y))
        t1 == UmulHalf(HiHalf(w, x), LoHalf(w, y))
        t2 == UmulHalf(LoHalf(w, x), HiHalf(w, y))
        t3 == UmulHalf(HiHalf(w, x), HiHalf(w, y))
        u1 == Plus(t1, HiHalf(w, t0))
        u2 == Plus(t2, LoHalf(w, u1))
        hi == Plus(Plus(t3, HiHalf(w, u2)), HiHalf(w, u1))
    IN  Join(2 * w, hi, Left(u2, (w \div 2) * B) + LoHalf(w, t0))

Umul128(x, y) == UmulHalves(Umul64, Add128, Shl128, 2, x, y)
Umul256(x, y) == UmulHalves(Umul128, Add256, Shl256, 4, x, y)

\* The product modulo 2^256: one full half product and two wrapping ones.
Mul256(x, y) ==
    LET t == Umul128(LoHalf(4, x), LoHalf(4, y))
        hi == Add128(Add128(Mul128(LoHalf(4, x), HiHalf(4, y)), Mul128(HiHalf(4, x), LoHalf(4, y))),
                     HiHalf(4, t))
    IN  Join(4, hi, LoHalf(4, t))

UmulLoop(w, x, y) ==
    LET Inner(j) == [i \in 0 .. w - 1 |-> [acc \in [p : Digits(2 * w), k : 0 .. Beta - 1] |->
            LET t == Add128(Add128(Umul64(Digit(x, i), Digit(y, j)), acc.p[i + j]), acc.k)
            IN  [p |-> [acc.p EXCEPT ![i + j] = LoHalf(2, t)], k |-> HiHalf(2, t)]]]
        Outer == [j \in 0 .. w - 1 |-> [p \in Digits(2 * w) |->
            LET acc == Upto(Inner(j), [p |-> p, k |-> 0], w)
            IN  [acc.p EXCEPT ![j + w] = acc.k]]]
    IN  FromWords(2 * w, Upto(Outer, AsWords(2 * w, 0), w))

MulLoopOpt(w, x, y) ==
    LET Inner(j) == [i \in 0 .. w - 1 |-> [acc \in [p : Digits(w), k : 0 .. Beta - 1] |->
            LET t == Add128(Add128(Umul64(Digit(x, i), Digit(y, j)), acc.p[i + j]), acc.k)
            IN  [p |-> [acc.p EXCEPT ![i + j] = LoHalf(2, t)], k |-> HiHalf(2, t)]]]
        Outer == [j \in 0 .. w - 1 |-> [p \in Digits(w) |->
            LET acc == Upto(Inner(j), [p |-> p, k |-> 0], w - j - 1)
            IN  [acc.p EXCEPT ![w - 1] = U(1, @ + Digit(x, w - j - 1) * Digit(y, j) + acc.k)]]]
    IN  FromWords(w, Upto(Outer, AsWords(w, 0), w))

\* Square and multiply, one bit of the exponent after the other.
Exp(base, exponent) ==
    LET Step == [i \in 0 .. 4 * B - 1 |-> [acc \in [result : Nat, base : Nat] |->
            [result |-> IF (exponent \div TwoTo[i]) % 2 = 1 THEN Mul256(acc.result, acc.base)
                        ELSE acc.result,
             base |-> Mul256(acc.base, acc.base)]]]
    IN  Upto(Step, [result |-> 1, base |-> base], 4 * B).result

Clz256(x) == IF HiHalf(4, x) = 0 THEN Clz128(LoHalf(4, x)) + 2 * B ELSE Clz128(HiHalf(4, x))

\* count_significant_words: how many machine words the value needs.
SignificantHalves(OfHalf(_), w, x) ==
    LET h == OfHalf(HiHalf(w, x))
    IN  IF h # 0 THEN h + (w \div 2) ELSE OfHalf(LoHalf(w, x))

Significant128(x) == SignificantHalves(LAMBDA a : IF a # 0 THEN 1 ELSE 0, 2, x)
Significant256(x) == SignificantHalves(Significant128, 4, x)
Significant512(x) == SignificantHalves(Significant256, 8, x)

-----------------------------------------------------------------------------
(* int128.hpp: division by a normalized divisor through its reciprocal *)

\* The table lookup and its Newton steps, by the value their comment states.
Reciprocal2by1(d) == (Size(2) - 1) \div d - Beta

Reciprocal3by2(d) ==
    LET v0 == Reciprocal2by1(HiHalf(2, d))
        p0 == U(1, HiHalf(2, d) * v0 + LoHalf(2, d))
        wrapped == p0 < LoHalf(2, d)
        twice == wrapped /\ p0 >= HiHalf(2, d)
        steps == IF twice THEN 2 ELSE IF wrapped THEN 1 ELSE 0
        v1 == U(1, v0 - steps)
        p1 == U(1, p0 - steps * HiHalf(2, d))
        t == Umul64(v1, LoHalf(2, d))
        p2 == U(1, p1 + HiHalf(2, t))
        last == IF p2 >= HiHalf(2, t) THEN 0
                ELSE IF Join(2, p2, LoHalf(2, t)) >= d THEN 2 ELSE 1
    IN  U(1, v1 - last)

\* Two words by one: the quotient is guessed from the reciprocal, then
\* corrected at most once down and once up.
UDivRem2by1(u, d, v) ==
    LET Up(q, r) == IF r >= d THEN [quot |-> U(1, q + 1), rem |-> U(1, r - d)]
                    ELSE [quot |-> q, rem |-> r]
        Down(q, r, low) == IF r > low THEN Up(U(1, q - 1), U(1, r + d)) ELSE Up(q, r)
        From(q, low) == Down(q, U(1, LoHalf(2, u) - q * d), low)
        Guess(q) == From(U(1, HiHalf(2, q) + 1), LoHalf(2, q))
    IN  Guess(Add128(Umul64(v, HiHalf(2, u)), u))

UDivRem3by2(u2, u1, u0, d, v) ==
    LET Up(q, r) == IF r >= d THEN [quot |-> U(1, q + 1), rem |-> Sub128(r, d)]
                    ELSE [quot |-> q, rem |-> r]
        Down(q, r, low) == IF HiHalf(2, r) >= low THEN Up(U(1, q - 1), Add128(r, d)) ELSE Up(q, r)
        Rest(q) == Sub128(Sub128(Join(2, U(1, u1 - q * HiHalf(2, d)), u0), Umul64(LoHalf(2, d), q)), d)
        From(q, low) == Down(U(1, q + 1), Rest(q), low)
        Guess(q) == From(HiHalf(2, q), LoHalf(2, q))
    IN  Guess(Add128(Umul64(v, u2), Join(2, u2, u1)))

\* 128 by 128 bits, for a divisor other than zero.
UDivRem128(x, y) ==
    LET Pair(a, b, lsh) == [quot |-> Join(2, a.quot, b.quot), rem |-> b.rem \div TwoTo[lsh]]
        Second(a, xn, yn, v, lsh) ==
            Pair(a, UDivRem2by1(Join(2, a.rem, Digit(xn, 0)), yn, v), lsh)
        ByOne(xn, yn, v, lsh) ==              \* xn: xn_ex, xn_hi, xn_lo
            Second(UDivRem2by1(xn \div Beta, yn, v), xn, yn, v, lsh)
        Shifted(r, lsh) == [quot |-> r.quot, rem |-> Shr128(r.rem, lsh)]
        ByTwo(xn, yn, lsh) ==
            Shifted(UDivRem3by2(Digit(xn, 2), Digit(xn, 1), Digit(xn, 0), yn, Reciprocal3by2(yn)), lsh)
        lead == Clz64(IF HiHalf(2, y) = 0 THEN LoHalf(2, y) ELSE HiHalf(2, y))
        fits == HiHalf(2, y) < HiHalf(2, x) \/ LoHalf(2, y) <= LoHalf(2, x)
    IN  IF HiHalf(2, y) = 0
        THEN ByOne(x * TwoTo[lead], y * TwoTo[lead], Reciprocal2by1(y * TwoTo[lead]), lead)
        ELSE IF HiHalf(2, y) > HiHalf(2, x) THEN [quot |-> 0, rem |-> x]
        ELSE IF lead = 0 THEN [quot |-> Truth(fits), rem |-> Sub128(x, Truth(fits) * y)]
        ELSE ByTwo(x * TwoTo[lead], y * TwoTo[lead], lead)

-----------------------------------------------------------------------------
(* div.hpp, div.cpp: division of 4 and 8 machine words *)

\* Both operands shifted until the divisor's top bit is set; the numerator
\* gets one word more (numerator_ex).
Normalize(w, u, v) ==
    LET Words(x) == IF w = 4 THEN Significant256(x) ELSE Significant512(x)
        n == Words(v)
        shift == Clz64(Digit(v, n - 1))
        Shifted(x, i) == U(1, Digit(x, i) * TwoTo[shift])
                         + (IF i > 0 THEN Digit(x, i - 1) \div TwoTo[B - shift] ELSE 0)
    IN  [m |-> Words(u), n |-> n, shift |-> shift,
         numerator |-> [i \in 0 .. w |-> Shifted(u, i)],
         denominator |-> [i \in 0 .. w - 1 |-> Shifted(v, i)]]

\* The two loops leave the quotient in the numerator's words.
Put(u, j, x) == [u |-> [u EXCEPT ![j] = x.quot], r |-> x.rem]

UDivRemBy1(un, m, d) ==
    LET v == Reciprocal2by1(d)
        Step == [j \in 0 .. m - 1 |-> [acc \in [u : [DOMAIN un -> 0 .. Beta - 1], r : 0 .. Beta - 1] |->
            Put(acc.u, j, UDivRem2by1(Join(2, acc.r, acc.u[j]), d, v))]]
    IN  Downto(Step, [u |-> [un EXCEPT ![m] = 0], r |-> un[m]], m - 1)

UDivRemBy2(un, m, d) ==
    LET v == Reciprocal3by2(d)
        Step == [j \in 0 .. m - 2 |-> [acc \in [u : [DOMAIN un -> 0 .. Beta - 1], r : 0 .. Size(2) - 1] |->
            Put(acc.u, j, UDivRem3by2(HiHalf(2, acc.r), LoHalf(2, acc.r), acc.u[j], d, v))]]
    IN  Downto(Step, [u |-> [un EXCEPT ![m] = 0, ![m - 1] = 0],
                        r |-> Join(2, un[m], un[m - 1])], m - 2)

\* A guess for one quotient digit from the top words, at most one too large.
QHat(u2, u1, u0, divisor, reciprocal) ==
    LET TooLarge(q, r) == Umul64(q, LoHalf(2, divisor)) > Join(2, LoHalf(2, r), u0)
        Adjust(q, r) == IF HiHalf(2, r) = 0 /\ TooLarge(q, r) THEN q - 1 ELSE q
        Checked(res) == IF TooLarge(res.quot, res.rem)
                        THEN Adjust(res.quot - 1, Add128(res.rem, HiHalf(2, divisor)))
                        ELSE res.quot
        top == HiHalf(2, divisor)
    IN  IF u2 >= top
        THEN Adjust(Beta - 1, Add128(Sub128(Join(2, u2, u1), Join(2, top, 0)), top))
        ELSE Checked(UDivRem2by1(Join(2, u2, u1), top, reciprocal))

\* Subtract qhat times the divisor at position j.
MultiplyAndSubtract(un, vn, n, j, qhat) ==
    LET Step == [i \in 0 .. n - 1 |-> [acc \in [un : [DOMAIN un -> 0 .. Beta - 1], k : 0 .. Beta - 1] |->
            LET p == Umul64(qhat, vn[i])
                s == Sub128(Sub128(acc.un[i + j], acc.k), LoHalf(2, p))
            IN  [un |-> [acc.un EXCEPT ![i + j] = LoHalf(2, s)],
                 k |-> U(1, HiHalf(2, p) - HiHalf(2, s))]]]
    IN  Upto(Step, [un |-> un, k |-> 0], n)

AddBack(un, vn, n, j) ==
    LET Step == [i \in 0 .. n - 1 |-> [acc \in [un : [DOMAIN un -> 0 .. Beta - 1], k : 0 .. 1] |->
            LET s == acc.un[i + j] + vn[i] + acc.k
            IN  [un |-> [acc.un EXCEPT ![i + j] = LoHalf(2, s)], k |-> HiHalf(2, s)]]]
        sum == Upto(Step, [un |-> un, k |-> 0], n)
    IN  [sum.un EXCEPT ![j + n] = U(1, @ + sum.k)]

\* Variant: a digit one too large is not corrected.
SettledAsGuessed(acc, vn, n, j, qhat, sub) ==
    [un |-> [sub.un EXCEPT ![j + n] = U(1, acc.un[j + n] - sub.k)],
     q |-> [acc.q EXCEPT ![j] = qhat]]

\* The digit at j and what is left of the numerator after it.
Settled(acc, vn, n, j, qhat, sub) ==
    LET u2 == acc.un[j + n]
        rest == [sub.un EXCEPT ![j + n] = U(1, u2 - sub.k)]
    IN  IF u2 < sub.k
        THEN [un |-> AddBack(rest, vn, n, j), q |-> [acc.q EXCEPT ![j] = qhat - 1]]
        ELSE [un |-> rest, q |-> [acc.q EXCEPT ![j] = qhat]]

UDivRemKnuth(w, un, m, vn, n) ==
    LET Subtracted(acc, j, qhat) ==
            Settled(acc, vn, n, j, qhat, MultiplyAndSubtract(acc.un, vn, n, j, qhat))
        Step == [j \in 0 .. m - n |-> [acc \in [un : [DOMAIN un -> 0 .. Beta - 1], q : Digits(w)] |->
            Subtracted(acc, j, QHat(acc.un[j + n], acc.un[j + n - 1], acc.un[j + n - 2],
                                    Join(2, vn[n - 1], vn[n - 2]), Reciprocal2by1(vn[n - 1])))]]
    IN  Downto(Step, [un |-> un, q |-> AsWords(w, 0)], m - n)

\* The remainder is shifted back.
Denormalized(w, a, n, shift) ==
    LET Word(i) == IF i >= n THEN 0
                   ELSE (a.un[i] \div TwoTo[shift]) + U(1, a.un[i + 1] * TwoTo[B - shift])
    IN  [quot |-> FromWords(w, a.q), rem |-> FromWords(w, [i \in 0 .. w - 1 |-> Word(i)])]

\* The division that fits the number of words of the normalized operands.
UDivRemNormalized(w, u, na) ==
    LET m == na.m
        n == na.n
        vn == na.denominator
        By1(a) == [quot |-> FromWords(w, a.u), rem |-> a.r \div TwoTo[na.shift]]
        By2(a) == [quot |-> FromWords(w, a.u), rem |-> Shr128(a.r, na.shift)]
    IN  CASE n > m -> [quot |-> 0, rem |-> u]
          [] n <= m /\ n = 1 -> By1(UDivRemBy1(na.numerator, m, vn[0]))
          [] n <= m /\ n = 2 -> By2(UDivRemBy2(na.numerator, m, Join(2, vn[1], vn[0])))
          [] n <= m /\ n > 2 -> Denormalized(w, UDivRemKnuth(w, na.numerator, m, vn, n), n, na.shift)

UDivRem(w, u, v) == UDivRemNormalized(w, u, Normalize(w, u, v))

\* Two's complement division: the remainder takes the numerator's sign.
Negative(w, x) == x >= Size(w) \div 2
SDivRem(u, v) ==
    LET Abs(x) == IF Negative(4, x) THEN Neg256(x) ELSE x
        Signs(res) ==
            [quot |-> IF Negative(4, u) # Negative(4, v) THEN Neg256(res.quot) ELSE res.quot,
             rem |-> IF Negative(4, u) THEN Neg256(res.rem) ELSE res.rem]
    IN  Signs(UDivRem(4, Abs(u), Abs(v)))

AddMod(x, y, mod) ==
    LET s == AddCarry256(x, y)
    IN  LoHalf(8, UDivRem(8, Join(8, IF s.carry THEN 1 ELSE 0, s.value), mod).rem)

MulMod(x, y, mod) == LoHalf(8, UDivRem(8, Umul256(x, y), mod).rem)

-----------------------------------------------------------------------------
(* VM.cpp: the opcodes that compute, over a stack with its top first.  Each *)
(* pops its arguments and pushes the result; `last' remembers the step.     *)

VARIABLES
    stack,   \* Seq of words
    last     \* [op, a, result]: the last operation, its arguments, its result

vars == <<stack, last>>

Bits == 4 * B
Bytes == Bits \div ByteBits        \* 32
MaxWord == Size(4) - 1

\* Two's complement comparison by the sign bits, then unsigned.
SignedLess(x, y) == IF Negative(4, x) # Negative(4, y) THEN Negative(4, x) ELSE Less256(x, y)
SignedGreater(x, y) == IF Negative(4, x) # Negative(4, y) THEN Negative(4, y) ELSE Less256(y, x)

OrWords(x, y) ==
    LET Bit(i) == (x \div TwoTo[i]) % 2 = 1 \/ (y \div TwoTo[i]) % 2 = 1
    IN  Upto([i \in 0 .. Bits - 1 |-> [acc \in Nat |-> acc + TwoTo[i] * Truth(Bit(i))]], 0, Bits)

ByteAt(i, x) == IF i < Bytes THEN Shr256(x, ByteBits * (Bytes - 1 - i)) % TwoTo[ByteBits] ELSE 0

ShiftArithmetic(amount, x) ==
    IF amount >= Bits THEN IF Negative(4, x) THEN MaxWord ELSE 0
    ELSE IF Negative(4, x) THEN OrWords(Shr256(x, amount), Shl256(MaxWord, Bits - amount))
         ELSE Shr256(x, amount)

SignExtend(i, x) ==
    LET testBit == i * ByteBits + ByteBits - 1
        mask == Sub256(Shl256(1, testBit), 1)
    IN  IF i >= Bytes - 1 THEN x
        ELSE IF (x \div TwoTo[testBit]) % 2 = 1 THEN OrWords(x, MaxWord - mask)
             ELSE x % (mask + 1)

\* One operation per behaviour: an operation is a function of its arguments.
Pop(n, op, result) ==
    /\ last.op = "none"
    /\ last' = [op |-> op, a |-> SubSeq(stack, 1, n), result |-> result]
    /\ stack' = <<result>> \o SubSeq(stack, n + 1, Len(stack))

X == stack[1]
Y == stack[2]
Z == stack[3]

ADD == Pop(2, "ADD", Add256(X, Y))
SUB == Pop(2, "SUB", Sub256(X, Y))
MUL == Pop(2, "MUL", Mul256(X, Y))
DIV == Pop(2, "DIV", IF Y # 0 THEN UDivRem(4, X, Y).quot ELSE 0)
MOD == Pop(2, "MOD", IF Y # 0 THEN UDivRem(4, X, Y).rem ELSE 0)
SDIV == Pop(2, "SDIV", IF Y # 0 THEN SDivRem(X, Y).quot ELSE 0)
SMOD == Pop(2, "SMOD", IF Y # 0 THEN SDivRem(X, Y).rem ELSE 0)
EXP == Pop(2, "EXP", Exp(X, Y))
LT == Pop(2, "LT", Truth(Less256(X, Y)))
GT == Pop(2, "GT", Truth(Less256(Y, X)))
SLT == Pop(2, "SLT", Truth(SignedLess(X, Y)))
SGT == Pop(2, "SGT", Truth(SignedGreater(X, Y)))
BYTE == Pop(2, "BYTE", ByteAt(X, Y))
SHL == Pop(2, "SHL", IF X >= Bits THEN 0 ELSE Shl256(Y, X))
SHR == Pop(2, "SHR", IF X >= Bits THEN 0 ELSE Shr256(Y, X))
SAR == Pop(2, "SAR", ShiftArithmetic(X, Y))
SIGNEXTEND == Pop(2, "SIGNEXTEND", SignExtend(X, Y))
ADDMOD == Pop(3, "ADDMOD", IF Z # 0 THEN AddMod(X, Y, Z) ELSE 0)
MULMOD == Pop(3, "MULMOD", IF Z # 0 THEN MulMod(X, Y, Z) ELSE 0)

Init == /\ stack \in {<<x, y, z>> : x \in Operand, y \in Operand, z \in Third}
        /\ last = [op |-> "none", a |-> <<>>, result |-> 0]

Next == \/ ADD \/ SUB \/ MUL \/ DIV \/ MOD \/ SDIV \/ SMOD \/ EXP
        \/ LT \/ GT \/ SLT \/ SGT \/ BYTE \/ SHL \/ SHR \/ SAR \/ SIGNEXTEND
        \/ ADDMOD \/ MULMOD

Spec == Init /\ [][Next]_vars

-----------------------------------------------------------------------------
(* What the operations promise, in plain arithmetic of naturals and integers *)

Asked(ops) == last.op \in ops
A == last.a[1]
C == last.a[2]
Signed(x) == IF 2 * x >= Size(4) THEN x - Size(4) ELSE x
Magnitude(i) == IF i < 0 THEN -i ELSE i
Power(a, e) ==
    LET Step == [i \in 0 .. Bits - 1 |-> [acc \in 0 .. Size(4) - 1 |->
            (((acc * acc) % Size(4)) * (IF (e \div TwoTo[i]) % 2 = 1 THEN a ELSE 1)) % Size(4)]]
    IN  Downto(Step, 1, Bits - 1)

\* Sums, differences and comparisons carry across the halves of the halves as
\* in one wide number, and the loop over machine words gives the same sum.
SumsRight ==
    /\ Asked({"ADD"}) => last.result = (A + C) % Size(4) /\ last.result = AddLoop(4, A, C)
    /\ Asked({"SUB"}) => last.result = (A - C) % Size(4)
    /\ Asked({"LT"}) => last.result = Truth(A < C)
    /\ Asked({"GT"}) => last.result = Truth(A > C)
    /\ Asked({"SLT"}) => last.result = Truth(Signed(A) < Signed(C))
    /\ Asked({"SGT"}) => last.result = Truth(Signed(A) > Signed(C))

\* The product built from half products drops exactly what overflows 256 bits;
\* the loops over machine words and the power agree with it.
ProductsRight ==
    /\ Asked({"MUL"}) =>
          /\ last.result = (A * C) % Size(4)
          /\ last.result = MulLoopOpt(4, A, C)
          /\ Umul256(A, C) = A * C /\ UmulLoop(4, A, C) = A * C
    /\ Asked({"EXP"}) => last.result = Power(A, C)

\* Sum and product modulo a third word are reduced from 512 bits.
ModularRight ==
    LET N == last.a[3]
    IN  /\ Asked({"ADDMOD"}) => last.result = IF N = 0 THEN 0 ELSE (A + C) % N
        /\ Asked({"MULMOD"}) => last.result = IF N = 0 THEN 0 ELSE (A * C) % N

\* Quotient and remainder recompose the numerator and the remainder is below
\* the divisor, whatever digit guesses had to be corrected on the way; signed
\* division rounds to zero, modular sums and products never wrap before they
\* are reduced, and division by zero yields zero.
DivisionsRight ==
    /\ ModularRight
    /\ Asked({"DIV", "MOD"}) /\ C # 0 =>
          LET r == UDivRem(4, A, C)
          IN  r.quot * C + r.rem = A /\ r.rem < C /\ last.result = (IF Asked({"DIV"}) THEN A \div C ELSE A % C)
    /\ Asked({"SDIV"}) /\ C # 0 =>
          LET q == Magnitude(Signed(A)) \div Magnitude(Signed(C))
          IN  last.result = (IF (Signed(A) < 0) = (Signed(C) < 0) THEN q ELSE -q) % Size(4)
    /\ Asked({"SMOD"}) /\ C # 0 =>
          LET r == Magnitude(Signed(A)) % Magnitude(Signed(C))
          IN  last.result = (IF Signed(A) < 0 THEN -r ELSE r) % Size(4)
    /\ Asked({"DIV"}) /\ C % Size(2) # 0 =>
          UDivRem128(A % Size(2), C % Size(2)) =
              [quot |-> (A % Size(2)) \div (C % Size(2)), rem |-> (A % Size(2)) % (C % Size(2))]
    /\ Asked({"DIV", "MOD", "SDIV", "SMOD"}) /\ C = 0 => last.result = 0

\* Shifts move bits between the halves without losing or inventing one, for
\* every amount from zero to beyond the width.
ShiftsRight ==
    /\ Asked({"SHL"}) => last.result = (IF A >= Bits THEN 0 ELSE (C * TwoTo[A]) % Size(4))
    /\ Asked({"SHL"}) /\ A < Bits => last.result = ShlLoop(4, C, A)
    /\ Asked({"SHR"}) => last.result = (IF A >= Bits THEN 0 ELSE C \div TwoTo[A])
    /\ Asked({"SAR"}) => last.result = (IF A >= Bits THEN (IF Signed(C) < 0 THEN -1 ELSE 0)
                                        ELSE Signed(C) \div TwoTo[A]) % Size(4)
    /\ Asked({"BYTE"}) => last.result = (IF A >= Bytes THEN 0
                                         ELSE (C \div TwoTo[ByteBits * (Bytes - 1 - A)]) % TwoTo[ByteBits])
    /\ Asked({"SIGNEXTEND"}) =>
          LET w == TwoTo[(A + 1) * ByteBits]
              low == C % w
          IN  last.result = (IF A >= Bytes - 1 THEN C
                             ELSE IF 2 * low >= w THEN low - w ELSE low) % Size(4)

\* Every bit that a sum carries, or a shift moves, from one half to the other
\* arrives there once: intx::uint128 and uint256, operators + - < << >>.
CarriesRight == SumsRight /\ ShiftsRight
=============================================================================
