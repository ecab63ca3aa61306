----------------------------- MODULE NumberFormat ------------------------------
(***************************************************************************)
(* The texts of numbers (builtins/number-format.js and the radix of         *)
(* Number.prototype.toString in builtins/primitive-wrappers.js).  A finite  *)
(* number is exactly negative or not, m and b, for m * 2^b; a text is a     *)
(* sequence of digits and the marks below.  A behaviour asks for the texts  *)
(* of a number with more and more digits.                                  *)
(***************************************************************************)
EXTENDS Integers, Sequences, SequencesExt

CONSTANTS Numbers,           \* the numbers: [kind, negative, m, b]
          Radices,           \* the radices asked for, powers of two
          MaxDigits,         \* how many digits are asked for
          FractionBits,      \* of the significand: 52 in the code
          LimbDigits,        \* decimal digits in a limb: 7 in the code
          FixedLimit,        \* the power of ten that toFixed leaves to the host: 21 in the code
          SmallLimit         \* zeros after which toPrecision uses an exponent: 6 in the code

VARIABLES number, digits

Point == 100
Mark == 101      \* the letter e
Plus == 102
Minus == 103
NaN == <<104>>
Infinity == <<105>>
HostText == <<106>>   \* what String(number) is
RangeError == <<107>>
Zeros(n) == [i \in 1..n |-> 0]
Signed(negative, text) == IF negative THEN <<Minus>> \o text ELSE text

(***************************************************************************)
(* Integers as limbs of LimbDigits decimal digits, the lowest first.       *)
(***************************************************************************)
LimbBase == 10 ^ LimbDigits
Width(n, radix) == CHOOSE w \in 1..32 : n < radix ^ w
IntegerToDigits(n, radix) == [i \in 1..Width(n, radix) |-> (n \div radix ^ (Width(n, radix) - i)) % radix]
LimbsFromInteger(n) == Reverse(IntegerToDigits(n, LimbBase))

Carried(limbs, carry) == IF carry = 0 THEN limbs ELSE limbs \o LimbsFromInteger(carry)
Product(limbs, factor) ==
    LET carry[i \in 0..Len(limbs)] == IF i = 0 THEN 0 ELSE (limbs[i] * factor + carry[i - 1]) \div LimbBase
    IN  Carried([i \in 1..Len(limbs) |-> (limbs[i] * factor + carry[i - 1]) % LimbBase], carry[Len(limbs)])
MultiplyLimbs(limbs, factor, times) ==
    LET power[n \in 0..times] == IF n = 0 THEN limbs ELSE Product(power[n - 1], factor)
    IN  power[times]

Padded(text, width) == Zeros(width - Len(text)) \o text
LimbsToDecimal(limbs) ==
    IntegerToDigits(limbs[Len(limbs)], 10)
    \o FlattenSeq([i \in 1..(Len(limbs) - 1) |-> Padded(IntegerToDigits(limbs[Len(limbs) - i], 10), LimbDigits)])

StripTrailingZeros(text) ==
    SubSeq(text, 1, CHOOSE end \in 1..Len(text) :
                        /\ \A i \in (end + 1)..Len(text) : text[i] = 0
                        /\ end > 1 => text[end] # 0)

(***************************************************************************)
(* The exact decimal digits of m * 2^b, m > 0, and the power of ten of the  *)
(* first.                                                                  *)
(***************************************************************************)
Log2(m) == CHOOSE e \in 0..FractionBits : 2 ^ e <= m /\ m < 2 ^ (e + 1)
ScaledLimbs(m, binary) ==
    IF binary >= 0 THEN MultiplyLimbs(LimbsFromInteger(m), 2, binary) ELSE MultiplyLimbs(LimbsFromInteger(m), 5, -binary)
Decimal(text, tenScale) == [digits |-> StripTrailingZeros(text), exponent |-> Len(text) - 1 - tenScale]
FromLimbs(limbs, binary) == Decimal(LimbsToDecimal(limbs), IF binary < 0 THEN -binary ELSE 0)
FromBinary(m, binary) == FromLimbs(ScaledLimbs(m, binary), binary)
\* The significand is scaled to 1..2 and then to an integer of FractionBits.
ExactDecimal(m, b) == FromBinary(m * 2 ^ (FractionBits - Log2(m)), b - (FractionBits - Log2(m)))

(***************************************************************************)
(* Rounding.                                                               *)
(***************************************************************************)
IncrementDigits(text) ==
    IF \A i \in 1..Len(text) : text[i] = 9 THEN <<1>> \o Zeros(Len(text))
    ELSE LET index == CHOOSE i \in 1..Len(text) : text[i] # 9 /\ \A j \in (i + 1)..Len(text) : text[j] = 9
         IN  [i \in 1..Len(text) |-> IF i < index THEN text[i] ELSE IF i = index THEN text[i] + 1 ELSE 0]

Incremented(text, exponent, precision) ==
    [digits |-> SubSeq(text, 1, precision), exponent |-> IF Len(text) > precision THEN exponent + 1 ELSE exponent]
RoundDigits(text, exponent, precision) ==
    IF Len(text) <= precision THEN [digits |-> text \o Zeros(precision - Len(text)), exponent |-> exponent]
    ELSE IF text[precision + 1] < 5 THEN [digits |-> SubSeq(text, 1, precision), exponent |-> exponent]
    ELSE Incremented(IncrementDigits(SubSeq(text, 1, precision)), exponent, precision)

RoundExact(exact, precision) == RoundDigits(exact.digits, exact.exponent, precision)
RoundToSignificantDigits(x, precision) == RoundExact(ExactDecimal(x.m, x.b), precision)

WithZeros(rounded, f) == rounded.digits \o Zeros(rounded.exponent + f + 1 - Len(rounded.digits))
FixedExact(exact, f) ==
    IF exact.exponent + f + 1 > 0 THEN WithZeros(RoundExact(exact, exact.exponent + f + 1), f)
    ELSE IF exact.exponent + f + 1 = 0 /\ exact.digits[1] >= 5 THEN <<1>> ELSE <<0>>
FixedPointDigits(x, f) == IF x.m = 0 THEN <<0>> ELSE FixedExact(ExactDecimal(x.m, x.b), f)

(***************************************************************************)
(* Texts.                                                                  *)
(***************************************************************************)
Whole(x) == IF x.b >= 0 THEN x.m * 2 ^ x.b ELSE x.m \div 2 ^ (-x.b)
Negative(x) == x.negative /\ x.m # 0
PointAfter(text, n) == SubSeq(text, 1, n) \o <<Point>> \o SubSeq(text, n + 1, Len(text))
ExponentSuffix(e) == <<Mark, IF e < 0 THEN Minus ELSE Plus>> \o IntegerToDigits(IF e < 0 THEN -e ELSE e, 10)

Fixed(text, f) == IF f = 0 THEN text ELSE PointAfter(text, Len(text) - f)
NumberToFixed(x, f) ==
    IF f \notin 0..20 THEN RangeError
    ELSE IF x.kind = "NaN" THEN NaN
    ELSE IF x.kind = "Infinity" \/ Whole(x) >= 10 ^ FixedLimit THEN HostText
    ELSE Signed(Negative(x), Fixed(Padded(FixedPointDigits(x, f), IF Len(FixedPointDigits(x, f)) <= f THEN f + 1 ELSE Len(FixedPointDigits(x, f))), f))

\* The digits and exponent that the host's text of the number shows.
ShortestDecimal(mantissa, whole, scale) ==
    LET leading == CHOOSE i \in 1..Len(mantissa) :
                       /\ \A j \in 1..(i - 1) : mantissa[j] = 0
                       /\ i < Len(mantissa) => mantissa[i] # 0
    IN  [digits |-> StripTrailingZeros(SubSeq(mantissa, leading, Len(mantissa))), exponent |-> scale + whole - leading]

Exponential(rounded, fractionCount) ==
    (IF fractionCount # 0 THEN PointAfter(rounded.digits, 1) ELSE rounded.digits) \o ExponentSuffix(rounded.exponent)
NumberToExponential(x, f) ==
    IF x.kind = "NaN" THEN NaN
    ELSE IF x.kind = "Infinity" THEN Signed(x.negative, Infinity)
    ELSE IF f \notin 0..20 THEN RangeError
    ELSE Signed(Negative(x), Exponential(IF x.m = 0 THEN [digits |-> Zeros(f + 1), exponent |-> 0]
                                         ELSE RoundToSignificantDigits(x, f + 1), f))
ShortestExponential(shortest) == Exponential(shortest, Len(shortest.digits) - 1)

Precise(rounded, p) ==
    CASE rounded.exponent < -SmallLimit \/ rounded.exponent >= p -> Exponential(rounded, p - 1)
      [] rounded.exponent = p - 1 -> rounded.digits
      [] rounded.exponent \in 0..(p - 2) -> PointAfter(rounded.digits, rounded.exponent + 1)
      [] rounded.exponent \in -SmallLimit..-1 -> <<0, Point>> \o Zeros(-(rounded.exponent + 1)) \o rounded.digits
NumberToPrecision(x, p) ==
    IF x.kind = "NaN" THEN NaN
    ELSE IF x.kind = "Infinity" THEN Signed(x.negative, Infinity)
    ELSE IF p \notin 1..21 THEN RangeError
    ELSE Signed(Negative(x), Precise(IF x.m = 0 THEN [digits |-> Zeros(p), exponent |-> 0]
                                     ELSE RoundToSignificantDigits(x, p), p))

\* The digits of a fraction n / 2^k.
FractionDigits(n, k, radix) ==
    LET rest[i \in 0..k] == IF i = 0 THEN n ELSE (rest[i - 1] * radix) % 2 ^ k
    IN  [i \in 1..(CHOOSE c \in 0..k : rest[c] = 0) |-> (rest[i - 1] * radix) \div 2 ^ k]
NumberToStringRadix(x, radix) ==
    IF x.kind = "NaN" THEN NaN
    ELSE IF x.m = 0 THEN <<0>>
    ELSE IF x.kind = "Infinity" THEN Signed(x.negative, Infinity)
    ELSE IF radix = 10 THEN HostText
    ELSE Signed(x.negative,
                IntegerToDigits(Whole(x), radix)
                \o (IF x.b >= 0 \/ x.m % 2 ^ (-x.b) = 0 THEN <<>>
                    ELSE <<Point>> \o FractionDigits(x.m % 2 ^ (-x.b), -x.b, radix)))

(***************************************************************************)
(* Behaviours.                                                             *)
(***************************************************************************)
Init == number \in Numbers /\ digits = 0
MoreDigits == digits < MaxDigits /\ digits' = digits + 1 /\ UNCHANGED number
Next == MoreDigits
Spec == Init /\ [][Next]_<<number, digits>>

(***************************************************************************)
(* Properties.                                                             *)
(***************************************************************************)
\* What a text says: its whole and fractional digits and its exponent.
Before(text, mark) == IF \E i \in 1..Len(text) : text[i] = mark
                      THEN SubSeq(text, 1, (CHOOSE i \in 1..Len(text) : text[i] = mark) - 1) ELSE text
After(text, mark) == SubSeq(text, Len(Before(text, mark)) + 2, Len(text))
Value(ds, radix) ==
    LET value[i \in 0..Len(ds)] == IF i = 0 THEN 0 ELSE value[i - 1] * radix + ds[i]
    IN  value[Len(ds)]
Exponent(text) == IF text = <<>> THEN 0 ELSE (IF text[1] = Minus THEN -1 ELSE 1) * Value(Tail(text), 10)
Unsigned(text) == IF text[1] = Minus THEN Tail(text) ELSE text
Read(text, radix) ==
    LET mantissa == Before(Unsigned(text), Mark)
    IN  [negative |-> text[1] = Minus, whole |-> Before(mantissa, Point), fraction |-> After(mantissa, Point),
         n |-> Value(Before(mantissa, Point) \o After(mantissa, Point), radix),
         scaled |-> mantissa # Unsigned(text), exponent |-> Exponent(After(Unsigned(text), Mark))]
Pow(base, n) == IF n > 0 THEN base ^ n ELSE 1

\* n * 10^s is the multiple of 10^s that is nearest to the number, the larger
\* of two that are as near.
Nearest(n, s, x) ==
    \E a \in {n * Pow(10, s) * Pow(2, -x.b)}, v \in {x.m * Pow(2, x.b) * Pow(10, -s)}, unit \in {Pow(10, s) * Pow(2, -x.b)} :
        2 * (a - v) <= unit /\ 2 * (v - a) < unit
Plain(ds) == Len(ds) = 1 \/ (ds # <<>> /\ ds[1] # 0)

FixedIsNearest(r, x, f) ==
    r.negative = Negative(x) /\ ~r.scaled /\ Len(r.fraction) = f /\ Plain(r.whole) /\ Nearest(r.n, -f, x)
ExponentialIsNearest(r, x, f) ==
    /\ r.negative = Negative(x) /\ r.scaled /\ Len(r.fraction) = f /\ Len(r.whole) = 1
    /\ IF x.m = 0 THEN r.n = 0 /\ r.exponent = 0 ELSE r.whole # <<0>> /\ Nearest(r.n, r.exponent - f, x)
PrecisionIsNearest(r, x, p) ==
    /\ r.negative = Negative(x) /\ Plain(r.whole) /\ Nearest(r.n, r.exponent - Len(r.fraction), x)
    /\ x.m # 0 => r.n \in 10 ^ (p - 1)..(10 ^ p - 1) /\ (r.scaled <=> p - 1 - Len(r.fraction) + r.exponent \notin -SmallLimit..(p - 1))
ReadsBack(r, x, radix) ==
    /\ r.negative = Negative(x) /\ Plain(r.whole)
    /\ r.n * Pow(2, -x.b) = x.m * Pow(2, x.b) * radix ^ Len(r.fraction)

\* Each text shows the number, rounded to the digits that were asked for: with
\* exactly that many digits, the value they denote is nearest to the exact
\* binary value, the larger of two; a radix loses nothing, and the shortest
\* exponential form shows the digits the host's text has.
FormatsAreNearest ==
    number.kind = "finite" =>
        /\ \E text \in {NumberToFixed(number, digits)} :
              IF text = HostText THEN Whole(number) >= 10 ^ FixedLimit
              ELSE FixedIsNearest(Read(text, 10), number, digits)
        /\ ExponentialIsNearest(Read(NumberToExponential(number, digits), 10), number, digits)
        /\ digits > 0 => PrecisionIsNearest(Read(NumberToPrecision(number, digits), 10), number, digits)
        /\ \A radix \in Radices : digits = 0 => ReadsBack(Read(NumberToStringRadix(number, radix), radix), number, radix)
        /\ digits = 0 /\ number.m # 0 =>
              \A exact \in {ExactDecimal(number.m, number.b)} :
                  \A leading \in 0..2 : \A trailing \in 0..2 :
                      LET shown == Read(ShortestExponential(ShortestDecimal(Zeros(leading) \o exact.digits \o Zeros(trailing),
                                                                            leading + 1, exact.exponent)), 10)
                      IN  shown.whole \o shown.fraction = exact.digits /\ shown.exponent = exact.exponent
================================================================================
