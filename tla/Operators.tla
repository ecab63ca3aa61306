------------------------------- MODULE Operators -------------------------------
(***************************************************************************)
(* Operators and the conversions of their operands (runtime/operators.js,   *)
(* runtime/conversion.js and [[DefaultValue]] in runtime/object.js): which  *)
(* methods of guest objects run, in which order, and what comes of it.      *)
(*                                                                         *)
(* A value is <<type, data>>: a Number is the integer n as <<n>>, or NaN    *)
(* or an Infinity (fractions are left out, and -0 is 0); a String is its    *)
(* code units, a word that conversions know being one unit; an Object is    *)
(* <<o>>.  A program applies operators to a value, again and again.         *)
(***************************************************************************)
EXTENDS Integers, Sequences

CONSTANTS Objects,     \* [o |-> [exotic, valueOf, toString]]: each method is <<"missing">>, <<"uncallable">>,
                       \* <<"throws">> or <<"returns", value>>
          Values,      \* the values programs begin with and apply operators to
          WordBits,    \* of the integers of bit operators: 32 in the code; a power of two
          MaxNumber, MaxUnits   \* bounds of the numbers and texts that operators give

VARIABLE value   \* of the program

Undefined == <<"Undefined", <<>>>>
Null == <<"Null", <<>>>>
Boolean(b) == <<"Boolean", <<IF b THEN 1 ELSE 0>>>>
Number(n) == <<"Number", <<n>>>>
NaN == <<"Number", <<0, 0>>>>
Infinity(sign) == <<"Number", <<sign, 1>>>>
Text(units) == <<"String", units>>
Finite(v) == Len(v[2]) = 1

\* Code units, and the words that are one.
Space == 32
PlusSign == 43
MinusSign == 45
InfinityWord == 200
Words == [Undefined |-> 201, Null |-> 202]
TrueWord == 203
FalseWord == 204
NaNWord == 205

(***************************************************************************)
(* Results of operations that may run guest code: the methods they called,  *)
(* <<object, method, hint>>, and how they ended: with a value, with what a  *)
(* method threw ("guest") or with a TypeError.                             *)
(***************************************************************************)
Result(v) == [calls |-> <<>>, out |-> "value", value |-> v]
Thrown(kind) == [calls |-> <<>>, out |-> kind, value |-> Undefined]
Prefixed(before, r) == [r EXCEPT !.calls = before \o @]

(***************************************************************************)
(* Conversion to primitive values.                                         *)
(***************************************************************************)
IsObject(v) == v[1] = "Object"
Call(o, name, hint) ==
    [calls |-> <<<<o, name, hint>>>>, out |-> IF Objects[o][name][1] = "throws" THEN "guest" ELSE "value",
     value |-> IF Objects[o][name][1] = "returns" THEN Objects[o][name][2] ELSE Undefined]
Callable(o, name) == Objects[o][name][1] \in {"returns", "throws"}

Answered(r) == r.out # "value" \/ ~IsObject(r.value)
Second(o, name, before) == IF ~Callable(o, name) THEN Prefixed(before, Thrown("TypeError"))
                           ELSE Prefixed(before, Call(o, name, ""))
Checked(r) == IF Answered(r) THEN r ELSE Prefixed(r.calls, Thrown("TypeError"))
OrSecond(o, r, name) == IF Answered(r) THEN r ELSE Checked(Second(o, name, r.calls))
TryBoth(o, first, second) ==
    IF Callable(o, first) THEN OrSecond(o, Call(o, first, ""), second) ELSE Checked(Second(o, second, <<>>))
DefaultValue(o, hint) == IF hint = "string" THEN TryBoth(o, "toString", "valueOf") ELSE TryBoth(o, "valueOf", "toString")

ExoticOrDefault(o, hint) ==
    CASE Objects[o].exotic[1] = "missing" -> DefaultValue(o, hint)
      [] Objects[o].exotic[1] = "uncallable" -> Thrown("TypeError")
      [] OTHER -> Checked(Call(o, "exotic", hint))
ToPrimitive(v, hint) == IF IsObject(v) THEN ExoticOrDefault(v[2][1], hint) ELSE Result(v)

(***************************************************************************)
(* Conversions of primitive values: none for what throws a TypeError.      *)
(***************************************************************************)
Decimals == 48..57
Hexadecimals == Decimals \cup 97..102
HexValue(u) == IF u \in Decimals THEN u - 48 ELSE u - 87
DigitsValue(ds, radix) ==
    LET digits[i \in 0..Len(ds)] == IF i = 0 THEN 0 ELSE digits[i - 1] * radix + HexValue(ds[i])
    IN  digits[Len(ds)]
All(units, class) == units # <<>> /\ \A i \in 1..Len(units) : units[i] \in class

Trimmed(units) ==
    IF \A i \in 1..Len(units) : units[i] = Space THEN <<>>
    ELSE SubSeq(units, CHOOSE i \in 1..Len(units) : units[i] # Space /\ \A j \in 1..(i - 1) : units[j] = Space,
                CHOOSE i \in 1..Len(units) : units[i] # Space /\ \A j \in (i + 1)..Len(units) : units[j] = Space)
Magnitude(sign, units) ==
    IF units = <<InfinityWord>> THEN Infinity(sign)
    ELSE IF All(units, Decimals) THEN Number(sign * DigitsValue(units, 10))
    ELSE NaN
TrimmedToNumber(units) ==
    CASE units = <<>> -> Number(0)
      [] Len(units) > 2 /\ SubSeq(units, 1, 2) = <<48, 120>> /\ All(SubSeq(units, 3, Len(units)), Hexadecimals) ->
           Number(DigitsValue(SubSeq(units, 3, Len(units)), 16))
      [] units # <<>> /\ units[1] = MinusSign -> Magnitude(-1, Tail(units))
      [] units # <<>> /\ units[1] = PlusSign -> Magnitude(1, Tail(units))
      [] OTHER -> Magnitude(1, units)

PrimitiveToNumber(v) ==
    CASE v[1] = "Undefined" -> {NaN}
      [] v[1] = "Null" -> {Number(0)}
      [] v[1] = "Boolean" -> {Number(v[2][1])}
      [] v[1] = "Number" -> {v}
      [] v[1] = "String" -> {TrimmedToNumber(Trimmed(v[2]))}
      [] v[1] = "Symbol" -> {}
DecimalDigits(n) ==
    LET width == CHOOSE w \in 1..9 : n < 10 ^ w IN [i \in 1..width |-> 48 + ((n \div 10 ^ (width - i)) % 10)]
NumberText(v) ==
    CASE v = NaN -> <<NaNWord>>
      [] v = Infinity(1) -> <<InfinityWord>>
      [] v = Infinity(-1) -> <<MinusSign, InfinityWord>>
      [] Finite(v) -> IF v[2][1] < 0 THEN <<MinusSign>> \o DecimalDigits(-v[2][1]) ELSE DecimalDigits(v[2][1])
PrimitiveToString(v) ==
    CASE v[1] \in {"Undefined", "Null"} -> {<<Words[v[1]]>>}
      [] v[1] = "Boolean" -> {<<IF v[2][1] = 1 THEN TrueWord ELSE FalseWord>>}
      [] v[1] = "Number" -> {NumberText(v)}
      [] v[1] = "String" -> {v[2]}
      [] v[1] = "Symbol" -> {}
ToBoolean(v) ==
    CASE v[1] \in {"Undefined", "Null"} -> FALSE
      [] v[1] \in {"Boolean", "Number"} -> v[2] # <<0>> /\ v # NaN
      [] v[1] = "String" -> v[2] # <<>>
      [] OTHER -> TRUE

NumberOf(r) ==
    IF r.out # "value" THEN r
    ELSE IF PrimitiveToNumber(r.value) = {} THEN [r EXCEPT !.out = "TypeError"]
    ELSE [r EXCEPT !.value = CHOOSE n \in PrimitiveToNumber(r.value) : TRUE]
ToNumber(v) == NumberOf(ToPrimitive(v, "number"))

\* Two operands, one after the other: the second is not converted when the
\* conversion of the first throws.
Pair(first, second) ==
    IF first.out # "value" THEN [calls |-> first.calls, out |-> first.out, value |-> <<>>]
    ELSE [calls |-> first.calls \o second.calls, out |-> second.out, value |-> <<first.value, second.value>>]
Swapped(r) == IF r.out # "value" THEN r ELSE [r EXCEPT !.value = <<r.value[2], r.value[1]>>]

(***************************************************************************)
(* Equality.                                                               *)
(***************************************************************************)
StrictEqualityComparison(l, r) == l = r /\ l # NaN

\* One step of the abstract comparison: an answer, or the operands again with
\* one converted.
Pending(l, r) == [calls |-> <<>>, out |-> "pending", value |-> <<l, r>>]
Left(converted, r) == IF converted.out # "value" THEN converted ELSE [converted EXCEPT !.out = "pending", !.value = <<converted.value, r>>]
Right(l, converted) == IF converted.out # "value" THEN converted ELSE [converted EXCEPT !.out = "pending", !.value = <<l, converted.value>>]
EqualityStep(l, r) ==
    CASE l[1] = r[1] -> Result(Boolean(StrictEqualityComparison(l, r)))
      [] l[1] # r[1] /\ {l[1], r[1]} = {"Null", "Undefined"} -> Result(Boolean(TRUE))
      [] l[1] = "Number" /\ r[1] = "String" -> Right(l, ToNumber(r))
      [] l[1] = "String" /\ r[1] = "Number" -> Left(ToNumber(l), r)
      [] l[1] = "Boolean" /\ r[1] # "Boolean" -> Left(ToNumber(l), r)
      [] l[1] # "Boolean" /\ r[1] = "Boolean" -> Right(l, ToNumber(r))
      [] l[1] \in {"String", "Number", "Symbol"} /\ IsObject(r) -> Right(l, ToPrimitive(r, "default"))
      [] IsObject(l) /\ r[1] \in {"String", "Number", "Symbol"} -> Left(ToPrimitive(l, "default"), r)
      [] OTHER -> Result(Boolean(FALSE))
Step(p) == IF p.out # "pending" THEN p ELSE Prefixed(p.calls, EqualityStep(p.value[1], p.value[2]))
AbstractEqualityComparison(l, r) ==
    LET after[n \in 0..5] == IF n = 0 THEN Pending(l, r) ELSE Step(after[n - 1])
    IN  after[5]

(***************************************************************************)
(* Order.                                                                  *)
(***************************************************************************)
TextLess(s, t) ==
    \/ Len(s) < Len(t) /\ SubSeq(t, 1, Len(s)) = s
    \/ \E i \in 1..Len(s) : i <= Len(t) /\ s[i] < t[i] /\ SubSeq(s, 1, i - 1) = SubSeq(t, 1, i - 1)
NumberLess(m, n) ==
    CASE Finite(m) /\ Finite(n) -> m[2][1] < n[2][1]
      [] OTHER -> m # n /\ (m = Infinity(-1) \/ n = Infinity(1))

\* Undefined where a number is NaN.
Compared(m, n) == IF NaN \in {m, n} THEN Undefined ELSE Boolean(NumberLess(m, n))
Less(p) ==
    IF p.out # "value" THEN p
    ELSE IF p.value[1][1] = "String" /\ p.value[2][1] = "String"
    THEN [p EXCEPT !.value = Boolean(TextLess(p.value[1][2], p.value[2][2]))]
    ELSE IF \E i \in 1..2 : PrimitiveToNumber(p.value[i]) = {} THEN [p EXCEPT !.out = "TypeError"]
    ELSE [p EXCEPT !.value = Compared(CHOOSE n \in PrimitiveToNumber(p.value[1]) : TRUE, CHOOSE n \in PrimitiveToNumber(p.value[2]) : TRUE)]
LeftToRight(l, r, leftFirst) ==  \* mutant: always the first argument first
    Less(Pair(ToPrimitive(l, "number"), ToPrimitive(r, "number")))
AbstractRelationalComparison(l, r, leftFirst) ==
    IF leftFirst THEN Less(Pair(ToPrimitive(l, "number"), ToPrimitive(r, "number")))
    ELSE Less(Swapped(Pair(ToPrimitive(r, "number"), ToPrimitive(l, "number"))))

TrueOnly(r) == IF r.out = "value" /\ r.value = Undefined THEN [r EXCEPT !.value = Boolean(FALSE)] ELSE r
Not(r) == IF r.out = "value" THEN [r EXCEPT !.value = Boolean(r.value = Boolean(FALSE))] ELSE r

(***************************************************************************)
(* Arithmetic and bits.                                                    *)
(***************************************************************************)
Sum(m, n) ==
    CASE Finite(m) /\ Finite(n) -> Number(m[2][1] + n[2][1])
      [] NaN \in {m, n} \/ (~Finite(m) /\ ~Finite(n) /\ m # n) -> NaN
      [] OTHER -> IF Finite(m) THEN n ELSE m
Negated(n) == IF n = NaN THEN NaN ELSE IF Finite(n) THEN Number(-n[2][1]) ELSE Infinity(-n[2][1])
Concatenated(p) ==
    IF \E i \in 1..2 : PrimitiveToString(p.value[i]) = {} THEN [p EXCEPT !.out = "TypeError"]
    ELSE [p EXCEPT !.value = Text((CHOOSE t \in PrimitiveToString(p.value[1]) : TRUE) \o (CHOOSE t \in PrimitiveToString(p.value[2]) : TRUE))]
Added(p) ==
    IF \E i \in 1..2 : PrimitiveToNumber(p.value[i]) = {} THEN [p EXCEPT !.out = "TypeError"]
    ELSE [p EXCEPT !.value = Sum(CHOOSE n \in PrimitiveToNumber(p.value[1]) : TRUE, CHOOSE n \in PrimitiveToNumber(p.value[2]) : TRUE)]
SumOrText(p) ==
    IF p.out # "value" THEN p
    ELSE IF "String" \in {p.value[1][1], p.value[2][1]} THEN Concatenated(p) ELSE Added(p)
Add(l, r) == SumOrText(Pair(ToPrimitive(l, "default"), ToPrimitive(r, "default")))

Word == 2 ^ WordBits
ToUint(n) == IF Finite(n) THEN n[2][1] % Word ELSE 0
Wrapped(u) == IF u >= Word \div 2 THEN u - Word ELSE u
ToInt(n) == Wrapped(ToUint(n))
Bit(u, i) == (u \div 2 ^ i) % 2
Bits(u, w, op) ==
    LET below[i \in 0..WordBits] ==
            IF i = 0 THEN 0
            ELSE below[i - 1] + 2 ^ (i - 1) *
                 (CASE op = "&" -> Bit(u, i - 1) * Bit(w, i - 1)
                    [] op = "^" -> (Bit(u, i - 1) + Bit(w, i - 1)) % 2
                    [] op = "|" -> IF Bit(u, i - 1) + Bit(w, i - 1) > 0 THEN 1 ELSE 0)
    IN  below[WordBits]
ShiftCount(n) == ToUint(n) % WordBits
Arithmetic(op, m, n) ==
    CASE op = "-" -> Sum(m, Negated(n))
      [] op \in {"&", "^", "|"} -> Number(Wrapped(Bits(ToUint(m), ToUint(n), op)))
      [] op = "<<" -> Number(Wrapped((ToUint(m) * 2 ^ ShiftCount(n)) % Word))
      [] op = ">>" -> Number(ToInt(m) \div 2 ^ ShiftCount(n))
      [] op = ">>>" -> Number(ToUint(m) \div 2 ^ ShiftCount(n))
Computed(op, p) == IF p.out # "value" THEN p ELSE [p EXCEPT !.value = Arithmetic(op, p.value[1], p.value[2])]

ArithmeticOperators == {"-", "&", "^", "|", "<<", ">>", ">>>"}
BinaryOperators == ArithmeticOperators \cup {"+", "==", "!=", "===", "!==", "<", ">", "<=", ">="}
ApplyBinaryOperator(op, l, r) ==
    CASE op = "+" -> Add(l, r)
      [] op = "==" -> AbstractEqualityComparison(l, r)
      [] op = "!=" -> Not(AbstractEqualityComparison(l, r))
      [] op = "===" -> Result(Boolean(StrictEqualityComparison(l, r)))
      [] op = "!==" -> Not(Result(Boolean(StrictEqualityComparison(l, r))))
      [] op = "<" -> TrueOnly(AbstractRelationalComparison(l, r, TRUE))
      [] op = ">" -> TrueOnly(AbstractRelationalComparison(r, l, FALSE))
      [] op = "<=" -> Not(AbstractRelationalComparison(r, l, FALSE))
      [] op = ">=" -> Not(AbstractRelationalComparison(l, r, TRUE))
      [] OTHER -> Computed(op, Pair(ToNumber(l), ToNumber(r)))

UnaryOperators == {"!", "-", "+", "~"}
OfNumber(op, r) ==
    IF r.out # "value" \/ op = "+" THEN r
    ELSE [r EXCEPT !.value = IF op = "-" THEN Negated(@) ELSE Number(-ToInt(@) - 1)]
ApplyUnaryOperator(op, v) == IF op = "!" THEN Result(Boolean(~ToBoolean(v))) ELSE OfNumber(op, ToNumber(v))

(***************************************************************************)
(* Behaviours.                                                             *)
(***************************************************************************)
Bounded(v) ==
    CASE v[1] = "Number" -> v[2][1] \in -MaxNumber..MaxNumber
      [] v[1] = "String" -> Len(v[2]) <= MaxUnits
      [] OTHER -> TRUE
\* What throws leaves the value as it was.
Become(r) == r.out = "value" /\ Bounded(r.value) /\ value' = r.value

Init == value \in Values
Binary(op, r) == \E result \in {ApplyBinaryOperator(op, value, r)} : Become(result)
Unary(op) == \E result \in {ApplyUnaryOperator(op, value)} : Become(result)
Next ==
    \/ \E op \in BinaryOperators, r \in Values : Binary(op, r)
    \/ \E op \in UnaryOperators : Unary(op)
Spec == Init /\ [][Next]_value

(***************************************************************************)
(* Properties.                                                             *)
(***************************************************************************)
Hints == [o \in BinaryOperators |-> IF o \in {"+", "==", "!="} THEN "default" ELSE "number"]

\* Whichever way an operator is written, its left operand is converted before
\* its right one, each at most once and with the operator's hint, and the
\* right one only when the left one gave a value.
OperandsConvertInOrder ==
    \A op \in BinaryOperators, r \in Values :
        \A result \in {ApplyBinaryOperator(op, value, r)} :
            /\ value # r =>
                  /\ \A i, j \in 1..Len(result.calls) :
                        <<result.calls[i][1]>> = r[2] /\ IsObject(r) /\ IsObject(value) /\ <<result.calls[j][1]>> = value[2] => j < i
                  /\ \A i, j \in 1..Len(result.calls) : i < j => result.calls[i] # result.calls[j]
            /\ \A i \in 1..Len(result.calls) : result.calls[i][2] = "exotic" => result.calls[i][3] = Hints[op]
            /\ result.out = "guest" => Objects[result.calls[Len(result.calls)][1]][result.calls[Len(result.calls)][2]][1] = "throws"
            /\ \A i \in 1..(Len(result.calls) - 1) : Objects[result.calls[i][1]][result.calls[i][2]][1] # "throws"

True(r) == r.value = Boolean(TRUE)
\* The results of every operator, and with the operands swapped.
Results(l, r) == [op \in BinaryOperators |-> ApplyBinaryOperator(op, l, r)]
\* The comparisons agree with each other: equality is symmetric and no more
\* strict than ===, != and !== are opposites, an order seen from the other
\* side is the same, strict orders exclude each other, and the orders with
\* equality are those without, or equality where the operands are both numbers
\* or both texts.
ComparisonsAgree(l, r, of, swapped) ==
    /\ of["=="] = swapped["=="]
    /\ True(of["==="]) => True(of["=="])
    /\ True(of["==="]) # True(of["!=="])
    /\ of["<"].out = "value" /\ swapped[">"].out = "value" =>
          /\ True(of["<"]) = True(swapped[">"])
          /\ True(of["<="]) = True(swapped[">="])
          /\ ~(True(of["<"]) /\ True(of[">"]))
          /\ True(of["<"]) => True(of["<="])
          /\ l[1] = r[1] /\ l[1] \in {"Number", "String"} =>
                (True(of["<="]) <=> True(of["<"]) \/ True(of["=="]))

\* The bit operators wrap at the width of a word, however large the operands.
WordsWrap(m, n, word) ==
    /\ \A op \in {"&", "|", "^", "<<", ">>"} : word[op] \in -(Word \div 2)..(Word \div 2 - 1)
    /\ (word["&"] + word["|"] - m - n) % Word = 0
    /\ (word["^"] - word["|"] + word["&"]) % Word = 0
    /\ word[">>>"] \in 0..(Word - 1)
    /\ n % WordBits = 0 => (word[">>>"] - m) % Word = 0 /\ word["<<"] = word[">>"] /\ (word["<<"] - m) % Word = 0
    /\ n % WordBits = 1 => (word["<<"] - 2 * m) % Word = 0 /\ word[">>>"] = (m % Word) \div 2
    /\ n % WordBits = 1 /\ m \in -(Word \div 2)..(Word \div 2 - 1) => word[">>"] = m \div 2
OperatorsAgree ==
    \A r \in Values : \A of \in {Results(value, r)}, swapped \in {Results(r, value)} :
        /\ ComparisonsAgree(value, r, of, swapped)
        /\ value[1] = "Number" /\ r[1] = "Number" /\ Finite(value) /\ Finite(r) =>
              WordsWrap(value[2][1], r[2][1], [op \in ArithmeticOperators |-> of[op].value[2][1]])
================================================================================
