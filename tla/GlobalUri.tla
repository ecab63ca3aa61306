------------------------------- MODULE GlobalUri -------------------------------
(***************************************************************************)
(* The six global functions that encode and decode texts                   *)
(* (builtins/global-uri.js), on the code units of the text: encodeURI,     *)
(* encodeURIComponent, decodeURI, decodeURIComponent, escape and unescape. *)
(* A behaviour writes a text unit by unit, or the octets of a text of      *)
(* percent escapes.                                                        *)
(***************************************************************************)
EXTENDS Integers, Sequences, FiniteSets

CONSTANTS UriUnits,    \* the code units texts are written with
          UriOctets,   \* the octets escapes are written with
          MaxUnits,    \* the length of a text
          MaxOctets    \* the number of escapes

VARIABLES units, octets

(***************************************************************************)
(* Classes of code units.                                                  *)
(***************************************************************************)
Percent == 37
LowercaseU == 117
NumberSign == 35
UriReserved == {59, 47, 63, 58, 64, 38, 61, 43, 36, 44}
UriMark == {45, 95, 46, 33, 126, 42, 39, 40, 41}
EscapePreserved == {64, 42, 95, 43, 45, 46, 47}
IsAsciiAlphanumeric(c) == c \in 65..90 \/ c \in 97..122 \/ c \in 48..57
IsLeadingSurrogate(c) == c \in 55296..56319
IsTrailingSurrogate(c) == c \in 56320..57343

(***************************************************************************)
(* Hexadecimal digits.                                                     *)
(***************************************************************************)
HexDigitValue(c) ==
    CASE c \in 48..57 -> c - 48
      [] c \in 65..70 -> c - 55
      [] c \in 97..102 -> c - 87
      [] OTHER -> -1
HexDigit(n) == IF n < 10 THEN 48 + n ELSE 55 + n
ToHexDigits(value, width) == [k \in 1..width |-> HexDigit((value \div 16^(width - k)) % 16)]
\* -1 when the two units after the place i are missing or are no digits.
ReadHexPair(v, i) ==
    IF i + 2 > Len(v) \/ HexDigitValue(v[i + 1]) < 0 \/ HexDigitValue(v[i + 2]) < 0
    THEN -1
    ELSE HexDigitValue(v[i + 1]) * 16 + HexDigitValue(v[i + 2])

\* What a function throws a URIError for, and what it has written otherwise.
Malformed == <<-1>>
Before(written, rest) == IF Malformed \in {written, rest} THEN Malformed ELSE written \o rest

(***************************************************************************)
(* UTF-8.                                                                  *)
(***************************************************************************)
Supplementary == 65536
CodePoint(leading, trailing) == (leading - 55296) * 1024 + (trailing - 56320) + Supplementary
Continuation(bits) == 128 + (bits % 64)
Utf8OctetsOf(cp) ==
    CASE cp <= 127 -> <<cp>>
      [] cp \in 128..2047 -> <<192 + cp \div 64, Continuation(cp)>>
      [] cp \in 2048..65535 -> <<224 + cp \div 4096, Continuation(cp \div 64), Continuation(cp)>>
      [] cp >= Supplementary ->
           <<240 + cp \div 262144, Continuation(cp \div 4096), Continuation(cp \div 64), Continuation(cp)>>

Utf8SequenceLength(octet) ==
    CASE octet <= 127 -> 1
      [] octet \in 192..223 -> 2
      [] octet \in 224..239 -> 3
      [] octet \in 240..247 -> 4
      [] OTHER -> -1

LeadingBits == <<128, 32, 16, 8>>
Utf8MinimumCodePoint == <<0, 128, 2048, 65536>>
BitsOf(os) ==
    LET bits[k \in 1..Len(os)] ==
            IF k = 1 THEN os[1] % LeadingBits[Len(os)] ELSE bits[k - 1] * 64 + (os[k] % 64)
    IN  bits[Len(os)]
AnyCodePoint(os) == IF BitsOf(os) > 1114111 \/ IsLeadingSurrogate(BitsOf(os)) \/ IsTrailingSurrogate(BitsOf(os)) THEN -1 ELSE BitsOf(os)  \* mutant: overlong sequences pass
CodePointOfUtf8(os) ==
    IF \/ BitsOf(os) < Utf8MinimumCodePoint[Len(os)]
       \/ BitsOf(os) > 1114111
       \/ IsLeadingSurrogate(BitsOf(os)) \/ IsTrailingSurrogate(BitsOf(os))
    THEN -1
    ELSE BitsOf(os)
UnitsOf(cp) ==
    CASE cp < 0 -> Malformed
      [] cp \in 0..(Supplementary - 1) -> <<cp>>
      [] cp >= Supplementary ->
           <<55296 + (((cp - Supplementary) \div 1024) % 1024), 56320 + ((cp - Supplementary) % 1024)>>

(***************************************************************************)
(* Encoding.                                                               *)
(***************************************************************************)
EncodeURIPreserved == UriReserved \cup UriMark \cup {NumberSign}
EncodeURIComponentPreserved == UriMark

Escapes(os) == [k \in 1..(3 * Len(os)) |->
    LET o == os[(k + 2) \div 3]
    IN  IF k % 3 = 1 THEN Percent ELSE ToHexDigits(o, 2)[IF k % 3 = 2 THEN 1 ELSE 2]]

Encode(v, preserved) ==
    LET from[i \in 1..(Len(v) + 2)] ==
            LET pairs == i < Len(v) /\ IsTrailingSurrogate(v[i + 1])
            IN  CASE i > Len(v) -> <<>>
                  [] i <= Len(v) /\ (v[i] \in preserved \/ IsAsciiAlphanumeric(v[i])) ->
                       Before(<<v[i]>>, from[i + 1])
                  [] i <= Len(v) /\ IsLeadingSurrogate(v[i]) /\ pairs ->
                       Before(Escapes(Utf8OctetsOf(CodePoint(v[i], v[i + 1]))), from[i + 2])
                  [] i <= Len(v) /\ (IsTrailingSurrogate(v[i]) \/ (IsLeadingSurrogate(v[i]) /\ ~pairs)) ->
                       Malformed
                  [] OTHER -> Before(Escapes(Utf8OctetsOf(v[i])), from[i + 1])
    IN  from[1]

(***************************************************************************)
(* Decoding.                                                               *)
(***************************************************************************)
DecodeURIReserved == UriReserved \cup {NumberSign}
DecodeURIComponentReserved == {}

\* The octets of a sequence of the length n, escaped from the place i on.
OctetsAt(v, i, n) == [k \in 1..n |-> IF i + 3 * (k - 1) <= Len(v) /\ v[i + 3 * (k - 1)] = Percent
                                     THEN ReadHexPair(v, i + 3 * (k - 1)) ELSE -1]
Continues(os) == \A k \in 2..Len(os) : os[k] \in 128..191

DecodeSequence(os) == IF Continues(os) THEN UnitsOf(CodePointOfUtf8(os)) ELSE Malformed
DecodeEscape(v, i, n, reserved) ==
    CASE n < 0 -> Malformed
      [] n = 1 /\ ReadHexPair(v, i) \in reserved -> SubSeq(v, i, i + 2)
      [] n = 1 /\ ReadHexPair(v, i) \notin reserved -> <<ReadHexPair(v, i)>>
      [] n > 1 -> DecodeSequence(OctetsAt(v, i, n))

LengthAt(v, i) == IF ReadHexPair(v, i) < 0 THEN -1 ELSE Utf8SequenceLength(ReadHexPair(v, i))
Decode(v, reserved) ==
    LET from[i \in 1..(Len(v) + 1)] ==
            IF i > Len(v) THEN <<>>
            ELSE IF v[i] # Percent THEN Before(<<v[i]>>, from[i + 1])
            ELSE LET n == LengthAt(v, i)
                     decoded == DecodeEscape(v, i, n, reserved)
                 IN  IF decoded = Malformed THEN Malformed ELSE Before(decoded, from[i + 3 * n])
    IN  from[1]

(***************************************************************************)
(* escape and unescape.                                                    *)
(***************************************************************************)
EscapeUnit(c) ==
    CASE IsAsciiAlphanumeric(c) \/ c \in EscapePreserved -> <<c>>
      [] c > 255 -> <<Percent, LowercaseU>> \o ToHexDigits(c, 4)
      [] OTHER -> <<Percent>> \o ToHexDigits(c, 2)
EscapeString(v) ==
    LET from[i \in 1..(Len(v) + 1)] == IF i > Len(v) THEN <<>> ELSE EscapeUnit(v[i]) \o from[i + 1]
    IN  from[1]

LongEscape(v, i) ==
    /\ i + 5 <= Len(v)
    /\ v[i + 1] = LowercaseU
    /\ ReadHexPair(v, i + 1) >= 0
    /\ ReadHexPair(v, i + 3) >= 0
UnescapeString(v) ==
    LET from[i \in 1..(Len(v) + 1)] ==
            CASE i > Len(v) -> <<>>
              [] i <= Len(v) /\ v[i] = Percent /\ LongEscape(v, i) ->
                   <<ReadHexPair(v, i + 1) * 256 + ReadHexPair(v, i + 3)>> \o from[i + 6]
              [] i <= Len(v) /\ v[i] = Percent /\ ~LongEscape(v, i) /\ ReadHexPair(v, i) >= 0 ->
                   <<ReadHexPair(v, i)>> \o from[i + 3]
              [] OTHER -> <<v[i]>> \o from[i + 1]
    IN  from[1]

(***************************************************************************)
(* The behaviours.                                                         *)
(***************************************************************************)
vars == <<units, octets>>
Init == units = <<>> /\ octets = <<>>
WriteUnit ==
    /\ octets = <<>> /\ Len(units) < MaxUnits
    /\ \E c \in UriUnits : units' = Append(units, c)
    /\ UNCHANGED octets
WriteOctet ==
    /\ units = <<>> /\ Len(octets) < MaxOctets
    /\ \E o \in UriOctets : octets' = Append(octets, o)
    /\ UNCHANGED units
Next == WriteUnit \/ WriteOctet
Spec == Init /\ [][Next]_vars

(***************************************************************************)
(* Properties.                                                             *)
(***************************************************************************)
\* What a text of code units says, for UTF-16 as the Unicode standard defines
\* it: every surrogate is one half of a pair.
WellFormed(v) ==
    /\ \A i \in 1..Len(v) : IsLeadingSurrogate(v[i]) => i < Len(v) /\ IsTrailingSurrogate(v[i + 1])
    /\ \A i \in 1..Len(v) : IsTrailingSurrogate(v[i]) => i > 1 /\ IsLeadingSurrogate(v[i - 1])

\* Every text comes back from its encoding, whatever percent signs, reserved
\* characters or escapes it holds itself: encodeURI and encodeURIComponent
\* refuse a text exactly when one of its surrogates is unpaired, the decoder of
\* each inverts it on every other text, escape and unescape are inverses on all
\* texts (the last escape ends with the text), and a decoder leaves the escapes
\* of a text it does not decode as they are.
EncodedTextsReadBack ==
    /\ (Encode(units, EncodeURIPreserved) = Malformed) <=> ~WellFormed(units)
    /\ (Encode(units, EncodeURIComponentPreserved) = Malformed) <=> ~WellFormed(units)
    /\ WellFormed(units) =>
         /\ Decode(Encode(units, EncodeURIPreserved), DecodeURIReserved) = units
         /\ Decode(Encode(units, EncodeURIComponentPreserved), DecodeURIComponentReserved) = units
    /\ UnescapeString(EscapeString(units)) = units

\* The well-formed octet sequences, row by row as the Unicode standard's table
\* 3-7 lists them.
Table(os) ==
    \/ Len(os) = 1 /\ os[1] \in 0..127
    \/ Len(os) = 2 /\ os[1] \in 194..223 /\ os[2] \in 128..191
    \/ Len(os) = 3 /\ os[3] \in 128..191
       /\ \/ os[1] = 224 /\ os[2] \in 160..191
          \/ os[1] \in ((225..236) \cup {238, 239}) /\ os[2] \in 128..191
          \/ os[1] = 237 /\ os[2] \in 128..159
    \/ Len(os) = 4 /\ os[3] \in 128..191 /\ os[4] \in 128..191
       /\ \/ os[1] = 240 /\ os[2] \in 144..191
          \/ os[1] \in 241..243 /\ os[2] \in 128..191
          \/ os[1] = 244 /\ os[2] \in 128..143
Utf8(os) ==
    LET rest[i \in 1..(Len(os) + 1)] ==
            \/ i > Len(os)
            \/ \E n \in 1..4 : i + n <= Len(os) + 1 /\ Table(SubSeq(os, i, i + n - 1)) /\ rest[i + n]
    IN  rest[1]

\* A text of escapes is decoded exactly when its octets are UTF-8: no overlong
\* form, no surrogate, nothing above U+10FFFF and nothing cut short is let
\* through, and nothing else is refused.  What was decoded encodes to the same
\* octets, so that two texts of escapes never decode to one text.
DecodesExactlyUtf8 ==
    LET decoded == Decode(Escapes(octets), DecodeURIComponentReserved)
    IN  /\ (decoded # Malformed) <=> Utf8(octets)
        /\ (decoded # Malformed /\ \A i \in 1..Len(octets) : ~IsAsciiAlphanumeric(octets[i])) =>
                Encode(decoded, {}) = Escapes(octets)
================================================================================
