------------------------------- MODULE JsonText --------------------------------
(***************************************************************************)
(* JSON texts (builtins/json.js): the recursive descent of JSON.parse over  *)
(* the characters of a text, and the quotation of strings by               *)
(* JSON.stringify.                                                         *)
(*                                                                         *)
(* A character is a string; "null", "true" and "false" stand for the        *)
(* characters of a keyword, "'a'" and "'b'" for those of a quoted name,     *)
(* "cr", "tab" and "bs" for themselves and "ctl" for another control        *)
(* character, whose escape is u0000.  A value is <<a keyword>>,             *)
(* <<"number", its text>>, <<"string", its units>>,                        *)
(* <<"array", its elements>> or <<"object", its pairs in order>>.           *)
(***************************************************************************)
EXTENDS Naturals, Sequences, SequencesExt

WhiteSpace == {" ", "\n", "cr", "tab"}
Controls == {"\n", "cr", "tab", "bs", "ctl"}
Digits == {"0", "1"}
HexDigits == Digits \cup {"b"}
Keywords == {"null", "true", "false"}
Quoted == [c \in {"'a'", "'b'"} |-> IF c = "'a'" THEN <<"a">> ELSE <<"b">>]

CodeAt(text, i) == IF i <= Len(text) THEN text[i] ELSE "end"

\* Where the longest run of the given characters that starts at i ends.
RECURSIVE After(_, _, _)
After(text, i, chars) == IF CodeAt(text, i) \in chars THEN After(text, i + 1, chars) ELSE i
SkipWhiteSpace(text, i) == After(text, i, WhiteSpace)

\* What a part of the parser returns: the value it read and the index after
\* it, or the index at which it threw a SyntaxError.
Got(at, value) == [ok |-> TRUE, at |-> at, value |-> value]
Fail(at) == [ok |-> FALSE, at |-> at, value |-> <<"error">>]

(***************************************************************************)
(* Strings.  A \u escape names a code unit: of those this module has, u0000  *)
(* is "ctl" and any other one stands for itself.                           *)
(***************************************************************************)
Escapes == [c \in {"\"", "\\", "b", "n", "r", "t"} |->
    CASE c = "b" -> "bs" [] c = "n" -> "\n" [] c = "r" -> "cr" [] c = "t" -> "tab" [] OTHER -> c]
Unit(digits) == IF digits = <<"0", "0", "0", "0">> THEN "ctl" ELSE "unit"
RECURSIVE ParseUnits(_, _, _)
ParseUnits(text, i, units) ==
    LET c == CodeAt(text, i)
        escape == CodeAt(text, i + 1)
        notHex == {k \in 2..5 : CodeAt(text, i + k) \notin HexDigits}
    IN  IF c = "end" THEN Fail(i)
        ELSE IF c = "\"" THEN Got(i + 1, <<"string", units>>)
        ELSE IF c \in Controls THEN Fail(i)
        ELSE IF c # "\\" THEN ParseUnits(text, i + 1, Append(units, c))
        ELSE IF escape \in DOMAIN Escapes THEN ParseUnits(text, i + 2, Append(units, Escapes[escape]))
        ELSE IF escape # "u" THEN Fail(i + 1)
        ELSE IF notHex # {} THEN Fail(i + (CHOOSE k \in notHex : \A l \in notHex : k <= l))
        ELSE ParseUnits(text, i + 6, Append(units, Unit(SubSeq(text, i + 2, i + 5))))
Opens(c) == c = "\"" \/ c \in DOMAIN Quoted
ParseJSONString(text, i) ==
    IF text[i] \in DOMAIN Quoted THEN Got(i + 1, <<"string", Quoted[text[i]]>>) ELSE ParseUnits(text, i + 1, <<>>)

(***************************************************************************)
(* Numbers: an optional sign, 0 or digits that do not start with 0, a       *)
(* fraction, an exponent.  Their value is the text, which ToNumber reads.   *)
(***************************************************************************)
DigitsFrom(text, i) == IF CodeAt(text, i) \in Digits THEN Got(After(text, i, Digits), <<>>) ELSE Fail(i)
IntegerFrom(text, i) == IF CodeAt(text, i) = "0" THEN Got(i + 1, <<>>) ELSE DigitsFrom(text, i)
FractionFrom(text, whole) ==
    IF ~whole.ok \/ CodeAt(text, whole.at) # "." THEN whole ELSE DigitsFrom(text, whole.at + 1)
ExponentFrom(text, mantissa) ==
    IF ~mantissa.ok \/ CodeAt(text, mantissa.at) \notin {"e", "E"} THEN mantissa
    ELSE DigitsFrom(text, IF CodeAt(text, mantissa.at + 1) \in {"+", "-"} THEN mantissa.at + 2 ELSE mantissa.at + 1)
ParseJSONNumber(text, i) ==
    LET whole == IntegerFrom(text, IF CodeAt(text, i) = "-" THEN i + 1 ELSE i)
        number == ExponentFrom(text, FractionFrom(text, whole))
    IN  IF number.ok THEN Got(number.at, <<"number", SubSeq(text, i, number.at - 1)>>) ELSE number

(***************************************************************************)
(* Values, arrays and objects.  A name that is there again gets the new     *)
(* value, in its old place.                                                *)
(***************************************************************************)
Names(pairs) == {pairs[k][1] : k \in DOMAIN pairs}
Define(pairs, name, value) ==
    IF name \in Names(pairs) THEN [k \in DOMAIN pairs |-> IF pairs[k][1] = name THEN <<name, value>> ELSE pairs[k]]
    ELSE Append(pairs, <<name, value>>)

RECURSIVE ParseJSONValue(_, _), ParseElements(_, _, _), ParseMembers(_, _, _)
MemberNamed(text, name) ==
    LET colon == SkipWhiteSpace(text, name.at)
        value == ParseJSONValue(text, colon + 1)
    IN  IF ~name.ok THEN name
        ELSE IF CodeAt(text, colon) # ":" THEN Fail(colon)
        ELSE IF ~value.ok THEN value
        ELSE Got(value.at, <<name.value, value.value>>)
ParseMember(text, i) == IF Opens(CodeAt(text, i)) THEN MemberNamed(text, ParseJSONString(text, i)) ELSE Fail(i)
ParseMembers(text, i, pairs) ==
    LET member == ParseMember(text, SkipWhiteSpace(text, i))
        next == SkipWhiteSpace(text, member.at)
        more == Define(pairs, member.value[1], member.value[2])
    IN  IF ~member.ok THEN member
        ELSE IF CodeAt(text, next) = "," THEN ParseMembers(text, next + 1, more)
        ELSE IF CodeAt(text, next) = "}" THEN Got(next + 1, <<"object", more>>)
        ELSE Fail(next)
ParseElements(text, i, values) ==
    LET element == ParseJSONValue(text, i)
        next == SkipWhiteSpace(text, element.at)
    IN  IF ~element.ok THEN element
        ELSE IF CodeAt(text, next) = "," THEN ParseElements(text, next + 1, Append(values, element.value))
        ELSE IF CodeAt(text, next) = "]" THEN Got(next + 1, <<"array", Append(values, element.value)>>)
        ELSE Fail(next)

ParseJSONObject(text, i) ==
    LET first == SkipWhiteSpace(text, i + 1)
    IN  IF CodeAt(text, first) = "}" THEN Got(first + 1, <<"object", <<>>>>) ELSE ParseMembers(text, first, <<>>)
ParseJSONArray(text, i) ==
    LET first == SkipWhiteSpace(text, i + 1)
    IN  IF CodeAt(text, first) = "]" THEN Got(first + 1, <<"array", <<>>>>) ELSE ParseElements(text, first, <<>>)
ValueAt(text, i) ==
    LET code == CodeAt(text, i)
    IN  CASE code = "{" -> ParseJSONObject(text, i)
          [] code = "[" -> ParseJSONArray(text, i)
          [] Opens(code) -> ParseJSONString(text, i)
          [] code \in Digits \cup {"-"} -> ParseJSONNumber(text, i)
          [] code \in Keywords -> Got(i + 1, <<code>>)
          [] OTHER -> Fail(i)
ParseJSONValue(text, i) == ValueAt(text, SkipWhiteSpace(text, i))

ParseJSONText(text) ==
    LET value == ParseJSONValue(text, 1)
        end == SkipWhiteSpace(text, value.at)
    IN  IF value.ok /\ end # Len(text) + 1 THEN Fail(end) ELSE value

(***************************************************************************)
(* Quotation.                                                              *)
(***************************************************************************)
QuoteEscape(c) ==
    CASE c \in {"\"", "\\"} -> <<"\\", c>>
      [] c = "bs" -> <<"\\", "b">>
      [] c = "\n" -> <<"\\", "n">>
      [] c = "cr" -> <<"\\", "r">>
      [] c = "tab" -> <<"\\", "t">>
      [] c = "ctl" -> <<"\\", "u", "0", "0", "0", "0">>
      [] OTHER -> <<c>>
Quote(units) == <<"\"">> \o FlattenSeq([i \in 1..Len(units) |-> QuoteEscape(units[i])]) \o <<"\"">>
================================================================================
