------------------------------ MODULE JsonGrammar ------------------------------
(***************************************************************************)
(* Texts that are written a character at a time, for as long as JSON.parse  *)
(* asks for more.                                                          *)
(***************************************************************************)
EXTENDS JsonText, FiniteSets

-----------------------------------------------------------------------------
(***************************************************************************)
(* The grammar of JSON, as the texts of up to "max" characters that it      *)
(* derives, each with its value.                                           *)
(***************************************************************************)

UpTo(pairs, max) == {p \in pairs : Len(p[1]) <= max}
Runs(chars, n) == UNION {[1..k -> chars] : k \in 1..n}
Concat(A, B, max) == {t \in {a \o b : a \in A, b \in B} : Len(t) <= max}
Signed(A, signs, max) == Concat({<<>>} \cup signs, A, max)
NumberTexts(max) ==
    LET digits == Runs(Digits, max)
        whole == Signed({<<"0">>} \cup {d \in digits : d[1] # "0"}, {<<"-">>}, max)
        fraction == {<<>>} \cup Concat({<<".">>}, digits, max)
        exponent == {<<>>} \cup Concat({<<"e">>}, Signed(digits, {<<"+">>, <<"-">>}, max), max)
    IN  {<<t, <<"number", t>>>> : t \in Concat(Concat(whole, fraction, max), exponent, max)}

UnitTexts ==
    {<<<<c>>, <<c>>>> : c \in {"u", "b", "0"}}
    \cup {<<<<"\\", c>>, <<c>>>> : c \in {"\"", "\\"}}
    \cup {<<<<"\\", "b">>, <<"bs">>>>}
    \cup {<<<<"\\", "u">> \o h, <<IF h = <<"0", "0", "0", "0">> THEN "ctl" ELSE "unit">>>> : h \in [1..4 -> {"0", "b"}]}
RECURSIVE UnitRuns(_)
UnitRuns(n) ==
    IF n = 0 THEN {<<<<>>, <<>>>>}
    ELSE UNION {{<<r[1] \o u[1], r[2] \o u[2]>> : r \in UnitRuns(n - k), u \in {v \in UnitTexts : Len(v[1]) = k}} :
                    k \in {1, 2, 6} \cap 1..n}
StringTexts(max) ==
    {<<<<"\"">> \o r[1] \o <<"\"">>, <<"string", r[2]>>>> : r \in UNION {UnitRuns(n) : n \in 0..(max - 2)}}

Joined(l, item) == <<l[1] \o (IF l[2] = <<>> THEN <<>> ELSE <<",">>) \o item[1], Append(l[2], item[2])>>
RECURSIVE Lists(_, _, _)
Lists(items, n, max) ==
    IF n = 0 THEN {<<<<>>, <<>>>>}
    ELSE UNION {UpTo({Joined(l, i), l}, max) : l \in Lists(items, n - 1, max), i \in items}
\* The names in the order they first occur, each with the value it has last.
Meaning(pairs) ==
    LET firsts == SetToSortSeq({i \in DOMAIN pairs : \A j \in 1..(i - 1) : pairs[j][1] # pairs[i][1]}, LAMBDA i, j : i < j)
        lastValue(name) == pairs[CHOOSE i \in DOMAIN pairs : pairs[i][1] = name /\ \A j \in (i + 1)..Len(pairs) : pairs[j][1] # name][2]
    IN  [k \in 1..Len(firsts) |-> <<pairs[firsts[k]][1], lastValue(pairs[firsts[k]][1])>>]
Members(values) ==
    {<<<<name, ":">> \o v[1], <<<<"string", Quoted[name]>>, v[2]>>>> : name \in DOMAIN Quoted, v \in values}
RECURSIVE Structures(_, _)
Structures(depth, max) ==
    LET scalars == {<<<<c>>, <<"string", Quoted[c]>>>> : c \in DOMAIN Quoted}
        inner == Structures(depth - 1, max - 2)
    IN  IF depth = 0 THEN UpTo(scalars, max)
        ELSE UpTo(scalars, max)
             \cup {<<<<"[">> \o l[1] \o <<"]">>, <<"array", l[2]>>>> : l \in Lists(inner, (max - 1) \div 2, max - 2)}
             \cup {<<<<"{">> \o l[1] \o <<"}">>, <<"object", Meaning(l[2])>>>> : l \in Lists(Members(inner), max \div 4, max - 2)}

\* The texts of every kind.
Derived(alphabets, maxLength) ==
    [k \in DOMAIN alphabets |->
        CASE k = "numbers" -> NumberTexts(maxLength[k])
          [] k = "strings" -> StringTexts(maxLength[k])
          [] OTHER -> {p \in Structures(3, maxLength[k]) : \A i \in DOMAIN p[1] : p[1][i] \in alphabets[k]}]

-----------------------------------------------------------------------------

CONSTANTS Alphabets,  \* the characters of a kind of text: [kind |-> set]
          MaxLength,  \* the lengths of the kinds of text: [kind |-> number]
          Language    \* the texts of the grammar and their values: [kind |-> set]
VARIABLES kind, text

Result == ParseJSONText(text)
AsksForMore(result) == result.ok \/ result.at > Len(text)

Init == kind \in DOMAIN Alphabets /\ text = IF kind = "strings" THEN <<"\"">> ELSE <<>>
Write(c) ==
    /\ Len(text) < MaxLength[kind]
    /\ AsksForMore(Result)
    /\ text' = Append(text, c)
    /\ UNCHANGED kind
Next == \E c \in Alphabets[kind] : Write(c)

Written == IF kind = "spaced" THEN SelectSeq(text, LAMBDA c : c \notin WhiteSpace) ELSE text

\* JSON.parse reads exactly the texts that the grammar derives, white space
\* between their parts allowed, as the values it derives them for; and it
\* fails at a character only if no text of the grammar starts that way.
TextsAreTheGrammar ==
    \E result \in {Result} :
        /\ \A value \in {p[2] : p \in {q \in Language[kind] : q[1] = Written}} : result.ok /\ result.value = value
        /\ result.ok => <<Written, result.value>> \in Language[kind]
        /\ ~AsksForMore(result) => \A p \in Language[kind] : ~IsPrefix(Written, p[1])
================================================================================
