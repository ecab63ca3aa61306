------------------------------- MODULE MCObjects -------------------------------
(***************************************************************************)
(* Instances of Objects: an array with a hole over a prototype, next to an *)
(* arguments object, a String wrapper or a module namespace; and of what    *)
(* objects and numbers are converted with, Operators and NumberFormat.      *)
(* Each behaviour is one of theirs, the variables of the others staying as  *)
(* they are.                                                               *)
(***************************************************************************)
EXTENDS Objects, TLC

CONSTANTS A, P, X

VARIABLES part, value, number, digits

MCNumerals == <<"0", "1", "2", "3", "4", "5">>
Wide(v) == Data(v, TRUE, TRUE, TRUE)
Len0(v) == Data(v, TRUE, FALSE, FALSE)
Obj(kind, proto, props, order) ==
    [kind |-> kind, proto |-> proto, ext |-> TRUE, props |-> props, order |-> order,
     alias |-> <<>>, exports |-> <<>>, text |-> 0]
Heap(a, p, x) ==
    [obj |-> (A :> a @@ P :> p @@ X :> x), cells |-> ("c" :> 1 @@ "d" :> Dead)]

Inert == Obj("ordinary", Nobody, ("p" :> Wide(1)), <<"p">>)
Elemental == Obj("ordinary", Nobody,
                 ("1" :> Accessor(TRUE, TRUE, TRUE, TRUE) @@ "p" :> Wide(1)), <<"p">>)
Holed == Obj("array", P, ("length" :> Len0(3) @@ "0" :> Wide(2) @@ "2" :> Wide(1)), <<"length">>)
Stubborn == Obj("array", P,
                ("length" :> Len0(2) @@ "0" :> Wide(2) @@ "1" :> Data(1, TRUE, TRUE, FALSE)), <<"length">>)
Arguments == [Obj("arguments", P,
                  ("0" :> Wide(1) @@ "length" :> Data(1, TRUE, FALSE, TRUE)), <<"length">>)
              EXCEPT !.alias = ("0" :> "c")]
Text == [Obj("string", P, ("length" :> Data(2, FALSE, FALSE, FALSE)), <<"length">>) EXCEPT !.text = 2]
Module == [Obj("namespace", Nobody, ("@" :> Data(1, FALSE, FALSE, FALSE)), <<"@">>)
           EXCEPT !.ext = FALSE, !.alias = ("p" :> "c" @@ "q" :> "d"), !.exports = <<"p", "q">>]
\* Descriptors for Object.defineProperties: one is a number, which denotes none.
Described == Obj("ordinary", Nobody,
                 ("0" :> Wide(1) @@ "p" :> Accessor(TRUE, FALSE, TRUE, TRUE)), <<"p">>)

MCHeaps == {Heap(Holed, Elemental, Arguments), Heap(Holed, Inert, Text),
            Heap(Stubborn, Inert, Module), Heap([Holed EXCEPT !.proto = X], Inert, Module),
            Heap(Stubborn, Inert, Described)}
MCCandidates == (1 :> [value |-> 2, enumerable |-> TRUE]) @@ (2 :> [configurable |-> FALSE])

Define(o, k, c) == [on |-> o, key |-> k, as |-> c]
MCDefinitions ==
    {Define(A, "1", [get |-> TRUE, configurable |-> FALSE]), Define(A, "2", [writable |-> FALSE]),
     Define(A, "length", [value |-> 1, writable |-> FALSE]),
     Define(X, "0", [writable |-> FALSE, configurable |-> FALSE]),
     Define(X, "0", [get |-> TRUE]), Define(X, "p", [value |-> 1]),
     Define(P, "p", [enumerable |-> FALSE])}
MCDeletions == {[on |-> o, key |-> k] : o \in {A, X, P}, k \in {"0", "p"}}
To(o, k, v, r) == [on |-> o, key |-> k, value |-> v, receiver |-> r]
MCAssignments ==
    {To(A, "length", Convertible, A), To(A, "length", 0, A), To(A, "2", 2, A), To(A, "p", 2, A),
     To(X, "0", 2, X), To(A, "p", 2, X), To(X, "1", 2, A)}
MCPrototypes == {[on |-> A, as |-> X], [on |-> X, as |-> A], [on |-> P, as |-> A], [on |-> A, as |-> Nobody]}
MCLevels == {[on |-> A, level |-> "extensions"], [on |-> A, level |-> "frozen"],
             [on |-> X, level |-> "frozen"], [on |-> X, level |-> "sealed"]}
MCBindings == {[cell |-> "c", value |-> 2]}
On(o, m, a, s) == [on |-> o, m |-> m, args |-> a, sources |-> s]
MCCalls ==
    {On(A, "push", <<1>>, <<>>), On(A, "pop", <<>>, <<>>), On(A, "shift", <<>>, <<>>),
     On(A, "unshift", <<1>>, <<>>), On(A, "reverse", <<>>, <<>>), On(X, "reverse", <<>>, <<>>),
     On(X, "push", <<2>>, <<>>),
     On(A, "sort", <<>>, <<>>), On(A, "sort", <<1>>, <<>>),
     On(A, "splice", <<0, 1>>, <<>>), On(A, "splice", <<1, 1, 2>>, <<>>), On(A, "splice", <<1, 0, 2>>, <<>>),
     On(A, "slice", <<Convertible, 3>>, <<>>), On(A, "concat", <<>>, <<A, A>>),
     On(A, "indexOf", <<1, 0>>, <<>>), On(A, "lastIndexOf", <<2, -1>>, <<>>),
     On(A, "join", <<>>, <<>>), On(A, "toLocaleString", <<>>, <<>>), On(A, "forEach", <<>>, <<>>),
     On(A, "map", <<>>, <<>>), On(A, "filter", <<>>, <<>>), On(A, "every", <<>>, <<>>),
     On(A, "some", <<>>, <<>>), On(A, "reduce", <<>>, <<>>), On(A, "reduceRight", <<1>>, <<>>)}
MCLoops == {A, X}
MCDefineAlls == {[on |-> A, from |-> X]}
MCAnswers ==
    [u \in {"main", "setter", "body", "argument", "number", "length", "got", "callback", "compare",
           "descriptor", "text"} |->
        CASE u = "number" -> {0, 2, MaxLength + 1}
          [] u \in {"argument", "callback", "compare", "descriptor"} -> {0, 1}
          [] OTHER -> {1}]

(***************************************************************************)
(* Guest objects that answer, throw, answer objects or cannot be called,    *)
(* and the values around them.                                             *)
(***************************************************************************)
Missing == <<"missing">>
Returns(v) == <<"returns", v>>
Guests(exotic, valueOf, toString) == [exotic |-> exotic, valueOf |-> valueOf, toString |-> toString]
Nested == Returns(<<"Object", <<1>>>>)
MCGuests ==
    <<Guests(Missing, Returns(<<"Number", <<1>>>>), <<"throws">>),
      Guests(Missing, Nested, Returns(<<"String", <<49>>>>)),
      Guests(Returns(<<"Number", <<7>>>>), <<"throws">>, <<"throws">>),
      Guests(Missing, <<"uncallable">>, <<"throws">>),
      Guests(Missing, Returns(<<"Symbol", <<1>>>>), Missing),
      Guests(Missing, Nested, Missing), Guests(Nested, Missing, Missing),
      Guests(<<"uncallable">>, Returns(<<"Number", <<0>>>>), Missing)>>
\* The texts are "", " ", "1", "1 ", "0xf", "-Infinity", "-1", "0x" and "9".
MCValues ==
    {<<"Object", <<o>>>> : o \in 1..8} \cup {<<"Boolean", <<b>>>> : b \in {0, 1}}
    \cup {<<"Undefined", <<>>>>, <<"Null", <<>>>>, <<"Symbol", <<1>>>>}
    \cup {<<"Number", n>> : n \in {<<0>>, <<1>>, <<-1>>, <<7>>, <<-8>>, <<9>>, <<16>>, <<23>>, <<0, 0>>, <<1, 1>>, <<-1, 1>>}}
    \cup {<<"String", t>> : t \in {<<>>, <<32>>, <<49>>, <<49, 32>>, <<48, 120, 102>>, <<45, 200>>, <<45, 49>>, <<48, 120>>, <<57>>}}
\* Four bits stand for the 32 of a word.
Conversions == INSTANCE Operators WITH Objects <- MCGuests, Values <- MCValues, WordBits <- 4, MaxNumber <- 32, MaxUnits <- 2

\* Significands of seven bits on both sides of the point, zeros and what is no
\* finite number.
MCNumbers ==
    {[kind |-> "finite", negative |-> FALSE, m |-> m, b |-> b] : m \in 0..63, b \in -7..5}
    \cup {[kind |-> "finite", negative |-> TRUE, m |-> m, b |-> b] : m \in {0, 5, 127}, b \in {-6, -1, 2}}
    \cup {[kind |-> k, negative |-> n, m |-> 1, b |-> 0] : k \in {"NaN", "Infinity"}, n \in BOOLEAN}
Formats == INSTANCE NumberFormat WITH Numbers <- MCNumbers, Radices <- {2, 4, 16}, MaxDigits <- 4,
                                      FractionBits <- 6, LimbDigits <- 2, FixedLimit <- 3, SmallLimit <- 2

Idle(p) ==
    /\ p # "objects" => heap \in {CHOOSE h \in MCHeaps : TRUE}
    /\ p # "operators" => value = <<"Null", <<>>>>
    /\ p # "numbers" => number.m = 0 /\ number.b = 0 /\ ~number.negative
MCInit ==
    /\ part \in {"objects", "operators", "numbers"}
    /\ Init /\ Conversions!Init /\ Formats!Init /\ Idle(part)
MCNext ==
    /\ UNCHANGED part
    /\ \/ part = "objects" /\ Next /\ UNCHANGED <<value, number, digits>>
       \/ part = "operators" /\ Conversions!Next /\ UNCHANGED <<heap, stack, left, number, digits>>
       \/ part = "numbers" /\ Formats!Next /\ UNCHANGED <<heap, stack, left, value>>
MCSpec == MCInit /\ [][MCNext]_<<part, vars, value, number, digits>>

\* What values become: operands are converted in the order ECMAScript gives them, by the
\* methods they have then, the operators agree with one another, and the digits printed
\* for a number are those of the nearest decimal.
ConversionsAreExact ==
    /\ part = "operators" => Conversions!OperandsConvertInOrder /\ Conversions!OperatorsAgree
    /\ part = "numbers" => Formats!FormatsAreNearest
================================================================================
