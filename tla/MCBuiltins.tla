------------------------------- MODULE MCBuiltins ------------------------------
(***************************************************************************)
(* One instance of the modules about library functions that keep no state   *)
(* of their own besides an object's: each behaviour is one of theirs, the   *)
(* variables of the others staying as they are.                            *)
(***************************************************************************)
EXTENDS Integers, FiniteSets, Sequences

CONSTANTS Alphabets, MaxLength,                                     \* of JsonGrammar
          Objects, Cases, MaxMutations, MaxDepth,                   \* of JsonWalk
          UriUnits, UriOctets, MaxUnits, MaxOctets                  \* of GlobalUri

VARIABLES part,
          zone, timeValue, last, calls,
          kind, text,
          case, heap, phase, frames, stack, indent, result, seen, mutations,
          units, octets

dates == <<zone, timeValue, last, calls>>
grammar == <<kind, text>>
walk == <<case, heap, phase, frames, stack, indent, result, seen, mutations>>
uri == <<units, octets>>

Walk == INSTANCE JsonWalk
Uri == INSTANCE GlobalUri

(***************************************************************************)
(* Days around the places where calendars go wrong, four time zones, and    *)
(* texts on both sides of every rule.                                      *)
(***************************************************************************)
Calendar == INSTANCE Dates WITH Zones <- {}, Instants <- {}, Arguments <- {}, Values <- {}, Texts <- {}, MaxCalls <- 0

Zone(standard, summer, declared) == [standard |-> standard, summer |-> summer, declared |-> declared]
MCZones ==
    {Zone(300, "north", FALSE), Zone(-60, "north", TRUE), Zone(-600, "south", FALSE), Zone(-330, "never", FALSE)}

\* The ends of years and of Februaries, and the changes of summer time.
Years == {-271821, -1, 0, 100, 1970, 2000, 275760}
Days(y) == {Calendar!DayFromYear(y) + n : n \in {-1, 0, 58, 59, 60, 90, 91, 273, 274}}
MCInstants ==
    {<<d, 0>> : d \in UNION {Days(y) : y \in Years}}
    \cup {<<d, ms>> : d \in Days(2000), ms \in {1, 3600000, 18000000, 86399999}}
    \cup {<<-Calendar!Limit, 0>>, <<-Calendar!Limit, 1>>, <<Calendar!Limit, 0>>, <<Calendar!Limit - 1, Calendar!MsPerDay - 1>>, <<Calendar!Limit - 1, Calendar!MsPerDay - 3600000>>, <<Calendar!Limit - 1, 0>>}

N(seq) == [i \in 1..Len(seq) |-> <<seq[i]>>]
MCArguments ==
    {N(a) : a \in {<<1970, 0>>, <<99, 11, 31>>, <<2000, 1, 29, 23, 59, 59, 999>>, <<2000, 3, 1, 0, 30>>, <<1999, 9, 1, 1, 59>>,
                   <<275760, 8, 13>>, <<275760, 8, 12, 23, 30>>, <<-271821, 3, 20>>, <<0, -1, 0>>}}
    \cup {<<<<2000>>, Calendar!NaN>>}
MCValues ==
    [Milliseconds |-> {N(<<5>>)}, Seconds |-> {N(<<59, 1>>), N(<<-1>>)}, Minutes |-> {N(<<30>>), N(<<60, 0, 0>>)},
     Hours |-> {N(<<0, 30>>), N(<<25>>), <<<<1>>, Calendar!NaN>>}, Date |-> {N(<<31>>), N(<<0>>)},
     Month |-> {N(<<1, 29>>), N(<<9>>)}, FullYear |-> {N(<<2000>>), N(<<99, 1, 28>>), N(<<275760>>)}, Year |-> {N(<<99>>), N(<<1899>>)}]

Iso(year, date, time, fraction, zoned) == Calendar!Text("iso", Calendar!FormatISOYear(year), date, time, fraction, zoned)
StartOfDay == <<0, 0, 0>>
Zeros == <<0, 0, 0>>
Z == <<"Z">>
MCTexts ==
    {Iso(y, d, StartOfDay, Zeros, Z) : y \in {-1, 0, 1900, 2000, 2001}, d \in {<<2, 28>>, <<2, 29>>, <<2, 30>>, <<12, 31>>, <<12, 32>>, <<13, 1>>, <<4, 31>>}}
    \cup {Iso(2000, <<1, 1>>, t, <<>>, Z) : t \in {<<24, 0>>, <<24, 0, 1>>, <<23, 60, 0>>, <<23, 59, 60>>, <<25, 0, 0>>}}
    \cup {Iso(2000, <<1, 1>>, <<0, 0>>, <<>>, z) : z \in {<<>>, <<"+", 23, 59>>, <<"-", 24, 0>>, <<"+", 0, 60>>}}
    \cup {Iso(275760, <<9, 13>>, <<0, 0, 0>>, Zeros, z) : z \in {Z, <<"+", 0, 1>>, <<"-", 0, 1>>}}
    \cup {Iso(2000, <<>>, <<>>, <<>>, <<>>), Iso(2000, <<2>>, <<>>, <<>>, <<>>), Iso(2000, <<2>>, <<1, 1>>, <<>>, <<>>),
          Iso(2000, <<1, 1>>, StartOfDay, <<5>>, Z), Iso(2000, <<1, 1>>, StartOfDay, <<0, 5>>, <<>>)}
    \cup {Calendar!Text("iso", [sign |-> "-", digits |-> 6, of |-> 0], <<1, 1>>, StartOfDay, Zeros, Z),
          Calendar!Text("iso", [sign |-> "", digits |-> 6, of |-> 2000], <<1, 1>>, StartOfDay, Zeros, Z),
          Calendar!Text("other", Calendar!FormatYear(2000), <<1, 1>>, StartOfDay, <<>>, <<>>)}
    \cup {Calendar!Text("utc", Calendar!FormatYear(y), d, StartOfDay, <<>>, <<>>) : y \in {-1, 10000}, d \in {<<2, 29>>, <<6, 30>>}}
    \cup {Calendar!Text("local", Calendar!FormatYear(2000), <<2, 29>>, <<24, 0, 0>>, <<>>, z) : z \in {<<"+", 5, 30>>, <<"-", 24, 0>>}}
Dates ==
    INSTANCE Dates WITH Zones <- MCZones, Instants <- MCInstants, Arguments <- MCArguments, Values <- MCValues,
                        Texts <- MCTexts, MaxCalls <- 1

(***************************************************************************)
(* The characters of the kinds of JSON texts, and their lengths.           *)
(***************************************************************************)
Grammars == INSTANCE JsonGrammar WITH Language <- {}
MCAlphabets ==
    [numbers |-> {"-", "0", "1", ".", "e", "+", ","},
     strings |-> {"\"", "\\", "u", "b", "0", "ctl"},
     arrays |-> {"[", "]", ",", "'a'"},
     objects |-> {"{", "}", ",", ":", "'a'", "'b'"},
     mixed |-> {"[", "]", "{", "}", ",", ":", "'a'"},
     spaced |-> {"[", "]", "{", "}", ",", ":", "'a'", " "}]
MCMaxLength == [numbers |-> 6, strings |-> 8, arrays |-> 7, objects |-> 9, mixed |-> 7, spaced |-> 5]
MCLanguage == Grammars!Derived(MCAlphabets, MCMaxLength)
Grammar == INSTANCE JsonGrammar WITH Language <- MCLanguage

(***************************************************************************)
(* Graphs of objects, and what is done with them.                          *)
(***************************************************************************)
Wrapper == "wrapper"
Root == "root"
Undefined == <<"undefined">>
Ref(o) == <<"ref", o>>
Obj(props) == [class |-> "object", length |-> 0, props |-> props]
Arr(props) == [class |-> "array", length |-> 2, props |-> props]
Null == <<"null">>
S == <<"string", <<"\"", "ctl">>>>
Inf == <<"number", <<"Infinity">>>>
Heap(r, x, y, i, j, z) ==
    [o \in {Wrapper, "a", "b", "c"} |->
        CASE o = Wrapper -> Obj(<<<<Root, r>>>>)
          [] o = "a" -> Obj(<<<<"x", x>>, <<"y", y>>>>)
          [] o = "b" -> Arr(<<<<"0", i>>, <<"1", j>>>>)
          [] o = "c" -> Obj(<<<<"x", z>>>>)]
Stringify(h, gap, list, callbacks) == [walk |-> "stringify", heap |-> h, gap |-> gap, list |-> list, callbacks |-> callbacks, drops |-> {}]
Revive(h, drops) == [walk |-> "revive", heap |-> h, gap |-> <<>>, list |-> <<>>, callbacks |-> FALSE, drops |-> drops]
A == Ref("a")
B == Ref("b")
C == Ref("c")
Plain == {Heap(A, x, y, i, j, z) : x \in {Undefined, S, Inf, B, C}, y \in {Undefined, S, B, C}, i \in {Undefined, Null, C, A}, j \in {Null, C}, z \in {<<"true">>, B, A}}
MCCases == {Stringify(h, <<>>, <<>>, FALSE) : h \in Plain}
   \cup {Stringify(h, <<" ">>, <<"y", "x">>, FALSE) : h \in Plain}
   \cup {Stringify(Heap(v, Null, Null, Null, Null, Null), <<" ">>, <<>>, FALSE) : v \in {S, Undefined, <<"function">>, Inf, C}}
   \cup {Stringify(Heap(A, x, y, Null, C, S), gap, <<>>, TRUE) : x \in {B, S}, y \in {B, C}, gap \in {<<>>, <<" ">>}}
   \cup {Revive(Heap(r, x, y, i, j, z), d) : r \in {A, S}, x \in {S, B}, y \in {Null, C}, i \in {Null, S}, j \in {Null, S}, z \in {S, Null}, d \in {{}, {S}, {Null}, {S, Null}}}

(***************************************************************************)
(* Code units and octets on both sides of every boundary of UTF-16, UTF-8  *)
(* and the digits of an escape.                                            *)
(***************************************************************************)
MCUnits == {65, 47, 35, 37, 50, 70, 117, 127, 128, 255, 2047, 2048, 55295, 55296, 56319, 56320, 57343, 57344, 65535}
MCOctets == {47, 37, 127, 128, 143, 144, 159, 160, 191, 193, 194, 224, 237, 240, 244, 245, 248}

(***************************************************************************)
(* The four together.                                                      *)
(***************************************************************************)
NoDates == zone = {} /\ timeValue = <<>> /\ last = {} /\ calls = 0
NoGrammar == kind = "" /\ text = <<>>
NoWalk ==
    /\ case = {} /\ heap = {} /\ phase = "" /\ frames = <<>> /\ stack = {} /\ indent = <<>>
    /\ result = <<>> /\ seen = <<>> /\ mutations = 0
NoUri == units = <<>> /\ octets = <<>>

Init ==
    \/ part = "dates" /\ Dates!Init /\ NoGrammar /\ NoWalk /\ NoUri
    \/ part = "grammar" /\ NoDates /\ Grammar!Init /\ NoWalk /\ NoUri
    \/ part = "walk" /\ NoDates /\ NoGrammar /\ Walk!Init /\ NoUri
    \/ part = "uri" /\ NoDates /\ NoGrammar /\ NoWalk /\ Uri!Init
Next ==
    \/ part = "dates" /\ Dates!Next /\ UNCHANGED <<part, grammar, walk, uri>>
    \/ part = "grammar" /\ Grammar!Next /\ UNCHANGED <<part, dates, walk, uri>>
    \/ part = "walk" /\ Walk!Next /\ UNCHANGED <<part, dates, grammar, uri>>
    \/ part = "uri" /\ Uri!Next /\ UNCHANGED <<part, dates, grammar, walk>>
Spec == Init /\ [][Next]_<<part, dates, grammar, walk, uri>>

\* The calendar is the Gregorian one, counted day by day; what is printed for a date is read
\* back as it, and no text names a day there is not; a local time becomes the time that
\* shows it, also where clocks skip or repeat an hour; and a setter changes the fields it
\* was called for and keeps the others (builtins/date.js).
DatesAreExact ==
    part = "dates" =>
        /\ Dates!CalendarIsExact /\ Dates!TextsRoundTrip
        /\ Dates!LocalTimeIsInverted /\ Dates!FieldsReadBack
\* JSON.parse reads the texts of the grammar and refuses the others where they leave it;
\* JSON.stringify writes what it reads back as the same value and calls circular what is
\* inside of itself, not what is met twice; and a reviver sees the parts before the
\* structure, each value once (builtins/json.js).
JsonIsExact ==
    /\ part = "grammar" => Grammar!TextsAreTheGrammar
    /\ part = "walk" => Walk!StringifiedIsJSON /\ Walk!CircularMeansCircular /\ Walk!RevivedBottomUp
\* What encodeURI, encodeURIComponent and escape write is read back as the text it was, and
\* the octets of escapes are decoded exactly when they are UTF-8 (builtins/global-uri.js).
UrisReadBack == part = "uri" => Uri!EncodedTextsReadBack /\ Uri!DecodesExactlyUtf8
================================================================================
