------------------------------- MODULE JsonWalk --------------------------------
(***************************************************************************)
(* The two walks of builtins/json.js over the guest's objects: that of       *)
(* JSON.stringify, which calls toJSON methods and a replacer, and that of    *)
(* JSON.parse's reviver, which rebuilds what was parsed.  The recursion of   *)
(* the code is the sequence "frames"; every call of guest code may change    *)
(* the objects.                                                            *)
(*                                                                         *)
(* A value is <<"ref", object>>, <<"function">>, <<"undefined">> or one of   *)
(* JsonText's scalars.                                                     *)
(***************************************************************************)
EXTENDS JsonText, FiniteSets

CONSTANTS Objects,       \* the guest's objects
          Cases,         \* the calls: [walk, heap, gap, list, callbacks, drops]
          MaxMutations,  \* what callbacks may change during one call
          MaxDepth       \* the levels that the stack guard lets a walk have

VARIABLES case,      \* the call under way
          heap,      \* [object |-> [class, length, props: a sequence of <<key, value>>]]
          phase,     \* "walking", "done", "threw" or "circular"
          frames,    \* the structures being walked, the wrapper first
          stack,     \* state.stack: the structures being serialized
          indent,    \* state.indent
          result,    \* the text of the call, or the revived value
          seen,      \* the values the reviver was called with
          mutations

vars == <<case, heap, phase, frames, stack, indent, result, seen, mutations>>

Wrapper == "wrapper"
Root == "root"
Undefined == <<"undefined">>
Ref(o) == <<"ref", o>>
IsStructure(v) == v[1] = "ref"

(***************************************************************************)
(* Properties of objects.                                                  *)
(***************************************************************************)
Indices == <<"0", "1", "2">>
Keys(h, o) == [i \in DOMAIN h[o].props |-> h[o].props[i][1]]
HasKey(h, o, key) == \E i \in DOMAIN h[o].props : h[o].props[i][1] = key
Get(h, o, key) ==
    IF HasKey(h, o, key) THEN h[o].props[CHOOSE i \in DOMAIN h[o].props : h[o].props[i][1] = key][2] ELSE Undefined
Delete(h, o, key) == [h EXCEPT ![o].props = SelectSeq(@, LAMBDA p : p[1] # key)]
Put(h, o, key, v) == [h EXCEPT ![o].props = Define(@, key, v)]
\* The keys of a structure: those of its indices, or its own enumerable names.
StructureKeys(h, o) == IF h[o].class = "array" THEN SubSeq(Indices, 1, h[o].length) ELSE Keys(h, o)

(***************************************************************************)
(* What a call of guest code leaves behind.                                *)
(***************************************************************************)
Mutated(h) ==
    {Delete(h, o, key) : o \in Objects, key \in {"x", "0"}}
    \cup {Put(h, o, "x", Ref(p)) : o \in {q \in Objects : h[q].class = "object"}, p \in Objects}
\* After the toJSON methods and the replacer, for a value v of the heap.
AfterCallbacks(v) ==
    IF ~case.callbacks \/ mutations = MaxMutations THEN {[heap |-> heap, value |-> v]}
    ELSE {[heap |-> h, value |-> v] : h \in {heap} \cup Mutated(heap)}
         \cup {[heap |-> heap, value |-> w] : w \in {Undefined} \cup {Ref(o) : o \in Objects}}

Top == frames[Len(frames)]
\* Every level of the walks enters the realm's stack guard.
TooDeep == Len(frames) = MaxDepth
AtKey == Top.next <= Len(Top.keys)
Key == Top.keys[Top.next]
Frame(o, keys, stepback) == [object |-> o, keys |-> keys, next |-> 1, partial |-> <<>>, stepback |-> stepback]

Init ==
    /\ case \in Cases
    /\ heap = case.heap
    /\ phase = "walking"
    /\ frames = <<Frame(Wrapper, <<Root>>, <<>>)>>
    /\ stack = {} /\ indent = <<>>
    /\ result = <<>> /\ seen = <<>> /\ mutations = 0

(***************************************************************************)
(* JSON.stringify.                                                         *)
(***************************************************************************)
Scalar(v) ==
    CASE v[1] = "string" -> Quote(v[2])
      [] v[1] = "number" -> IF v[2] = <<"Infinity">> THEN <<"null">> ELSE v[2]
      [] v[1] \in Keywords -> <<v[1]>>
      [] OTHER -> <<>>

\* A property of the text: none for a value without one, in an array "null".
Member(frame, text) ==
    IF frame.object # Wrapper /\ heap[frame.object].class = "array" THEN <<IF text = <<>> THEN <<"null">> ELSE text>>
    ELSE IF text = <<>> THEN <<>>
    ELSE IF frame.object = Wrapper THEN <<text>>
    ELSE <<Quote(<<frame.keys[frame.next]>>) \o <<":">> \o (IF case.gap = <<>> THEN <<>> ELSE <<" ">>) \o text>>
Written(frame, text) == [frame EXCEPT !.partial = @ \o Member(frame, text), !.next = @ + 1]
RECURSIVE Joined(_, _)
Joined(parts, separator) ==
    IF Len(parts) = 1 THEN parts[1] ELSE parts[1] \o separator \o Joined(Tail(parts), separator)
WrapLoosely(frame, open, close) ==  \* mutant: a structure without parts gets its separator too
    <<open, "\n">> \o FlattenSeq([i \in DOMAIN frame.partial |-> frame.partial[i] \o <<",">>]) \o <<close>>
WrapPartial(frame, open, close) ==
    IF frame.partial = <<>> THEN <<open, close>>
    ELSE IF case.gap = <<>> THEN <<open>> \o Joined(frame.partial, <<",">>) \o <<close>>
    ELSE <<open, "\n">> \o indent \o Joined(frame.partial, <<",", "\n">> \o indent)
         \o <<"\n">> \o frame.stepback \o <<close>>
TextOf(frame) ==
    IF heap[frame.object].class = "array" THEN WrapPartial(frame, "[", "]") ELSE WrapPartial(frame, "{", "}")

SetTop(frame) == [frames EXCEPT ![Len(frames)] = frame]
Enter(h, o) ==
    /\ o \notin stack
    /\ stack' = stack \cup {o}
    /\ indent' = indent \o case.gap
    /\ frames' = Append(frames, Frame(o, IF h[o].class = "object" /\ case.list # <<>> THEN case.list ELSE StructureKeys(h, o), indent))
    /\ UNCHANGED phase
Circular(o) == o \in stack /\ phase' = "circular" /\ UNCHANGED <<stack, indent, frames>>

SerializeProperty ==
    /\ case.walk = "stringify" /\ phase = "walking" /\ AtKey /\ ~TooDeep
    /\ \E v \in {Get(heap, Top.object, Key)} : \E after \in AfterCallbacks(v) :
          /\ heap' = after.heap
          /\ mutations' = IF after = [heap |-> heap, value |-> v] THEN mutations ELSE mutations + 1
          /\ IF IsStructure(after.value) THEN Enter(after.heap, after.value[2]) \/ Circular(after.value[2])
             ELSE frames' = SetTop(Written(Top, Scalar(after.value))) /\ UNCHANGED <<phase, stack, indent>>
    /\ UNCHANGED <<case, result, seen>>

Leave(o) == stack \ {o}
LeaveStructure ==
    /\ case.walk = "stringify" /\ phase = "walking" /\ ~AtKey /\ Len(frames) > 1
    /\ frames' = [SubSeq(frames, 1, Len(frames) - 1) EXCEPT ![Len(frames) - 1] = Written(@, TextOf(Top))]
    /\ stack' = Leave(Top.object)
    /\ indent' = Top.stepback
    /\ UNCHANGED <<case, heap, phase, result, seen, mutations>>
Return ==
    /\ case.walk = "stringify" /\ phase = "walking" /\ ~AtKey /\ Len(frames) = 1
    /\ phase' = "done"
    /\ result' = IF Top.partial = <<>> THEN <<>> ELSE Top.partial[1]
    /\ UNCHANGED <<case, heap, frames, stack, indent, seen, mutations>>

(***************************************************************************)
(* The reviver of JSON.parse: walk reads a key of a holder, walks the value *)
(* first if it is a structure, and then calls the reviver.                 *)
(***************************************************************************)
Value == Get(heap, Top.object, Key)
Walked == Top.partial # <<>>
Descend ==
    /\ case.walk = "revive" /\ phase = "walking" /\ AtKey /\ ~TooDeep /\ ~Walked /\ IsStructure(Value)
    /\ frames' = Append(SetTop([Top EXCEPT !.partial = <<Value>>]), Frame(Value[2], StructureKeys(heap, Value[2]), <<>>))
    /\ UNCHANGED <<case, heap, phase, stack, indent, result, seen, mutations>>
Ascend ==
    /\ case.walk = "revive" /\ phase = "walking" /\ ~AtKey /\ Len(frames) > 1
    /\ frames' = SubSeq(frames, 1, Len(frames) - 1)
    /\ UNCHANGED <<case, heap, phase, stack, indent, result, seen, mutations>>

\* Pure revivers drop some scalars and return the other values.
Revived(v) == IF v \in case.drops THEN Undefined ELSE v
Apply(h, o, key, v) == IF v = Undefined THEN Delete(h, o, key) ELSE Put(h, o, key, v)
Replace(h, v) == IF Len(frames) = 1 THEN h ELSE Apply(h, Top.object, Key, v)
NextKey(frame, h) == [frame EXCEPT !.next = @ + 1, !.partial = <<>>]
CallReviver ==
    /\ case.walk = "revive" /\ phase = "walking" /\ AtKey
    /\ Walked \/ ~IsStructure(Value)
    /\ \E v \in {IF Walked THEN Top.partial[1] ELSE Value} :
          /\ seen' = Append(seen, v)
          /\ heap' = Replace(heap, Revived(v))
          /\ frames' = SetTop(NextKey(Top, heap'))
          /\ result' = IF Len(frames) = 1 THEN <<Revived(v)>> ELSE result
          /\ phase' = IF Len(frames) = 1 THEN "done" ELSE phase
    /\ UNCHANGED <<case, stack, indent, mutations>>

\* Guest code throws, or the stack guard does, and the call ends with it.
Throw ==
    /\ phase = "walking" /\ AtKey
    /\ case.callbacks \/ TooDeep
    /\ phase' = "threw"
    /\ UNCHANGED <<case, heap, frames, stack, indent, result, seen, mutations>>

Next == SerializeProperty \/ LeaveStructure \/ Return \/ Descend \/ Ascend \/ CallReviver \/ Throw

(***************************************************************************)
(* What the walks are to compute.                                          *)
(***************************************************************************)
RootOf(h) == Get(h, Wrapper, Root)
Followed(o) == IF heap[o].class = "object" /\ case.list # <<>> THEN case.list ELSE StructureKeys(heap, o)
Edges(S) == {p \in Objects : \E o \in S : \E i \in DOMAIN Followed(o) : Get(heap, o, Followed(o)[i]) = Ref(p)}
RECURSIVE Closure(_)
Closure(S) == IF Edges(S) \subseteq S THEN S ELSE Closure(S \cup Edges(S))
Cyclic == IsStructure(RootOf(heap)) /\ \E o \in Closure({RootOf(heap)[2]}) : o \in Closure(Edges({o}))

RECURSIVE Denotes(_)
HasText(v) == v \notin {Undefined, <<"function">>}
DenotedPairs(o) ==
    LET present == SelectSeq(Followed(o), LAMBDA key : HasText(Get(heap, o, key)))
    IN  [i \in DOMAIN present |-> <<<<"string", <<present[i]>>>>, Denotes(Get(heap, o, present[i]))>>]
Denotes(v) ==
    IF ~IsStructure(v) THEN (IF ~HasText(v) \/ v = <<"number", <<"Infinity">>>> THEN <<"null">> ELSE v)
    ELSE IF heap[v[2]].class = "object" THEN <<"object", DenotedPairs(v[2])>>
    ELSE <<"array", [i \in 1..heap[v[2]].length |-> Denotes(Get(heap, v[2], Indices[i]))]>>

\* The text of JSON.stringify is JSON, whatever the callbacks return and
\* change meanwhile; without callbacks, with an indentation or not, JSON.parse
\* reads from it the value that was passed, what has no text left out of
\* objects and null in arrays.
StringifiedIsJSON ==
    case.walk = "stringify" /\ phase = "done" =>
        \E parsed \in {ParseJSONText(result)} :
            /\ result # <<>> => parsed.ok
            /\ ~case.callbacks =>
                IF HasText(RootOf(heap)) THEN parsed.value = Denotes(RootOf(heap)) ELSE result = <<>>

\* While JSON.stringify walks, its stack is the structures it is inside of,
\* none of them twice, and its indentation one gap for each; so it reports
\* a circular structure only of one that it would walk forever, and a
\* structure that is merely met twice is written twice.
CircularMeansCircular ==
    case.walk = "stringify" =>
        /\ stack = {frames[i].object : i \in 2..Len(frames)} /\ Cardinality(stack) = Len(frames) - 1
        /\ Len(indent) = (Len(frames) - 1) * Len(case.gap)
        /\ ~case.callbacks /\ phase \in {"done", "circular"} => (phase = "circular" <=> Cyclic)

RECURSIVE PostOrder(_), Kept(_, _)
PostOrder(v) ==
    IF ~IsStructure(v) THEN <<v>>
    ELSE LET keys == StructureKeys(case.heap, v[2])
         IN  FlattenSeq([i \in DOMAIN keys |-> PostOrder(Get(case.heap, v[2], keys[i]))]) \o <<v>>
\* The properties of a value that its reviver keeps, and theirs.
Kept(h, v) ==
    IF ~IsStructure(v) THEN {<<v>>}
    ELSE {<<h[v[2]].props[i][1], Kept(h, h[v[2]].props[i][2])>> :
            i \in {j \in DOMAIN h[v[2]].props : h[v[2]].props[j][2] \notin case.drops}}

\* The reviver is called once for every value that was parsed, for the parts
\* of a structure before the structure; and what JSON.parse returns holds the
\* values it was given back, without the properties it gave undefined for.
RevivedBottomUp ==
    case.walk = "revive" /\ phase = "done" =>
        /\ seen = PostOrder(RootOf(case.heap))
        /\ result = <<Revived(RootOf(case.heap))>>
        /\ Kept(heap, RootOf(heap)) = Kept(case.heap, RootOf(case.heap))
        /\ \A o \in {p \in Objects : Ref(p) \in ToSet(seen)} :
              \A i \in DOMAIN heap[o].props : heap[o].props[i][2] \notin case.drops
================================================================================
