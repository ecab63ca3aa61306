-------------------------------- MODULE Objects --------------------------------
(***************************************************************************)
(* Guest code and the built-in operations on objects that call back into   *)
(* it.  The stack holds what is running: guest code at the bottom and      *)
(* wherever a built-in has called an accessor, a callback or a conversion, *)
(* and under each such call the built-in that waits for it: a method of    *)
(* Array.prototype, an assignment to an array's length, a for-in loop, or  *)
(* Object.defineProperties.  Guest code may do anything to the heap while  *)
(* they wait.                                                              *)
(***************************************************************************)
EXTENDS ObjectModel

-----------------------------------------------------------------------------
(***************************************************************************)
(* The methods of Array.prototype (builtins/array.js), each as the         *)
(* sequence of operations it performs on its receiver once the receiver's  *)
(* length has been read.  The sequence depends on the call alone; what an  *)
(* operation finds depends on the receiver at the time, and guest code     *)
(* that runs in between may have changed it.                               *)
(*                                                                         *)
(* Second part: what each method is for, as a function of the elements     *)
(* alone, to compare with a call that nothing disturbed.                   *)
(***************************************************************************)
Hole == -4   \* no element: an index without a property
Nothing == -5   \* reduce without an initial value, before its first element

\* Operations of a method; i and j are indices of the receiver or of the result.
Put(i, v) == [op |-> "put", i |-> i, v |-> v]
SetLength(v) == [op |-> "length", v |-> v]
Take(i) == [op |-> "take", i |-> i]
Drop(i) == [op |-> "delete", i |-> i]
Move(i, j) == [op |-> "move", i |-> i, j |-> j]
Swap(i, j) == [op |-> "swap", i |-> i, j |-> j]
Measure(o) == [op |-> "measure", from |-> o]
Copy(o, i, j) == [op |-> "copy", from |-> o, i |-> i, j |-> j]
SizeResult(n) == [op |-> "size", v |-> n]
Visit(i) == [op |-> "visit", i |-> i]
Test(i) == [op |-> "test", i |-> i]
Collect(i) == [op |-> "collect", i |-> i]
Show(i) == [op |-> "show", i |-> i]

Each(n, Op(_)) == [i \in 1 .. n |-> Op(i - 1)]
Lesser(a, b) == IF a < b THEN a ELSE b
Greater(a, b) == IF a > b THEN a ELSE b
\* clampRelativeIndex
Clamp(r, n) == IF r < 0 THEN Greater(n + r, 0) ELSE Lesser(r, n)

(***************************************************************************)
(* Mutating methods.  n is the length that was read, a the arguments.      *)
(***************************************************************************)
Puts(at, a) == Each(Len(a), LAMBDA i : Put(at + i, a[i + 1]))
Push(n, a) == Append(Puts(n, a), SetLength(n + Len(a)))
Pop(n) == IF n = 0 THEN <<SetLength(0)>>
          ELSE <<Take(n - 1), Drop(n - 1), SetLength(n - 1)>>
Shift(n) == IF n = 0 THEN <<SetLength(0)>>
            ELSE <<Take(0)>> \o Each(n - 1, LAMBDA i : Move(i + 1, i))
                             \o <<Drop(n - 1), SetLength(n - 1)>>
\* Mutant: the elements are moved from the front, each over the next.
UnshiftAscending(n, a) == Each(n, LAMBDA i : Move(i, i + Len(a)))
                     \o Puts(0, a) \o <<SetLength(n + Len(a))>>
Unshift(n, a) == Each(n, LAMBDA i : Move(n - 1 - i, n - 1 - i + Len(a)))
                     \o Puts(0, a) \o <<SetLength(n + Len(a))>>
ReverseAll(n) == Each(n \div 2, LAMBDA i : Swap(i, n - 1 - i))
\* a = <<start, count, items...>>, the items in the place of the count removed.
SpliceStart(n, a) == Clamp(a[1], n)
SpliceCount(n, a) == Lesser(Greater(a[2], 0), n - SpliceStart(n, a))
Splice(on, n, a) ==
    LET s == SpliceStart(n, a)  d == SpliceCount(n, a)
        items == SubSeq(a, 3, Len(a))  c == Len(items)
        shifts == IF c < d
                  THEN Each(n - d - s, LAMBDA i : Move(s + i + d, s + i + c))
                           \o Each(d - c, LAMBDA i : Drop(n - 1 - i))
                  ELSE IF c > d
                  THEN Each(n - d - s, LAMBDA i : Move(n - 1 - i, n - 1 - i + c - d))
                  ELSE <<>>
    IN Each(d, LAMBDA i : Copy(on, s + i, i)) \o <<SizeResult(d)>>
           \o shifts \o Puts(s, items) \o <<SetLength(n - d + c)>>
\* The values in order and the number of undefined ones are known once all are collected.
Sort(n, sorted, undefineds) ==
    LET w == Len(sorted) + undefineds IN
    Each(n, Collect) \o Puts(0, sorted)
        \o Each(undefineds, LAMBDA i : Put(Len(sorted) + i, Undefined))
        \o Each(n - w, LAMBDA i : Drop(w + i))

(***************************************************************************)
(* Methods that leave the receiver alone.                                  *)
(***************************************************************************)
\* Every array given is measured, then copied behind the one before it.
Concat(sources, lengths) ==
    LET start(s) == FoldLeft(LAMBDA x, y : x + y, 0, SubSeq(lengths, 1, s - 1))
        part(s) == <<Measure(sources[s])>> \o
                     (IF s > Len(lengths) THEN <<>>
                      ELSE Each(lengths[s], LAMBDA i : Copy(sources[s], i, start(s) + i)))
        done == Len(lengths) = Len(sources)
    IN FlattenSeq([s \in 1 .. Lesser(Len(lengths) + 1, Len(sources)) |-> part(s)])
           \o (IF done THEN <<SizeResult(start(Len(sources) + 1))>> ELSE <<>>)
Slice(on, n, a) ==
    LET s == Clamp(a[1], n)  e == Clamp(a[2], n) IN
    Each(Greater(e - s, 0), LAMBDA i : Copy(on, s + i, i)) \o <<SizeResult(Greater(e - s, 0))>>
\* a = <<value, from>>
IndexOfSteps(n, a) ==
    LET s == IF a[2] >= 0 THEN a[2] ELSE Greater(n + a[2], 0)
    IN IF n = 0 \/ a[2] >= n THEN <<>> ELSE Each(n - s, LAMBDA i : Test(s + i))
LastIndexOfSteps(n, a) ==
    LET s == IF a[2] >= 0 THEN Lesser(a[2], n - 1) ELSE n + a[2]
    IN IF n = 0 \/ a[2] < -n THEN <<>> ELSE Each(s + 1, LAMBDA i : Test(s - i))
VisitsUp(n) == Each(n, Visit)
VisitsDown(n) == Each(n, LAMBDA i : Visit(n - 1 - i))
\* join and toLocaleString read every index, present or not.
JoinSteps(n) == Each(n, Show)
MapSteps(n) == <<SizeResult(n)>> \o VisitsUp(n)

Steps(f) ==
    LET n == f.n  a == f.args IN
    CASE f.m = "push" -> Push(n, a)
      [] f.m = "pop" -> Pop(n)
      [] f.m = "shift" -> Shift(n)
      [] f.m = "unshift" -> Unshift(n, a)
      [] f.m = "reverse" -> ReverseAll(n)
      [] f.m = "splice" -> Splice(f.on, n, a)
      [] f.m = "sort" -> Sort(n, f.sorted, f.undefineds)
      [] f.m = "concat" -> Concat(f.sources, f.lengths)
      [] f.m = "slice" -> Slice(f.on, n, a)
      [] f.m = "indexOf" -> IndexOfSteps(n, a)
      [] f.m = "lastIndexOf" -> LastIndexOfSteps(n, a)
      [] f.m = "map" -> MapSteps(n)
      [] f.m \in {"join", "toLocaleString"} -> JoinSteps(n)
      [] f.m = "reduceRight" -> VisitsDown(n)
      [] OTHER -> VisitsUp(n)     \* every, some, forEach, filter, reduce

(***************************************************************************)
(* What the methods are for.  e is the sequence of elements, holes         *)
(* included; said the answers of the callbacks, as pairs index and value.  *)
(***************************************************************************)
Elements(h, o) ==
    [i \in 1 .. Length(h, o) |->
        LET r == Lookup(h, o, Key(i - 1)) IN
        IF HasProperty(h, o, Key(i - 1)) THEN r.value ELSE Hole]
Real(e) == SelectSeq(e, LAMBDA v : v # Hole)
Swapped(e) == [i \in DOMAIN e |-> e[Len(e) + 1 - i]]
Sorted(e) == LET v == SelectSeq(Real(e), LAMBDA x : x # Undefined) IN
             SortSeq(v, LAMBDA x, y : x < y)
                \o [i \in 1 .. Len(Real(e)) - Len(v) |-> Undefined]
                \o [i \in 1 .. Len(e) - Len(Real(e)) |-> Hole]
Effect(f, e) ==
    LET a == f.args IN
    CASE f.m = "push" -> e \o a
      [] f.m = "pop" -> IF e = <<>> THEN e ELSE Front(e)
      [] f.m = "shift" -> IF e = <<>> THEN e ELSE Tail(e)
      [] f.m = "unshift" -> a \o e
      [] f.m = "reverse" -> Swapped(e)
      [] f.m = "sort" -> Sorted(e)
      [] f.m = "splice" ->
            LET s == SpliceStart(Len(e), a) IN
            SubSeq(e, 1, s) \o SubSeq(a, 3, Len(a))
                \o SubSeq(e, s + SpliceCount(Len(e), a) + 1, Len(e))
      [] OTHER -> e

\* A comparison that contradicts itself may leave any order, of the same values.
Count(e, v) == Cardinality({i \in DOMAIN e : e[i] = v})
Achieves(f, e, new) ==
    IF f.m = "sort" /\ f.args # <<>>
    THEN /\ Len(new) = Len(e)
         /\ \A v \in ToSet(e) : Count(new, v) = Count(e, v)
         /\ \A i \in DOMAIN e : Sorted(e)[i] \in {Hole, Undefined} => new[i] = Sorted(e)[i]
    ELSE new = Effect(f, e)

Kept(e, said) == [i \in DOMAIN e |-> IF \E p \in ToSet(said) : p[1] = i - 1 /\ p[2] = 1
                                     THEN e[i] ELSE Hole]
Chosen(e, said) == [i \in DOMAIN e |-> IF \E p \in ToSet(said) : p[1] = i - 1
                                       THEN (CHOOSE p \in ToSet(said) : p[1] = i - 1)[2]
                                       ELSE Hole]
Least(S) == IF S = {} THEN -1 ELSE Min(S)
Most(S) == IF S = {} THEN -1 ELSE Max(S)
ListResult(f, was, e) ==
    LET a == f.args IN
    CASE f.m = "splice" -> LET s == SpliceStart(Len(e), a) IN
                           SubSeq(e, s + 1, s + SpliceCount(Len(e), a))
      [] f.m = "slice" -> SubSeq(e, Clamp(a[1], Len(e)) + 1, Clamp(a[2], Len(e)))
      [] f.m = "concat" -> FlattenSeq([s \in DOMAIN f.sources |-> was[f.sources[s]]])
      [] f.m = "map" -> Chosen(e, f.said)
      [] f.m = "filter" -> Real(Kept(e, f.said))
      [] f.m = "join" -> [i \in DOMAIN e |-> IF e[i] = Hole THEN Undefined ELSE e[i]]
      [] f.m = "toLocaleString" ->
            LET told == Chosen(e, f.said) IN
            [i \in DOMAIN e |-> IF told[i] = Hole THEN Undefined ELSE told[i]]
      [] OTHER -> <<>>
ValueResult(f, e) ==
    LET a == f.args
        places == {i \in DOMAIN e : e[i] = a[1] /\ e[i] # Hole}
        present == {i \in DOMAIN e : e[i] # Hole}
    IN CASE f.m = "pop" -> IF e = <<>> \/ Last(e) = Hole THEN Undefined ELSE Last(e)
         [] f.m = "shift" -> IF e = <<>> \/ e[1] = Hole THEN Undefined ELSE e[1]
         [] f.m = "indexOf" ->
              Least({i - 1 : i \in {j \in places : j - 1 >= Clamp(a[2], Len(e))}})
         [] f.m = "lastIndexOf" ->
              Most({i - 1 : i \in {j \in places : j - 1 <= IF a[2] < 0 THEN Len(e) + a[2] ELSE a[2]}})
         [] f.m = "every" -> IF \E p \in ToSet(f.said) : p[2] = 0 THEN 0 ELSE 1
         [] f.m = "some" -> IF \E p \in ToSet(f.said) : p[2] = 1 THEN 1 ELSE 0
         [] f.m \in {"reduce", "reduceRight"} ->
              IF f.said # <<>> THEN Last(f.said)[2]
              ELSE IF a # <<>> THEN a[1] ELSE e[CHOOSE i \in present : TRUE]
         [] OTHER -> Undefined
\* The elements whose callback had to be called before the method could answer.
MustVisit(f, e) ==
    LET present == {i - 1 : i \in {j \in DOMAIN e : e[j] # Hole}}
        stop == {p \in ToSet(f.said) : p[2] = (IF f.m = "every" THEN 0 ELSE 1)}
    IN CASE f.m \in {"map", "filter", "forEach"} -> present
         [] f.m = "toLocaleString" -> {i \in present : e[i + 1] # Undefined}
         [] f.m \in {"every", "some"} ->
              {i \in present : \A p \in stop : i <= p[1]}
         [] f.m = "reduce" -> IF f.args # <<>> THEN present ELSE present \ {Least(present)}
         [] f.m = "reduceRight" -> IF f.args # <<>> THEN present ELSE present \ {Most(present)}
         [] OTHER -> {}

-----------------------------------------------------------------------------
(***************************************************************************)
(* The machine.                                                            *)
(***************************************************************************)
CONSTANTS Heaps,          \* the heaps a behaviour may start with
          MaxOperations,  \* bound on the operations guest code performs
          MaxDepth,       \* bound on the stack
          Definitions, Deletions, Assignments, Prototypes, Levels, Bindings,
          Calls, Loops, DefineAlls,   \* the operations guest code may choose from
          Answers,        \* use |-> the values guest code may return for it
          Candidates      \* value |-> the property descriptor that it denotes

VARIABLES heap, stack, left   \* left: the operations guest code may still perform
vars == <<heap, stack, left>>

Top == Last(stack)
Below == Front(stack)
Guest(use) == [kind |-> "guest", use |-> use]

\* Ghost: the keys a for-in over o would find enumerable now.
Visible(h, o) ==
    {k \in UNION {DOMAIN h.obj[x].props \cup DOMAIN h.obj[x].alias \cup ToSet(OwnKeys(h, x))
                    : x \in ToSet(Chain(h, o))} \ Symbols :
        /\ HasProperty(h, o, k)
        /\ GetOwn(h, Owner(h, o, k), k).enumerable}
\* Ghost: a loop's steady keys are those it has found enumerable ever since it
\* began; a method knows the elements it began with until guest code does anything.
Noted(f, h) ==
    CASE f.kind = "forin" -> [f EXCEPT !.steady = @ \cap Visible(h, f.on)]
      [] f.kind = "method" /\ f.left # left' -> [f EXCEPT !.was = {}]
      [] OTHER -> f
Go(h, st) == /\ heap' = h
             /\ stack' = [i \in DOMAIN st |-> Noted(st[i], h)]

(***************************************************************************)
(* Operations of guest code that finish at once or wait for one call.      *)
(* A refusal that throws is caught by the guest code that asked for it.    *)
(***************************************************************************)
Acts == Top.kind = "guest" /\ left > 0 /\ left' = left - 1
Room == Len(stack) + 2 <= MaxDepth

\* An array's length is read before the value it is to have is converted,
\* and the value is converted twice.
Convert(o, c) ==
    [kind |-> "length", on |-> o, c |-> c, cur |-> Props(heap, o)["length"],
     first |-> Hole, second |-> Hole]

GuestDefine ==
    \E d \in Definitions :
        /\ Acts
        /\ IF Converts(heap, d.on, d.key, d.as)
           THEN Room /\ Go(heap, stack \o <<Convert(d.on, d.as), Guest("number")>>)
           ELSE Go(DefineOwn(heap, d.on, d.key, d.as).heap, stack)
GuestDelete == \E d \in Deletions : Acts /\ Go(Delete(heap, d.on, d.key).heap, stack)

GuestAssign ==
    \E a \in Assignments :
        LET r == Assign(heap, a.on, a.key, a.value, a.receiver) IN
        /\ Acts
        /\ CASE r.out = "call" -> Room /\ Go(heap, Append(stack, Guest("setter")))
             [] r.out = "define" ->
                  IF Converts(heap, a.receiver, a.key, r.define)
                  THEN Room /\ Go(heap, stack \o <<Convert(a.receiver, r.define), Guest("number")>>)
                  ELSE Go(DefineOwn(heap, a.receiver, a.key, r.define).heap, stack)
             [] OTHER -> Go(heap, stack)
GuestSetPrototype ==
    \E p \in Prototypes : Acts /\ Go(SetProto(heap, p.on, p.as).heap, stack)
GuestIntegrity ==
    \E l \in Levels :
        /\ Acts
        /\ Go(IF l.level = "extensions" THEN PreventExtensions(heap, l.on)
              ELSE SetIntegrity(heap, l.on, l.level).heap, stack)
\* The parameter of an arguments object, or the binding of an export, is assigned.
GuestBind == \E b \in Bindings : Acts /\ Go([heap EXCEPT !.cells[b.cell] = b.value], stack)

\* An array's length is greater than each of its indices.
Covered(h, a) == \A i \in 0 .. MaxLength - 1 : Key(i) \in DOMAIN Props(h, a) => i < Length(h, a)
\* An array whose elements are ordinary data properties that nothing inherits.
Plain(h, o) ==
    /\ h.obj[o].kind = "array" /\ h.obj[o].ext /\ Covered(h, o)
    /\ Props(h, o)["length"].writable
    /\ \A k \in DOMAIN Props(h, o) :
          IsIndex(k) => LET d == Props(h, o)[k] IN IsData(d) /\ d.writable /\ d.configurable
    /\ \A x \in ToSet(Chain(h, o)) \ {o} : \A k \in ToSet(OwnKeys(h, x)) : ~IsIndex(k)
\* Ghost: the elements of the arrays a call is about, if they are all plain.
Before(c) ==
    LET arrays == {c.on} \cup ToSet(c.sources) IN
    IF \A a \in arrays : Plain(heap, a) THEN {[a \in arrays |-> Elements(heap, a)]} ELSE {}
NewMethod(c) ==
    [kind |-> "method", m |-> c.m, on |-> c.on, args |-> c.args, sources |-> c.sources,
     n |-> Hole, lengths |-> <<>>, pc |-> 1, phase |-> "begin", got |-> <<Hole, Hole>>,
     out |-> <<>>, acc |-> IF c.m \in {"reduce", "reduceRight"} /\ c.args # <<>>
                           THEN c.args[1] ELSE Nothing,
     said |-> <<>>, sorted |-> <<>>, undefineds |-> 0, at |-> 0, was |-> Before(c), left |-> left - 1]
GuestCall == \E c \in Calls : Acts /\ Room /\ Go(heap, Append(stack, NewMethod(c)))

Candidate(k) == k \notin Symbols
GuestLoop ==
    \E o \in Loops :
        /\ Acts /\ Room
        /\ Go(heap, Append(stack,
              [kind |-> "forin", on |-> o, at |-> 1, visited |-> {}, given |-> <<>>,
               keys |-> SelectSeq(FlattenSeq([i \in DOMAIN Chain(heap, o) |->
                                     OwnKeys(heap, Chain(heap, o)[i])]), Candidate),
               steady |-> Visible(heap, o)]))
GuestDefineAll ==
    \E d \in DefineAlls :
        /\ Acts /\ Room
        /\ Go(heap, Append(stack, [kind |-> "collect", on |-> d.on, from |-> d.from, at |-> 1,
                                   keys |-> OwnKeys(heap, d.from), found |-> <<>>]))

(***************************************************************************)
(* What a built-in does next.  Abandon: it throws, and its caller catches. *)
(***************************************************************************)
Abandon(h) == Go(h, Below)
Await(f, use) == Len(stack) < MaxDepth /\ Go(heap, Append(Append(Below, f), Guest(use)))
Become(h, f) == Go(h, Append(Below, f))
Advance(f) == [f EXCEPT !.pc = @ + 1, !.phase = "begin"]

\* object.set(key, value) or TypeError, going on with frame g.
Write(f, k, v, g) ==
    \E r \in {Assign(heap, f.on, k, v, f.on)} :
        CASE r.out = "call" -> Await(g, "setter")
          [] r.out = "define" ->
               \E d \in {DefineOwn(heap, f.on, k, r.define)} :
                   Go(d.heap, IF Succeeded(d) THEN Append(Below, g) ELSE Below)
          [] OTHER -> Abandon(heap)
Erase(f, k, g) ==
    \E d \in {Delete(heap, f.on, k)} :
        IF Succeeded(d) THEN Become(d.heap, g) ELSE Abandon(heap)
\* Get of key k of o: the value goes to place p of the frame, which goes on in phase ph.
Read(f, o, k, p, ph) ==
    LET r == Lookup(heap, o, k)  g == [f EXCEPT !.phase = ph] IN
    CASE r.out = "call" -> Await([g EXCEPT !.at = p], "got")
      [] r.out = "throw" -> Abandon(heap)
      [] OTHER -> Become(heap, [g EXCEPT !.got[p] = r.value])

\* toUint32 of what is no object: undefined becomes NaN and then 0.
Uint32(v) == IF v < 0 THEN 0 ELSE v % (MaxLength + 1)
\* arrayLikeLength, then the conversion of the arguments that are objects.
Measured(f, v) == IF f.n = Hole THEN [f EXCEPT !.n = Uint32(v)]
                  ELSE [f EXCEPT !.lengths = Append(@, Uint32(v)), !.pc = @ + 1]
ReadLength(f, o) ==
    LET r == Lookup(heap, o, "length") IN
    CASE r.out = "call" -> Await(f, "length")
      [] r.out = "throw" -> Abandon(heap)
      [] r.value = Convertible -> Await(f, "number")
      [] OTHER -> Become(heap, Measured(f, r.value))
Pending(f) == {i \in DOMAIN f.args : f.args[i] = Convertible}
Op(f) == Steps(f)[f.pc]
Over(f) == f.pc > Len(Steps(f))

MethodStarts ==
    /\ Top.kind = "method"
    /\ Top.n = Hole \/ Pending(Top) # {}
    /\ UNCHANGED left
    /\ IF Top.n = Hole THEN ReadLength(Top, Top.on) ELSE Await(Top, "argument")

Runs(ops) ==
    /\ Top.kind = "method" /\ Top.n # Hole /\ Pending(Top) = {}
    /\ ~Over(Top) /\ Op(Top).op \in ops
    /\ UNCHANGED left

MethodWrites ==
    /\ Runs({"put", "length", "delete", "size", "measure"})
    /\ \E f \in {Top} : \E o \in {Op(f)} :
          CASE o.op \in {"put", "length"} ->
                 Write(f, IF o.op = "put" THEN Key(o.i) ELSE "length", o.v, Advance(f))
            [] o.op = "delete" -> Erase(f, Key(o.i), Advance(f))
            [] o.op = "size" ->
                 Become(heap, Advance([f EXCEPT !.out = [i \in 1 .. o.v |->
                                          IF i \in DOMAIN f.out THEN f.out[i] ELSE Hole]]))
            [] o.op = "measure" -> ReadLength(f, o.from)

Placed(out, j, v) ==
    [i \in 1 .. Greater(Len(out), j + 1) |->
        IF i = j + 1 THEN v ELSE IF i \in DOMAIN out THEN out[i] ELSE Hole]
Source(f, o) == IF o.op = "copy" THEN o.from ELSE f.on

Reading == {"take", "move", "copy", "visit", "test", "collect", "show"}

MethodReads ==
    /\ Runs(Reading) /\ Top.phase = "begin"
    /\ \E f \in {Top} : \E o \in {Op(f)} :
          IF o.op \in {"take", "show"} \/ HasProperty(heap, Source(f, o), Key(o.i))
          THEN Read(f, Source(f, o), Key(o.i), 1, "got")
          ELSE IF o.op = "move" THEN Erase(f, Key(o.j), Advance(f))
          ELSE Become(heap, Advance(f))

\* insertSorted: v goes before the elements the comparison finds greater.
Insert(s, i, v) == SubSeq(s, 1, i) \o <<v>> \o SubSeq(s, i + 1, Len(s))
Gather(f, v) ==
    IF v = Undefined THEN Become(heap, Advance([f EXCEPT !.undefineds = @ + 1]))
    ELSE IF f.args = <<>>
    THEN Become(heap, Advance([f EXCEPT !.sorted =
                    Insert(@, Cardinality({i \in DOMAIN @ : @[i] <= v}), v)]))
    ELSE Become(heap, [f EXCEPT !.phase = "insert", !.at = Len(f.sorted)])

MethodUses ==
    /\ Runs(Reading) /\ Top.phase = "got"
    /\ \E f \in {Top} : \E o \in {Op(f)} : \E v \in {f.got[1]} :
          CASE o.op = "take" -> Become(heap, Advance([f EXCEPT !.acc = v]))
            [] o.op = "move" -> Write(f, Key(o.j), v, Advance(f))
            [] o.op = "copy" -> Become(heap, Advance([f EXCEPT !.out = Placed(@, o.j, v)]))
            [] o.op = "test" ->
                 IF v = f.args[1]
                 THEN Become(heap, [f EXCEPT !.acc = o.i, !.pc = Len(Steps(f)) + 1])
                 ELSE Become(heap, Advance(f))
            [] o.op = "collect" -> Gather(f, v)
            [] o.op = "show" /\ (f.m = "join" \/ v = Undefined) ->
                 IF v = Convertible THEN Await(f, "text")
                 ELSE Become(heap, Advance([f EXCEPT !.out = Append(@, v)]))
            [] OTHER ->
                 IF f.m \in {"reduce", "reduceRight"} /\ f.acc = Nothing
                 THEN Become(heap, Advance([f EXCEPT !.acc = v]))
                 ELSE Await(f, "callback")
MethodInserts ==
    LET f == Top IN
    /\ Runs({"collect"}) /\ f.phase = "insert"
    /\ IF f.at = 0 THEN Become(heap, Advance([f EXCEPT !.sorted = Insert(@, 0, f.got[1])]))
       ELSE Await(f, "compare")

\* reverse: both ends are read, the lower first, before either is written.
MethodSwaps ==
    /\ Runs({"swap"})
    /\ \E f \in {Top} : \E o \in {Op(f)} :
          LET next == CASE f.phase = "begin" -> [f EXCEPT !.phase = "upper"]
                        [] f.phase = "upper" -> [f EXCEPT !.phase = "lower"]
                        [] f.phase = "lower" -> [f EXCEPT !.phase = "last"]
                        [] f.phase = "last" -> Advance(f)
              k == Key(IF f.phase \in {"begin", "lower"} THEN o.i ELSE o.j)
              half == IF f.phase = "upper" THEN 2 ELSE 1
              value == f.got[IF f.phase = "lower" THEN 2 ELSE 1]
          IN IF f.phase \in {"begin", "upper"}
             THEN IF HasProperty(heap, f.on, k) THEN Read(f, f.on, k, half, next.phase)
                  ELSE Become(heap, [next EXCEPT !.got[half] = Hole])
             ELSE IF f.got = <<Hole, Hole>> THEN Become(heap, Advance(f))
             ELSE IF value = Hole THEN Erase(f, k, next) ELSE Write(f, k, value, next)

MethodEnds ==
    /\ Top.kind = "method" /\ Top.n # Hole /\ Pending(Top) = {} /\ Over(Top)
    /\ UNCHANGED left
    /\ Abandon(heap)     \* its value, or the TypeError of an empty reduce, goes to its caller

(***************************************************************************)
(* The other built-ins that wait.                                          *)
(***************************************************************************)
LengthConverts ==
    LET f == Top  n == Uint32(f.first) IN
    /\ f.kind = "length"
    /\ UNCHANGED left
    /\ IF f.second = Hole THEN Await(f, "number")
       ELSE IF n # f.second THEN Abandon(heap)
       ELSE Abandon(DefineLength(heap, f.on, f.c, f.cur, n).heap)

\* The descriptor is looked up when the key's turn comes, not when the loop begins.
SkipsDead(f, k, owner) == owner = Nobody     \* mutant: a key found before is not skipped
Skips(f, k, owner) == k \in f.visited \/ owner = Nobody
ForInNext ==
    LET f == Top
        k == f.keys[f.at]
        g == [f EXCEPT !.at = @ + 1]
        owner == Owner(heap, f.on, k)
    IN /\ f.kind = "forin"
       /\ UNCHANGED left
       /\ IF f.at > Len(f.keys) THEN Abandon(heap)
          ELSE IF Skips(f, k, owner) THEN Become(heap, g)
          ELSE IF Unreadable(heap, owner, k) THEN Abandon(heap)
          ELSE IF ~GetOwn(heap, owner, k).enumerable
          THEN Become(heap, [g EXCEPT !.visited = @ \cup {k}])
          ELSE Await([g EXCEPT !.visited = @ \cup {k}, !.given = Append(@, k)], "body")

DefineEach(o, found) ==
    FoldLeft(LAMBDA r, d : IF Succeeded(r) THEN DefineOwn(r.heap, o, d[1], Candidates[d[2]]) ELSE r,
             Done(TRUE, heap), found)
\* Every descriptor is read before the first property is defined.
CollectDescriptors ==
    LET f == Top
        k == f.keys[f.at]
        g == [f EXCEPT !.at = @ + 1]
        r == Lookup(heap, f.from, k)
    IN /\ f.kind = "collect"
       /\ UNCHANGED left
       /\ IF \E i \in DOMAIN f.found : f.found[i][2] \notin DOMAIN Candidates THEN Abandon(heap)
          ELSE IF f.at > Len(f.keys) THEN Abandon(DefineEach(f.on, f.found).heap)
          ELSE IF Unreadable(heap, f.from, k) THEN Abandon(heap)
          ELSE IF ~Present(GetOwn(heap, f.from, k)) \/ ~GetOwn(heap, f.from, k).enumerable
          THEN Become(heap, g)
          ELSE IF r.out = "call" THEN Await(g, "descriptor")
          ELSE Become(heap, [g EXCEPT !.found = Append(@, <<k, r.value>>)])

(***************************************************************************)
(* Guest code called by a built-in returns a value or throws.              *)
(***************************************************************************)
Visited(f, v) ==
    LET i == Op(f).i  g == [Advance(f) EXCEPT !.said = Append(@, <<i, v>>)] IN
    CASE \/ f.m = "every" /\ v = 0
         \/ f.m = "some" /\ v = 1 -> [g EXCEPT !.acc = v, !.pc = Len(Steps(f)) + 1]
      [] f.m = "map" -> [g EXCEPT !.out = Placed(@, i, v)]
      [] f.m = "toLocaleString" -> [g EXCEPT !.out = Append(@, v)]
      [] f.m = "filter" /\ v = 1 -> [g EXCEPT !.out = Append(@, f.got[1])]
      [] f.m \in {"reduce", "reduceRight"} -> [g EXCEPT !.acc = v]
      [] OTHER -> g
Compared(f, v) ==
    IF v > 0 THEN [f EXCEPT !.at = @ - 1]
    ELSE Advance([f EXCEPT !.sorted = Insert(@, f.at, f.got[1])])
TookNumber(f, v) ==
    IF f.kind = "method" THEN Measured(f, v)
    ELSE IF f.first = Hole THEN [f EXCEPT !.first = v] ELSE [f EXCEPT !.second = v]
Resumed(f, use, v) ==
    CASE use = "got" -> [f EXCEPT !.got[f.at] = v]
      [] use = "length" -> Measured(f, v)
      [] use = "number" -> TookNumber(f, v)
      [] use = "argument" -> [f EXCEPT !.args[Min(Pending(f))] = v]
      [] use = "callback" -> Visited(f, v)
      [] use = "text" -> Advance([f EXCEPT !.out = Append(@, v)])
      [] use = "compare" -> Compared(f, v)
      [] use = "descriptor" -> [f EXCEPT !.found = Append(@, <<f.keys[f.at - 1], v>>)]
      [] OTHER -> f      \* a setter's value and that of a loop's body are dropped

GuestReturns ==
    /\ Top.kind = "guest" /\ Len(stack) > 1
    /\ UNCHANGED left
    /\ \E v \in Answers[Top.use] :
          Go(heap, IF Last(Below).kind = "guest" THEN Below
                   ELSE Append(Front(Below), Resumed(Last(Below), Top.use, v)))
GuestThrows ==
    /\ Top.kind = "guest" /\ Len(stack) > 1
    /\ UNCHANGED left
    /\ Go(heap, IF Last(Below).kind = "guest" THEN Below ELSE Front(Below))

Init == heap \in Heaps /\ stack = <<Guest("main")>> /\ left = MaxOperations
Operate == \/ GuestDefine \/ GuestDelete \/ GuestAssign \/ GuestSetPrototype
           \/ GuestIntegrity \/ GuestBind \/ GuestCall \/ GuestLoop \/ GuestDefineAll
Method == \/ MethodStarts \/ MethodWrites \/ MethodReads \/ MethodUses
          \/ MethodInserts \/ MethodSwaps \/ MethodEnds
Next == \/ Operate \/ Method \/ LengthConverts \/ ForInNext \/ CollectDescriptors
        \/ GuestReturns \/ GuestThrows
Spec == Init /\ [][Next]_vars

(***************************************************************************)
(* Properties.                                                             *)
(***************************************************************************)
\* Whatever runs, a step keeps the promises objects have made: a property that
\* is not configurable stays what it is, up to the value of a writable one and
\* up to becoming read-only; an object that is not extensible gains no key and
\* keeps its prototype.  (The fast path of ordinaryDefineOwnProperty, aliased
\* arguments, partial shrinks and every method must all respect it.)
KeepsPromises(o) ==
    /\ \A k \in ToSet(OwnKeys(heap, o)) :
          LET d == GetOwn(heap, o, k)  e == GetOwn(heap', o, k) IN
          ~d.configurable =>
              /\ Present(e) /\ ~e.configurable
              /\ e.enumerable = d.enumerable /\ IsData(e) = IsData(d)
              /\ IsAccessor(d) \/ ~d.writable => e = d
    /\ ~heap.obj[o].ext =>
          /\ ~heap'.obj[o].ext
          /\ heap'.obj[o].proto = heap.obj[o].proto
          /\ ToSet(OwnKeys(heap', o)) \subseteq ToSet(OwnKeys(heap, o))
EssentialInvariants == [][\A o \in Ids : KeepsPromises(o)]_heap

Arrays == {o \in Ids : heap.obj[o].kind = "array"}

\* No step uncovers an index, save one: an assignment to length that had read
\* the length before the conversion of the new value changed it.  In particular
\* a shrink that stops at an index it may not delete leaves length above it.
LengthKeepsItsCover ==
    [][\A a \in Arrays :
          Covered(heap, a) /\ ~Covered(heap', a) =>
             /\ Top.kind = "length" /\ Top.on = a
             /\ Top.cur # Props(heap, a)["length"]]_heap

Answer(f) ==
    IF f.acc # Nothing THEN f.acc
    ELSE CASE f.m \in {"indexOf", "lastIndexOf"} -> -1
           [] f.m = "every" -> 1
           [] f.m = "some" -> 0
           [] OTHER -> Undefined

\* A method of Array.prototype that nothing disturbed has done what it is for:
\* the receiver's elements, holes included, its result and the elements it has
\* shown to the callback are those its definition on sequences gives.
MethodsMeetTheirDefinition ==
    LET f == Top IN
    /\ f.kind = "method" /\ f.n # Hole /\ Pending(f) = {} /\ Over(f)
    /\ f.m \in {"reduce", "reduceRight"} => f.acc # Nothing
    => \A was \in f.was :
          LET e == was[f.on] IN
          /\ Achieves(f, e, Elements(heap, f.on))
          /\ f.out = ListResult(f, was, e)
          /\ f.m \notin {"sort"} => Answer(f) = ValueResult(f, e)
          /\ {f.said[i][1] : i \in DOMAIN f.said} = MustVisit(f, e)
          /\ Cardinality(MustVisit(f, e)) = Len(f.said)

\* for-in gives no key twice and, when it ends, has given every key that was
\* enumerable all along, whatever the loop's body did to the objects.
ForInIsFaithful ==
    \A i \in DOMAIN stack : stack[i].kind = "forin" =>
        LET f == stack[i] IN
        /\ Cardinality(ToSet(f.given)) = Len(f.given)
        /\ i = Len(stack) /\ f.at > Len(f.keys) => f.steady \subseteq ToSet(f.given)
\* setPrototypeOf never closes a cycle: every walk up the prototypes ends.
ChainsEnd == \A o \in Ids : EndsWell(heap, o)

\* Object.freeze and Object.seal, when they return, have done it for every key,
\* whatever kind of object they were given.
IntegrityIsComplete ==
    Top.kind = "guest" =>
        \A o \in Ids : \A level \in {"sealed", "frozen"} :
            \A r \in {SetIntegrity(heap, o, level)} : Succeeded(r) => IsAt(r.heap, o, level)

\* What guest code finds in the heap between any two steps, of its own and of built-ins.
ObjectsHold == ChainsEnd /\ IntegrityIsComplete
\* What no step of them does to it.
ObjectsKeepTheirPromises == EssentialInvariants /\ LengthKeepsItsCover
================================================================================
