------------------------------ MODULE ObjectModel ------------------------------
(***************************************************************************)
(* The essential internal methods of guest objects: ordinary objects       *)
(* (runtime/object.js) and the exotic ones that override some of them,     *)
(* arrays (array-object.js), String wrappers (primitive-object.js), mapped *)
(* arguments objects (function-object.js) and module namespaces            *)
(* (module-namespace.js).  Everything here is a function of a heap; the    *)
(* module Objects interleaves these operations with guest code.            *)
(*                                                                         *)
(* Keys are strings.  Numerals[i + 1] is the key of the number i; it is an *)
(* array index when i < MaxLength, which stands for 2^32 - 1.              *)
(* A value is a small integer; the negative ones are named below.          *)
(***************************************************************************)
EXTENDS Integers, Sequences, FiniteSets, FiniteSetsExt, SequencesExt

CONSTANTS Ids,        \* the objects
          Nobody,     \* the null prototype
          MaxLength,  \* the greatest array length, 2^32 - 1 in the code
          Numerals,   \* the keys that are canonical numerals, in order from 0
          Symbols     \* the keys that are symbols

ASSUME NumeralsAssumption ==
    /\ MaxLength \in Nat \ {0}
    /\ MaxLength + 2 <= Len(Numerals)
    /\ \A i, j \in DOMAIN Numerals : Numerals[i] = Numerals[j] => i = j
ASSUME NobodyAssumption == Nobody \notin Ids

Undefined == -1     \* the value undefined
Convertible == -2   \* an object whose conversion to a number runs guest code
Dead == -3          \* the content of a binding that is not initialized

Key(i) == Numerals[i + 1]
IsIndex(k) == \E i \in 1 .. MaxLength : Numerals[i] = k
IndexOf(k) == (CHOOSE i \in 1 .. MaxLength : Numerals[i] = k) - 1

(***************************************************************************)
(* Descriptors.  A complete descriptor has every field of its kind; a      *)
(* candidate has any of them.                                              *)
(***************************************************************************)
Absent == [configurable |-> TRUE]
Data(v, w, e, c) == [value |-> v, writable |-> w, enumerable |-> e, configurable |-> c]
Accessor(g, s, e, c) == [get |-> g, set |-> s, enumerable |-> e, configurable |-> c]
Has(d, f) == f \in DOMAIN d
IsData(d) == Has(d, "value") \/ Has(d, "writable")
IsAccessor(d) == Has(d, "get") \/ Has(d, "set")
Present(d) == d # Absent

Override(base, c) == [f \in DOMAIN base |-> IF Has(c, f) THEN c[f] ELSE base[f]]
\* completePropertyDescriptor: absent fields become undefined or FALSE.
Complete(c) ==
    Override(IF IsAccessor(c) THEN Accessor(FALSE, FALSE, FALSE, FALSE)
                              ELSE Data(Undefined, FALSE, FALSE, FALSE), c)
\* A property changes between data and accessor: the other kind's fields start afresh.
Converted(d, c) ==
    Override(IF IsAccessor(c) THEN Accessor(FALSE, FALSE, d.enumerable, d.configurable)
                              ELSE Data(Undefined, FALSE, d.enumerable, d.configurable), c)

(***************************************************************************)
(* Heaps: the objects and the bindings (cells) that mapped arguments and   *)
(* namespaces read through.  An object's alias maps a key to such a cell.  *)
(* order is the insertion order of the keys that are no array indices.     *)
(***************************************************************************)
Props(h, o) == h.obj[o].props
Stored(h, o, k) == IF k \in DOMAIN Props(h, o) THEN Props(h, o)[k] ELSE Absent
Aliased(h, o, k) == k \in DOMAIN h.obj[o].alias
Cell(h, o, k) == h.cells[h.obj[o].alias[k]]

Store(h, o, k, d) ==
    LET r == h.obj[o]
        new == [j \in DOMAIN r.props \cup {k} |-> IF j = k THEN d ELSE r.props[j]]
        order == IF IsIndex(k) \/ k \in DOMAIN r.props THEN r.order ELSE Append(r.order, k)
    IN [h EXCEPT !.obj[o].props = new, !.obj[o].order = order]
Without(h, o, k) ==
    LET r == h.obj[o] IN
    [h EXCEPT !.obj[o].props = [j \in DOMAIN r.props \ {k} |-> r.props[j]],
              !.obj[o].order = SelectSeq(r.order, LAMBDA j : j # k)]

Done(ok, h) == [out |-> IF ok THEN "true" ELSE "false", heap |-> h]
Thrown(h) == [out |-> "throw", heap |-> h]
Succeeded(r) == r.out = "true"

(***************************************************************************)
(* [[GetOwnProperty]].  Reading an export whose binding is not initialized *)
(* throws: Unreadable says so, and GetOwn is then not used.                *)
(***************************************************************************)
Unreadable(h, o, k) == h.obj[o].kind = "namespace" /\ Aliased(h, o, k) /\ Cell(h, o, k) = Dead

GetOwn(h, o, k) ==
    LET own == Stored(h, o, k)  kind == h.obj[o].kind IN
    CASE kind = "namespace" /\ Aliased(h, o, k) -> Data(Cell(h, o, k), TRUE, TRUE, FALSE)
      [] kind = "arguments" /\ Present(own) /\ Aliased(h, o, k) ->
            [own EXCEPT !.value = Cell(h, o, k)]
      [] kind = "string" /\ ~Present(own) /\ \E i \in 0 .. h.obj[o].text - 1 : Key(i) = k ->
            Data(0, FALSE, TRUE, FALSE)
      [] OTHER -> own

\* [[OwnPropertyKeys]]: indices in ascending order, then strings, then symbols.
OrdinaryKeys(h, o) ==
    LET order == h.obj[o].order IN
    SelectSeq(Numerals, LAMBDA k : IsIndex(k) /\ k \in DOMAIN Props(h, o))
        \o SelectSeq(order, LAMBDA k : k \notin Symbols)
        \o SelectSeq(order, LAMBDA k : k \in Symbols)
OwnKeys(h, o) ==
    LET r == h.obj[o] IN
    CASE r.kind = "string" -> SubSeq(Numerals, 1, r.text) \o OrdinaryKeys(h, o)
      [] r.kind = "namespace" -> r.exports \o OrdinaryKeys(h, o)
      [] OTHER -> OrdinaryKeys(h, o)

(***************************************************************************)
(* [[DefineOwnProperty]] of an ordinary object.                            *)
(***************************************************************************)
Agrees(d, c) == \A f \in DOMAIN c : f \in DOMAIN d /\ c[f] = d[f]
Allowed(d, c) ==
    \/ d.configurable
    \/ /\ ~(Has(c, "configurable") /\ c.configurable)
       /\ Has(c, "enumerable") => c.enumerable = d.enumerable
       /\ IsData(c) => IsData(d)
       /\ IsAccessor(c) => IsAccessor(d)
       /\ IsData(d) /\ ~d.writable =>
            /\ ~(Has(c, "writable") /\ c.writable)
            /\ Has(c, "value") => c.value = d.value
       /\ IsAccessor(d) => \A f \in {"get", "set"} : Has(c, f) => c[f] = d[f]

OrdinaryDefine(h, o, k, c) ==
    LET fast == h.obj[o].kind \notin {"arguments", "string", "namespace"} /\ DOMAIN c = {"value"}
        stored == Stored(h, o, k)
        d == GetOwn(h, o, k)
    IN IF fast /\ Has(stored, "value") /\ stored.writable
       THEN Done(TRUE, Store(h, o, k, [stored EXCEPT !.value = c.value]))
       ELSE IF ~Present(d)
       THEN Done(h.obj[o].ext, IF h.obj[o].ext THEN Store(h, o, k, Complete(c)) ELSE h)
       ELSE IF Agrees(d, c) THEN Done(TRUE, h)
       ELSE IF ~Allowed(d, c) THEN Done(FALSE, h)
       ELSE IF (IsData(c) \/ IsAccessor(c)) /\ IsData(c) # IsData(d)
       THEN Done(TRUE, Store(h, o, k, Converted(d, c)))
       ELSE Done(TRUE, Store(h, o, k, Override(d, c)))

\* [[Delete]] of an ordinary object; the exotic ones follow.
OrdinaryDelete(h, o, k) ==
    LET d == GetOwn(h, o, k) IN
    IF ~d.configurable THEN Done(FALSE, h) ELSE Done(TRUE, Without(h, o, k))
Unalias(h, o, k) ==
    LET a == h.obj[o].alias IN [h EXCEPT !.obj[o].alias = [j \in DOMAIN a \ {k} |-> a[j]]]
Delete(h, o, k) ==
    LET r == OrdinaryDelete(h, o, k)  kind == h.obj[o].kind IN
    CASE kind = "namespace" /\ Aliased(h, o, k) -> Done(FALSE, h)
      [] kind = "arguments" /\ Succeeded(r) -> Done(TRUE, Unalias(r.heap, o, k))
      [] OTHER -> r

(***************************************************************************)
(* Arrays: an index at or beyond length raises it; a smaller length        *)
(* deletes from the top and stops above an index that cannot be deleted.   *)
(* cur is the length property as it was read before the new value was      *)
(* converted, and n what the conversion returned.                          *)
(***************************************************************************)
Length(h, a) == Props(h, a)["length"].value
\* Mutant: length becomes the index itself.
DefineIndexShort(h, a, k, c) ==
    LET len == Props(h, a)["length"]
        r == OrdinaryDefine(h, a, k, c)
    IN IF IndexOf(k) >= len.value /\ ~len.writable THEN Done(FALSE, h)
       ELSE IF ~Succeeded(r) THEN Done(FALSE, h)
       ELSE IF IndexOf(k) >= len.value
       THEN OrdinaryDefine(r.heap, a, "length", [value |-> IndexOf(k)])
       ELSE r
DefineIndex(h, a, k, c) ==
    LET len == Props(h, a)["length"]
        r == OrdinaryDefine(h, a, k, c)
    IN IF IndexOf(k) >= len.value /\ ~len.writable THEN Done(FALSE, h)
       ELSE IF ~Succeeded(r) THEN Done(FALSE, h)
       ELSE IF IndexOf(k) >= len.value
       THEN OrdinaryDefine(r.heap, a, "length", [value |-> IndexOf(k) + 1])
       ELSE r

IndicesFrom(h, a, n) == {i \in n .. MaxLength - 1 : Key(i) \in DOMAIN Props(h, a)}
\* The greatest index from n up that refuses to be deleted, or n - 1.
Stuck(h, a, n) ==
    Max({n - 1} \cup {i \in IndicesFrom(h, a, n) : ~Props(h, a)[Key(i)].configurable})
Truncated(h, a, n) ==
    FoldSet(LAMBDA i, g : Without(g, a, Key(i)), h, IndicesFrom(h, a, Stuck(h, a, n) + 1))

DefineLength(h, a, c, cur, n) ==
    LET wanted == [c EXCEPT !.value = n]
        lock == Has(c, "writable") /\ ~c.writable
        r == OrdinaryDefine(h, a, "length", IF lock THEN [wanted EXCEPT !.writable = TRUE] ELSE wanted)
        stuck == Stuck(r.heap, a, n)
        cut == Truncated(r.heap, a, n)
    IN IF n >= cur.value THEN OrdinaryDefine(h, a, "length", wanted)
       ELSE IF ~cur.writable \/ ~Succeeded(r) THEN Done(FALSE, h)
       ELSE IF stuck >= n
       THEN Done(FALSE, OrdinaryDefine(cut, a, "length",
                                       [value |-> stuck + 1, writable |-> ~lock]).heap)
       ELSE IF lock THEN OrdinaryDefine(cut, a, "length", [writable |-> FALSE])
       ELSE Done(TRUE, cut)

\* A define of an array's length with an object as its value converts it first.
Converts(h, o, k, c) ==
    /\ h.obj[o].kind = "array" /\ k = "length"
    /\ Has(c, "value") /\ c.value = Convertible

DefineArray(h, a, k, c) ==
    IF k = "length"
    THEN IF ~Has(c, "value") THEN OrdinaryDefine(h, a, k, c)
         ELSE IF c.value \notin 0 .. MaxLength THEN Thrown(h)
         ELSE DefineLength(h, a, c, Props(h, a)["length"], c.value)
    ELSE IF IsIndex(k) THEN DefineIndex(h, a, k, c) ELSE OrdinaryDefine(h, a, k, c)

\* A mapped index writes through to its parameter; an accessor, or a value
\* that may no longer be written, ends the mapping.
DefineArgument(h, o, k, c) ==
    LET r == OrdinaryDefine(h, o, k, c)
        written == IF Has(c, "value") THEN [r.heap EXCEPT !.cells[h.obj[o].alias[k]] = c.value]
                                      ELSE r.heap
    IN IF ~Succeeded(r) \/ ~Aliased(h, o, k) THEN r
       ELSE IF IsAccessor(c) THEN Done(TRUE, Unalias(r.heap, o, k))
       ELSE IF Has(c, "writable") /\ ~c.writable THEN Done(TRUE, Unalias(written, o, k))
       ELSE Done(TRUE, written)

DefineExport(h, o, k, c) ==
    IF Unreadable(h, o, k) THEN Thrown(h)
    ELSE Done(/\ ~(Has(c, "configurable") /\ c.configurable)
              /\ Has(c, "enumerable") => c.enumerable
              /\ ~IsAccessor(c)
              /\ Has(c, "writable") => c.writable
              /\ Has(c, "value") => c.value = Cell(h, o, k), h)

DefineOwn(h, o, k, c) ==
    LET kind == h.obj[o].kind IN
    CASE kind = "array" -> DefineArray(h, o, k, c)
      [] kind = "arguments" -> DefineArgument(h, o, k, c)
      [] kind = "namespace" /\ Aliased(h, o, k) -> DefineExport(h, o, k, c)
      [] OTHER -> OrdinaryDefine(h, o, k, c)

(***************************************************************************)
(* Prototypes.  Chain(h, o) is o and its prototypes, as far as the heap is *)
(* large: a chain that is longer is a cycle.                               *)
(***************************************************************************)
Proto(h, o) == IF o = Nobody THEN Nobody ELSE h.obj[o].proto
Chain(h, o) ==
    LET up[n \in 0 .. Cardinality(Ids)] == IF n = 0 THEN o ELSE Proto(h, up[n - 1])
    IN SelectSeq([n \in 1 .. Cardinality(Ids) |-> up[n - 1]], LAMBDA x : x # Nobody)
EndsWell(h, o) == Proto(h, Last(Chain(h, o))) = Nobody

\* Mutant: only the new prototype itself is compared, not its chain.
SetProtoShallow(h, o, p) ==
    IF h.obj[o].kind = "namespace" THEN Done(p = Nobody, h)
    ELSE IF p = Proto(h, o) THEN Done(TRUE, h)
    ELSE IF ~h.obj[o].ext \/ p = o THEN Done(FALSE, h)
    ELSE Done(TRUE, [h EXCEPT !.obj[o].proto = p])
SetProto(h, o, p) ==
    IF h.obj[o].kind = "namespace" THEN Done(p = Nobody, h)
    ELSE IF p = Proto(h, o) THEN Done(TRUE, h)
    ELSE IF ~h.obj[o].ext \/ (p # Nobody /\ o \in ToSet(Chain(h, p))) THEN Done(FALSE, h)
    ELSE Done(TRUE, [h EXCEPT !.obj[o].proto = p])
PreventExtensions(h, o) == [h EXCEPT !.obj[o].ext = FALSE]

\* The first object of o's chain that has the key, or Nobody.
Owner(h, o, k) ==
    LET owners == SelectSeq(Chain(h, o), LAMBDA x : Present(GetOwn(h, x, k)))
    IN IF owners = <<>> THEN Nobody ELSE Head(owners)
HasProperty(h, o, k) == Owner(h, o, k) # Nobody

\* [[Get]] up to the accessor it may have to call.
Lookup(h, o, k) ==
    LET owner == Owner(h, o, k) IN
    IF owner = Nobody THEN [out |-> "value", value |-> Undefined]
    ELSE IF Unreadable(h, owner, k) THEN [out |-> "throw", value |-> Undefined]
    ELSE LET d == GetOwn(h, owner, k) IN
         IF IsData(d) THEN [out |-> "value", value |-> d.value]
         ELSE [out |-> IF d.get THEN "call" ELSE "value", value |-> Undefined]

\* [[Set]] up to the setter it may have to call or the definition it makes on
\* the receiver: a namespace on the chain refuses.
Assign(h, o, k, v, receiver) ==
    LET owner == Owner(h, o, k)
        chain == Chain(h, o)
        before == SelectInSeq(chain, LAMBDA x : x = owner)
        refused == \E i \in 1 .. (IF owner = Nobody THEN Len(chain) ELSE before) :
                        h.obj[chain[i]].kind = "namespace"
        d == IF owner = Nobody THEN Data(Undefined, TRUE, TRUE, TRUE) ELSE GetOwn(h, owner, k)
        own == GetOwn(h, receiver, k)
    IN IF refused THEN [out |-> "false", define |-> Absent]
       ELSE IF IsAccessor(d) THEN [out |-> IF d.set THEN "call" ELSE "false", define |-> Absent]
       ELSE IF ~d.writable THEN [out |-> "false", define |-> Absent]
       ELSE IF owner = receiver THEN [out |-> "define", define |-> [value |-> v]]
       ELSE IF Unreadable(h, receiver, k) THEN [out |-> "throw", define |-> Absent]
       ELSE IF ~Present(own) THEN [out |-> "define", define |-> Data(v, TRUE, TRUE, TRUE)]
       ELSE IF IsAccessor(own) \/ ~own.writable THEN [out |-> "false", define |-> Absent]
       ELSE [out |-> "define", define |-> [value |-> v]]

(***************************************************************************)
(* setIntegrityLevel: extension first, then key after key; it throws at    *)
(* the first definition that is refused and keeps what it has done.        *)
(***************************************************************************)
Integrity(d, level) ==
    IF level = "frozen" /\ IsData(d) THEN [writable |-> FALSE, configurable |-> FALSE]
                                     ELSE [configurable |-> FALSE]
SetIntegrity(h, o, level) ==
    LET Fixed(k, r) ==
            IF ~Succeeded(r) THEN r
            ELSE IF Unreadable(r.heap, o, k) THEN Thrown(r.heap)
            ELSE LET d == DefineOwn(r.heap, o, k, Integrity(GetOwn(r.heap, o, k), level))
                 IN IF Succeeded(d) THEN d ELSE Thrown(d.heap)
    IN FoldLeft(LAMBDA r, k : Fixed(k, r), Done(TRUE, PreventExtensions(h, o)), OwnKeys(h, o))

IsAt(h, o, level) ==
    /\ ~h.obj[o].ext
    /\ \A k \in ToSet(OwnKeys(h, o)) :
          LET d == GetOwn(h, o, k) IN
          ~d.configurable /\ (level = "frozen" /\ IsData(d) => ~d.writable)
================================================================================
