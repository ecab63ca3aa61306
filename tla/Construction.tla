----------------------------- MODULE Construction ------------------------------
(***************************************************************************)
(* Calls and constructions of functions (runtime/function-object.js,        *)
(* runtime/capabilities.js, builtins/function.js, builtins/shared.js and    *)
(* the classes of evaluator/classes.js): the environments that hold "this", *)
(* super(...) in derived constructors and in the arrow functions they make, *)
(* new.target, and the prototypes that instances get.                      *)
(*                                                                         *)
(* What guest code does in a body is any of the actions, in any order; an   *)
(* operation that throws changes nothing but what Throw does.  A value is a *)
(* tuple: <<f>> a function, <<f, "prototype">> the object of its property    *)
(* prototype, <<"instance", n>> an object that was constructed.            *)
(***************************************************************************)
EXTENDS Naturals, Sequences, FiniteSets

CONSTANTS Normals,     \* ordinary functions
          Natives,     \* constructors of the library
          Programs,    \* programs: <<definitions, limits>>; a definition is <<"class", name, heritage, explicit>>
                       \* or <<"bind", name, target>>, the limits are [envs, requests, arrows, changes]: how many
                       \* function environments, constructions that are asked for, arrow functions and changes
                       \* of functions' prototypes the behaviours have
          MaxDepth     \* what the realm's stack guard allows

VARIABLES program,     \* the definitions that are still to come
          limits,      \* of the program
          kinds,       \* [function |-> "normal", "native", "base", "derived", "default" or "bound"]
          target,      \* [bound function |-> its target]
          proto,       \* [object |-> its prototype]
          prototype,   \* [function |-> the value of its property prototype]
          envs,        \* the function environments, and the construction that each is part of:
                       \* [status, this, newTarget, active, request, asked]
          stack,       \* the calls that run: [fn, mode, env, instance, binds]
          arrows,      \* the environments of the arrow functions that were made
          made,        \* the instances: [request, wanted, default]
          last,        \* the construction that ended last: [request, asked, value]
          requests,    \* how many constructions were asked for
          changes

vars == <<program, limits, kinds, target, proto, prototype, envs, stack, arrows, made, last, requests, changes>>

Functions == DOMAIN kinds
Undefined == <<"undefined">>
Null == <<"null">>
Primitive == <<"primitive">>
ObjectPrototype == <<"Object.prototype">>
FunctionPrototype == <<"Function.prototype">>
GlobalObject == <<"global">>
IsObject(v) == v \notin {Undefined, Null, Primitive}
PrototypeObject(f) == <<f, "prototype">>
Instance(n) == <<"instance", n>>

(***************************************************************************)
(* Capabilities.                                                           *)
(***************************************************************************)
\* Through bound functions: what is constructed, and for which new target.
Unbound(f, newTarget) ==
    LET end[p \in Functions \X Functions] ==
            IF kinds[p[1]] # "bound" THEN p
            ELSE end[<<target[p[1]], IF p[2] = p[1] THEN target[p[1]] ELSE p[2]>>]
    IN  end[<<f, newTarget>>]
IsConstructor(v) == v \in {<<f>> : f \in Functions}

ObjectOr(v, fallback) == IF IsObject(v) THEN v ELSE fallback

\* The prototypes above an object.
Ancestors(o) ==
    LET above[n \in 0..Cardinality(DOMAIN proto)] ==
            IF n = 0 THEN {o}
            ELSE LET below == above[n - 1] IN below \cup {proto[p] : p \in below \cap DOMAIN proto}
    IN  above[Cardinality(DOMAIN proto)]
HasInstance(f, o) == prototype[Unbound(f, f)[1]] \in Ancestors(o) \ {o}

(***************************************************************************)
(* What programs and hosts begin with: ordinary functions and the library's *)
(* constructors.                                                           *)
(***************************************************************************)
NoConstruction == [request |-> 0, asked |-> <<>>, value |-> ObjectPrototype]
Init ==
    /\ \E p \in Programs : program = p[1] /\ limits = p[2]
    /\ kinds = [f \in Normals \cup Natives |-> IF f \in Normals THEN "normal" ELSE "native"]
    /\ target = [b \in {} |-> ""]
    /\ proto = [o \in {<<f>> : f \in Normals \cup Natives} \cup {PrototypeObject(f) : f \in Normals \cup Natives}
                      \cup {FunctionPrototype, GlobalObject} |->
                   IF Len(o) = 1 /\ o \notin {FunctionPrototype, GlobalObject} THEN FunctionPrototype ELSE ObjectPrototype]
    /\ prototype = [f \in Normals \cup Natives |-> PrototypeObject(f)]
    /\ envs = <<>> /\ stack = <<>> /\ arrows = <<>> /\ made = <<>>
    /\ last = NoConstruction /\ requests = 0 /\ changes = 0

Extend(g, x, y) == [z \in DOMAIN g \cup {x} |-> IF z = x THEN y ELSE g[z]]

(***************************************************************************)
(* Definitions: classes and bound functions, before anything is called.    *)
(***************************************************************************)
\* The prototype of a class's prototype object: none when the heritage is no
\* constructor, or its property prototype is neither an object nor null.
InstancePrototypes(heritage) ==
    CASE heritage = Undefined -> {ObjectPrototype}
      [] heritage = Null -> {Null}
      [] IsConstructor(heritage) -> {v \in {prototype[heritage[1]]} : IsObject(v) \/ v = Null}
      [] OTHER -> {}
ClassKind(heritage, explicit) ==
    IF heritage = Undefined THEN "base" ELSE IF explicit THEN "derived" ELSE "default"
EvaluateClassDefinition(c, heritage, explicit) ==
    /\ \E above \in InstancePrototypes(heritage) :
          proto' = Extend(Extend(proto, PrototypeObject(c), above), <<c>>, IF IsConstructor(heritage) THEN heritage ELSE FunctionPrototype)
    /\ kinds' = Extend(kinds, c, ClassKind(heritage, explicit))
    /\ prototype' = Extend(prototype, c, PrototypeObject(c))
    /\ UNCHANGED <<target, envs, stack, arrows, made, last, requests, changes>>

Bind(b, f) ==
    /\ kinds' = Extend(kinds, b, "bound")
    /\ target' = Extend(target, b, f)
    /\ proto' = Extend(proto, <<b>>, proto[<<f>>])
    /\ prototype' = Extend(prototype, b, Undefined)
    /\ UNCHANGED <<envs, stack, arrows, made, last, requests, changes>>
Define ==
    /\ program # <<>>
    /\ program' = Tail(program)
    /\ UNCHANGED limits
    /\ \E d \in {program[1]} :
          \/ d[1] = "class" /\ EvaluateClassDefinition(d[2], d[3], d[4])
          \/ d[1] = "bind" /\ Bind(d[2], d[3])

(***************************************************************************)
(* Guest code changes what it inherits from, at any time.                  *)
(***************************************************************************)
Top == stack[Len(stack)]
\* Guest code runs: in no function, or in a body of its own.
InBody == program = <<>> /\ IF stack = <<>> THEN TRUE ELSE Top.mode # "default"

SetPrototypeOf(f, p) ==
    /\ InBody /\ changes < limits.changes
    /\ <<f>> \notin Ancestors(p) /\ proto[<<f>>] # p
    /\ proto' = [proto EXCEPT ![<<f>>] = p]
    /\ changes' = changes + 1
    /\ UNCHANGED <<program, limits, kinds, target, prototype, envs, stack, arrows, made, last, requests>>
AssignPrototype(f, v) ==
    /\ InBody /\ changes < limits.changes
    /\ kinds[f] = "normal" /\ prototype[f] # v
    /\ prototype' = [prototype EXCEPT ![f] = v]
    /\ changes' = changes + 1
    /\ UNCHANGED <<program, limits, kinds, target, proto, envs, stack, arrows, made, last, requests>>

(***************************************************************************)
(* Environments.                                                           *)
(***************************************************************************)
Initialized(this, newTarget, request, asked) ==
    [status |-> "initialized", this |-> this, newTarget |-> newTarget, active |-> "", request |-> request, asked |-> asked]
Uninitialized(newTarget, active, request, asked) ==
    [status |-> "uninitialized", this |-> Undefined, newTarget |-> newTarget, active |-> active, request |-> request, asked |-> asked]

ResolveThisValue(v) == IF v \in {Undefined, Null} THEN GlobalObject ELSE IF v = Primitive THEN <<"wrapper">> ELSE v
GetThisBinding(e) == IF envs[e].status = "initialized" THEN {envs[e].this} ELSE {}
Rebound(e, v) == [envs EXCEPT ![e].this = v, ![e].status = "initialized"]  \* mutant: whatever the status was
BindThisValue(e, v) ==
    IF envs[e].status = "uninitialized" THEN [envs EXCEPT ![e].this = v, ![e].status = "initialized"] ELSE envs

Frame(f, mode, env, instance, binds) == [fn |-> f, mode |-> mode, env |-> env, instance |-> instance, binds |-> binds]

(***************************************************************************)
(* Construct f for a new target, as part of a construction that was asked   *)
(* for; "binds" is the environment whose super call this is, or 0.          *)
(***************************************************************************)
\* The prototypes an instance may get: that of the new target that was asked
\* for; a bound function gives way to its target where it is itself what is
\* constructed for it.
Wanted(asked) ==
    {prototype[Unbound(asked[2], asked[2])[2]]} \cup (IF asked[1] = asked[2] THEN {} ELSE {prototype[asked[2]]})

Instantiate(f, newTarget, asked, request) ==
    LET default == IF kinds[f] = "native" THEN PrototypeObject(f) ELSE ObjectPrototype
        wanted == IF kinds[f] = "native" THEN {} ELSE Wanted(asked)
    IN  /\ made' = Append(made, [request |-> request, wanted |-> wanted, default |-> default])
        /\ proto' = Extend(proto, Instance(Len(made) + 1),
                           IF kinds[f] = "native" THEN default ELSE ObjectOr(prototype[newTarget], default))

Enter(f, newTarget, binds, request, asked, below) ==
    IF kinds[f] \in {"derived", "default"}
    THEN /\ envs' = Append(envs, Uninitialized(newTarget, f, request, asked))
         /\ stack' = Append(below, Frame(f, IF kinds[f] = "default" THEN "default" ELSE "construct", Len(envs) + 1, Undefined, binds))
         /\ UNCHANGED <<proto, made>>
    ELSE /\ envs' = Append(envs, Initialized(Instance(Len(made) + 1), newTarget, request, asked))
         /\ stack' = Append(below, Frame(f, "construct", Len(envs) + 1, Instance(Len(made) + 1), binds))
         /\ Instantiate(f, newTarget, asked, request)
ConstructFunction(f, newTarget, binds, request, asked, below) ==
    /\ Len(below) < MaxDepth /\ Len(envs) < limits.envs
    /\ \E p \in {Unbound(f, newTarget)} : Enter(p[1], p[2], binds, request, asked, below)

\* new f(...) and Reflect.construct(f, ..., newTarget).
New(f, newTarget) ==
    /\ InBody /\ requests < limits.requests
    /\ ConstructFunction(f, newTarget, 0, requests + 1, <<f, newTarget>>, stack)
    /\ requests' = requests + 1
    /\ UNCHANGED <<program, limits, kinds, target, prototype, arrows, last, changes>>

(***************************************************************************)
(* super(...): its arguments are evaluated by code of the same body, then   *)
(* the prototype that the active constructor has by then is constructed.   *)
(***************************************************************************)
EvaluateSuperCall ==
    /\ InBody /\ stack # <<>> /\ Len(stack) < MaxDepth
    /\ envs[Top.env].active # ""
    /\ stack' = Append(stack, Frame("", "arguments", Top.env, Undefined, 0))
    /\ UNCHANGED <<program, limits, kinds, target, proto, prototype, envs, arrows, made, last, requests, changes>>

ActiveTarget(e) == envs[e].active  \* mutant: the active constructor instead
SuperTarget(e) == envs[e].newTarget
ConstructSuper ==
    /\ stack # <<>>
    /\ \/ Top.mode = "arguments"
       \/ Top.mode = "default" /\ envs[Top.env].status = "uninitialized"
    /\ \E super \in {proto[<<envs[Top.env].active>>]} :
          /\ IsConstructor(super)
          /\ ConstructFunction(super[1], SuperTarget(Top.env), Top.env, envs[Top.env].request, envs[Top.env].asked,
                               IF Top.mode = "arguments" THEN SubSeq(stack, 1, Len(stack) - 1) ELSE stack)
    /\ UNCHANGED <<program, limits, kinds, target, prototype, arrows, last, requests, changes>>

(***************************************************************************)
(* Calls.                                                                  *)
(***************************************************************************)
Call(f, this) ==
    /\ InBody /\ Len(stack) < MaxDepth /\ Len(envs) < limits.envs
    /\ kinds[f] = "normal"
    /\ envs' = Append(envs, Initialized(ResolveThisValue(this), "", 0, <<>>))
    /\ stack' = Append(stack, Frame(f, "call", Len(envs) + 1, Undefined, 0))
    /\ UNCHANGED <<program, limits, kinds, target, proto, prototype, arrows, made, last, requests, changes>>
\* An arrow function keeps the environment of the body that makes it, and
\* runs in it, also after that body has returned.
MakeArrow ==
    /\ InBody /\ stack # <<>> /\ Len(arrows) < limits.arrows
    /\ arrows' = Append(arrows, Top.env)
    /\ UNCHANGED <<program, limits, kinds, target, proto, prototype, envs, stack, made, last, requests, changes>>
CallArrow(a) ==
    /\ InBody /\ Len(stack) < MaxDepth
    /\ stack' = Append(stack, Frame("=>", "call", arrows[a], Undefined, 0))
    /\ UNCHANGED <<program, limits, kinds, target, proto, prototype, envs, arrows, made, last, requests, changes>>

(***************************************************************************)
(* A body ends.                                                            *)
(***************************************************************************)
\* What a constructor gives for the value its body returned: none when it
\* throws instead.
ConstructResult(frame, v) ==
    CASE kinds[frame.fn] = "native" -> {frame.instance}
      [] kinds[frame.fn] # "native" /\ IsObject(v) -> {v}
      [] kinds[frame.fn] \in {"normal", "base"} /\ ~IsObject(v) -> {frame.instance}
      [] kinds[frame.fn] \in {"derived", "default"} /\ v = Undefined -> GetThisBinding(frame.env)
      [] OTHER -> {}

\* The library's constructors make what they make; their callers give it the
\* prototype of another new target.
Retarget(frame) ==
    IF kinds[frame.fn] # "native" THEN UNCHANGED <<proto, made>>
    ELSE \E e \in {envs[frame.env]} :
            /\ proto' = [proto EXCEPT ![frame.instance] = ObjectOr(prototype[e.newTarget], @)]
            /\ made' = [made EXCEPT ![frame.instance[2]].wanted = Wanted(e.asked)]

ReturnFromCall ==
    /\ stack # <<>> /\ Top.mode = "call"
    /\ stack' = SubSeq(stack, 1, Len(stack) - 1)
    /\ UNCHANGED <<program, limits, kinds, target, proto, prototype, envs, arrows, made, last, requests, changes>>
Return(v) ==
    /\ stack # <<>> /\ Top.mode \in {"construct", "default"}
    /\ Top.mode = "default" => v = Undefined /\ envs[Top.env].status = "initialized"
    /\ \E value \in ConstructResult(Top, v) :
          /\ envs' = IF Top.binds = 0 THEN envs ELSE BindThisValue(Top.binds, value)
          /\ last' = IF Top.binds # 0 THEN last
                     ELSE [request |-> envs[Top.env].request, asked |-> envs[Top.env].asked, value |-> value]
    /\ Retarget(Top)
    /\ stack' = SubSeq(stack, 1, Len(stack) - 1)
    /\ UNCHANGED <<program, limits, kinds, target, prototype, arrows, requests, changes>>

\* Guest code throws, an operation of the engine or the stack guard does; a
\* body below catches it, or none.
Throw(k) ==
    /\ k < Len(stack)
    /\ k > 0 => stack[k].mode \in {"call", "construct"}
    /\ stack' = SubSeq(stack, 1, k)
    /\ UNCHANGED <<program, limits, kinds, target, proto, prototype, envs, arrows, made, last, requests, changes>>

\* The instances that guest code can hold: those of the library's constructors
\* when they have returned.
Finished == {n \in DOMAIN made : made[n].wanted # {}}
Returned == {Undefined, Primitive} \cup {Instance(n) : n \in Finished}
Next ==
    \/ Define
    \/ \E f \in {g \in Functions : kinds[g] \in {"derived", "default"}}, p \in {FunctionPrototype} \cup {<<g>> : g \in Functions} : SetPrototypeOf(f, p)
    \/ \E f \in Functions : \E v \in {Primitive, PrototypeObject(f)} : AssignPrototype(f, v)
    \/ \E f \in Functions, newTarget \in Functions : New(f, newTarget)
    \/ EvaluateSuperCall
    \/ ConstructSuper
    \/ \E f \in Functions, this \in {Undefined, Primitive} : Call(f, this)
    \/ MakeArrow
    \/ \E a \in DOMAIN arrows : CallArrow(a)
    \/ ReturnFromCall
    \/ \E v \in Returned : Return(v)
    \/ \E k \in 0..(Len(stack) - 1) : Throw(k)
Spec == Init /\ [][Next]_vars

(***************************************************************************)
(* Properties.                                                             *)
(***************************************************************************)
\* Whatever is between a construction and the constructor that allocates its
\* object (super calls, bound functions, default constructors, arrow functions
\* that call super later), the object's prototype is that of the new target
\* that was asked for, or the constructor's default when that is no object.
\* A construction never ends with anything but an object; and while no
\* prototype is changed, what it made is an instance of the function that was
\* constructed and of all the functions that one inherits from.
InstancesInherit ==
    /\ \A n \in Finished : \E w \in made[n].wanted : proto[Instance(n)] = ObjectOr(w, made[n].default)
    /\ IsObject(last.value)
    /\ (changes = 0 /\ \E n \in DOMAIN made : last.value = Instance(n) /\ made[n].request = last.request /\ last.asked[1] = last.asked[2]) =>
          \A g \in Functions : <<g>> \in Ancestors(<<last.asked[1]>>) /\ kinds[g] # "bound" => HasInstance(g, last.value)

\* The "this" of a function environment is bound at most once, however many
\* super calls of its body, of the arguments of others and of its arrow
\* functions are under way, and it never changes afterwards.
ThisIsBoundOnce == [][\A e \in DOMAIN envs : envs[e].status = "initialized" => envs'[e] = envs[e]]_vars
=============================================================================
