------------------------- MODULE DerivedInstances --------------------------
(***************************************************************************)
(* The instances of a program, from the declarations to the point where    *)
(* functions are checked: user-defined instances and those a data type     *)
(* derives, check_conflicts, the loop process_derived_instances that finds *)
(* the constraints of derived instances, and check_instance_dependencies   *)
(* (siko_type_checker's instance_resolver.rs and typechecker.rs).          *)
(*                                                                         *)
(* A declaration is a record: types, a function from the ids of data types *)
(* to [kind, params, items, derives], where params are variables and items *)
(* the types of the fields of a record or of the items of all variants of  *)
(* an ADT; and instances, which has the types of the user-defined          *)
(* instances of each class.                                                *)
(***************************************************************************)
EXTENDS InstanceResolver

CONSTANTS
    Declarations,   \* the declarations that are considered
    Classes,        \* class -> the classes it depends on
    AutoDerivable,  \* the classes that can be derived
    FirstIndex,     \* the counter behind type variables at the start
    Depth,          \* bound: how deep the types of declarations are
    GroundTypes     \* the types without variables the properties speak of

ASSUME BoundsAssumption == FirstIndex \in Nat /\ Depth \in Nat

ASSUME ClassesAssumption ==
    \A class \in DOMAIN Classes : class \in STRING /\ Classes[class] \subseteq DOMAIN Classes

\* What the resolved program looks like: the parameters of a data type are
\* distinct variables, and types are at hand where the code expects types.
ASSUME DeclarationsAssumption ==
    \A d \in Declarations :
        /\ DOMAIN d.types \subseteq Nat \ {0} /\ IsFiniteSet(DOMAIN d.types)
        /\ \A id \in DOMAIN d.types :
            /\ d.types[id].kind \in {"adt", "record"}
            /\ d.types[id].params \in Seq(Layer[Depth]) /\ IsInjective(d.types[id].params)
            /\ \A i \in DOMAIN d.types[id].params : IsVar(d.types[id].params[i])
            /\ d.types[id].items \in Seq(Layer[Depth])
            /\ d.types[id].derives \in Seq(DOMAIN Classes)
        /\ DOMAIN d.instances = DOMAIN Classes
        /\ \A class \in DOMAIN Classes : d.instances[class] \in Seq(Layer[Depth])

DeclaredTypes(d) ==
    (UNION {Range(d.types[id].params) \cup Range(d.types[id].items) : id \in DOMAIN d.types}) \cup
    (UNION {Range(d.instances[class]) : class \in DOMAIN d.instances})

\* The indices of a program come from the counter, each for one variable.
ASSUME LeavesAssumption ==
    \A d \in Declarations :
        LET leaves == UNION {Leaves(ty) : ty \in DeclaredTypes(d)}
        IN  /\ \A l \in leaves : IsVar(l) /\ l.id < FirstIndex
            /\ \A l, m \in leaves : l.id = m.id => l = m

Apart(ty, other) == Indices(ty) \cap Indices(other) = {}

\* Each instance has variables of its own.
ASSUME HeadsAssumption ==
    \A d \in Declarations : \A class \in DOMAIN d.instances : \A i \in DOMAIN d.instances[class] :
        /\ \A j \in DOMAIN d.instances[class] : i # j => Apart(d.instances[class][i], d.instances[class][j])
        /\ \A id \in DOMAIN d.types : Apart(d.instances[class][i], Named(id, d.types[id].params))

ASSUME GroundAssumption == GroundTypes \subseteq Layer[Depth] /\ \A ty \in GroundTypes : IsConcrete(ty)

VARIABLES
    declaration,    \* the declaration, which does not change
    resolver,       \* the instance resolver: instances, cache, counter, calls of check_instance
    claims,         \* the pairs of a class and a type that are still to be looked up
    todo,           \* the derived instances the current pass has not processed
    changed,        \* instance_changed
    pass,           \* the number of passes of the loop so far, which the code does not count
    errors,         \* the kinds of the errors reported
    stage           \* what is done next, "accepted" or "rejected"

vars == <<declaration, resolver, claims, todo, changed, pass, errors, stage>>

Init ==
    /\ declaration \in Declarations
    /\ resolver = Search([c \in DOMAIN Classes |-> Keyed(<<>>)], {}, FirstIndex)
    /\ claims = <<>>
    /\ todo = {}
    /\ changed = FALSE
    /\ pass = 0
    /\ errors = {}
    /\ stage = "declare"

instances == resolver.instances

TypeDef(id) == declaration.types[id]
DataType(id) == Named(id, TypeDef(id).params)

\* The derived instances, by their keys: the id of the type and the position of
\* the class among those that it derives.  User-defined instances have 0 first.
DerivedKeys == UNION {{<<id, nr>> : nr \in DOMAIN TypeDef(id).derives} : id \in DOMAIN declaration.types}
DerivedClass(key) == TypeDef(key[1]).derives[key[2]]

\* process_classes_and_user_defined_instances and process_data_types: a
\* derived instance starts without constraints.
Declared(class) ==
    LET user == Keyed(declaration.instances[class])
        derived == {key \in DerivedKeys : DerivedClass(key) = class}
    IN  [key \in derived \cup DOMAIN user |-> IF key \in derived THEN DataType(key[1]) ELSE user[key]]

Declare ==
    /\ stage = "declare"
    /\ resolver' = [resolver EXCEPT !.instances = [class \in DOMAIN Classes |-> Declared(class)]]
    /\ errors' = IF \E key \in DerivedKeys : DerivedClass(key) \notin AutoDerivable
                 THEN {"ClassNotAutoDerivable"} ELSE {}
    /\ stage' = "conflicts"
    /\ UNCHANGED <<declaration, claims, todo, changed, pass>>

UnifyAll(list, key, other) == Unify(NewUnifier(resolver.next), list[key], list[other]).result = "ok"

\* Mutant: only neighbours in the list of instances are compared.
ConflictingNeighbours(list) ==
    \E i, j \in DOMAIN list :
        /\ ComesBefore(i, j) /\ ~\E k \in DOMAIN list : ComesBefore(i, k) /\ ComesBefore(k, j)
        /\ UnifyAll(list, i, j)

\* Mutant: two instances of a base type always conflict.
ConflictingBase(list) == \E i, j \in DOMAIN list : i # j /\ BaseType(list[i]) = BaseType(list[j])

\* check_conflicts, for one class: an instance for all types conflicts with any
\* other, two instances of a base type when their types unify.
Conflicting(list) ==
    IF \E i \in DOMAIN list : IsGeneric(list[i]) THEN Cardinality(DOMAIN list) > 1
    ELSE \E i, j \in DOMAIN list :
            /\ ComesBefore(i, j)
            /\ BaseType(list[i]) = BaseType(list[j])
            /\ UnifyAll(list, i, j)

StartPass ==
    /\ todo' = DerivedKeys
    /\ changed' = FALSE
    /\ pass' = pass + 1
    /\ stage' = "derive"

CheckConflicts ==
    /\ stage = "conflicts"
    /\ errors' = errors \cup
            (IF \E c \in DOMAIN Classes : Conflicting(instances[c]) THEN {"ConflictingInstances"} ELSE {})
    /\ IF errors' = {} THEN StartPass ELSE stage' = "rejected" /\ UNCHANGED <<todo, changed, pass>>
    /\ UNCHANGED <<declaration, resolver, claims>>

-----------------------------------------------------------------------------
(* check_instance for one claim after the other; those behind one that has *)
(* failed are looked up as well.                                           *)

Idle == resolver.pending = <<>>

StartClaim ==
    /\ stage \in {"items", "dependencies"} /\ Idle /\ claims # <<>>
    /\ resolver' = [resolver EXCEPT !.ok = TRUE, !.pending = <<{Head(claims)}>>]
    /\ claims' = Tail(claims)
    /\ UNCHANGED <<declaration, todo, changed, pass, errors, stage>>

Failure == IF stage = "items" THEN "DeriveFailureNoInstanceFound" ELSE "MissingInstance"

CheckPending ==
    /\ ~Idle
    /\ resolver' = CheckNext(resolver)
    /\ errors' = IF resolver'.ok THEN errors ELSE errors \cup {Failure}
    /\ UNCHANGED <<declaration, claims, todo, changed, pass, stage>>

-----------------------------------------------------------------------------
(* process_derived_instances. *)

\* The ADTs come before the records.
ProcessedBefore(key, other) ==
    IF TypeDef(key[1]).kind = TypeDef(other[1]).kind THEN ComesBefore(key, other)
    ELSE TypeDef(key[1]).kind = "adt"

AtHand == CHOOSE key \in todo : \A other \in todo \ {key} : ProcessedBefore(key, other)

\* The class for the types of all items.
ItemClaims(key) ==
    LET items == TypeDef(key[1]).items IN [i \in DOMAIN items |-> <<DerivedClass(key), items[i]>>]

StartItems ==
    /\ stage = "derive" /\ todo # {}
    /\ resolver' = [resolver EXCEPT !.unifiers = <<>>]
    /\ claims' = ItemClaims(AtHand)
    /\ stage' = "items"
    /\ UNCHANGED <<declaration, todo, changed, pass, errors>>

ItemsDone == stage = "items" /\ Idle /\ claims = <<>>

\* Mutant: a unifier always changes the instance.
InstanceChangedAlways(old, new) == TRUE

\* Type::apply says whether it has changed the type.
InstanceChanged(old, new) == old # new

\* The unifiers of the items are applied to the instance, one after the other.
ApplyUnifier ==
    /\ ItemsDone /\ resolver.unifiers # <<>>
    /\ LET class == DerivedClass(AtHand)
           old == instances[class][AtHand]
       IN  \E new \in {Apply(Head(resolver.unifiers).sub, old)} :
                /\ resolver' = [resolver EXCEPT !.instances[class][AtHand] = new, !.unifiers = Tail(@)]
                /\ changed' = (changed \/ InstanceChanged(old, new))
                /\ errors' = errors \cup
                        (IF InstanceChanged(old, new) /\ \E i \in DOMAIN new.args : ~IsGeneric(new.args[i])
                         THEN {"DeriveFailureInstanceNotGeneric"} ELSE {})
    /\ UNCHANGED <<declaration, claims, todo, pass, stage>>

EndItems ==
    /\ ItemsDone /\ resolver.unifiers = <<>>
    /\ todo' = todo \ {AtHand}
    /\ stage' = "derive"
    /\ UNCHANGED <<declaration, resolver, claims, changed, pass, errors>>

\* check_instance_dependencies: the type of an instance needs an instance of
\* every class its class depends on.
DependencyClaims ==
    SetToSeq(UNION {{<<dep, instances[c][key]>> : dep \in Classes[c], key \in DOMAIN instances[c]} :
                    c \in DOMAIN Classes})

StartDependencies == claims' = DependencyClaims /\ stage' = "dependencies"

\* Mutant: one pass over the derived classes has to do.
EndPassOnce ==
    /\ stage = "derive" /\ todo = {}
    /\ IF errors = {} THEN StartDependencies ELSE stage' = "rejected" /\ UNCHANGED claims
    /\ UNCHANGED <<declaration, resolver, errors, todo, changed, pass>>

\* The loop goes on while instances change and no error was found.
EndPass ==
    /\ stage = "derive" /\ todo = {}
    /\ CASE errors = {} /\ changed -> StartPass /\ UNCHANGED claims
         [] errors = {} /\ ~changed -> StartDependencies /\ UNCHANGED <<todo, changed, pass>>
         [] errors # {} -> stage' = "rejected" /\ UNCHANGED <<claims, todo, changed, pass>>
    /\ UNCHANGED <<declaration, resolver, errors>>

CheckInstanceDependencies ==
    /\ stage = "dependencies" /\ Idle /\ claims = <<>>
    /\ stage' = IF errors = {} THEN "accepted" ELSE "rejected"
    /\ UNCHANGED <<declaration, resolver, claims, todo, changed, pass, errors>>

Terminated == stage \in {"accepted", "rejected"} /\ UNCHANGED vars

Next ==
    \/ Declare \/ CheckConflicts
    \/ StartItems \/ StartClaim \/ CheckPending \/ ApplyUnifier \/ EndItems
    \/ EndPass \/ CheckInstanceDependencies \/ Terminated

Spec == Init /\ [][Next]_vars

-----------------------------------------------------------------------------
(* What the instances of a declaration mean, without the search: a claim    *)
(* <<class, type>> says that a ground type has an instance.                 *)

\* The ground types a type stands for, each with what its variables are.
Readings(ty) ==
    {r \in {[ty |-> Apply(args, ty), args |-> args] : args \in [Indices(ty) -> GroundTypes]} :
        r.ty \in GroundTypes}

\* A user-defined instance supports a claim if its constraints are claimed; one
\* for all types supports none, for instances are looked up by base types.  A
\* derived one supports it if the types of all items are claimed.
SupportedBy(head, claim, supported) ==
    ~IsGeneric(head) /\ \E r \in Readings(head) :
        /\ r.ty = claim[2]
        /\ \A leaf \in Leaves(head) : \A class \in leaf.cs : <<class, r.args[leaf.id]>> \in supported

\* An item of a ground type.
ItemAt(id, item, ground) ==
    LET params == TypeDef(id).params
        args == [index \in {params[i].id : i \in DOMAIN params} |->
                    ground.args[CHOOSE i \in DOMAIN params : params[i].id = index]]
    IN  Apply(args, item)

Derives(id, class) == class \in Range(TypeDef(id).derives)

Supported(claim, supported) ==
    \/ \E i \in DOMAIN declaration.instances[claim[1]] :
            SupportedBy(declaration.instances[claim[1]][i], claim, supported)
    \/ /\ claim[2].k = "Named" /\ claim[2].id \in DOMAIN declaration.types
       /\ Derives(claim[2].id, claim[1])
       /\ \A i \in DOMAIN TypeDef(claim[2].id).items :
            <<claim[1], ItemAt(claim[2].id, TypeDef(claim[2].id).items[i], claim[2])>> \in supported

\* The greatest set of claims that supports itself: recursive types have the
\* instances they derive.
Closed(all) ==
    LET kept(claimed) == {claim \in claimed : Supported(claim, claimed)}
        left[n \in Nat] == IF n = 0 THEN all ELSE kept(left[n - 1])
        first[n \in Nat] == IF left[n] = left[n + 1] THEN left[n] ELSE first[n + 1]
    IN  first[0]

Valid == Closed((DOMAIN Classes) \X GroundTypes)

\* Two instances of a class are for a common ground type.
Overlap ==
    \E class \in DOMAIN Classes : \E key, other \in DOMAIN Declared(class) :
        /\ key # other
        /\ \E r \in Readings(Declared(class)[key]), s \in Readings(Declared(class)[other]) : r.ty = s.ty

\* No ground type of an instance has an instance of the class.
NoneValid(head, class) == \A r \in Readings(head) : <<class, r.ty>> \notin Valid

\* The constraints a search may have lost on the way: an item that is made of a
\* type parameter which is no item itself, and an instance for some arguments
\* only, or one that constrains its argument to other classes than its own.
NoConstraintLost ==
    /\ \A id \in DOMAIN declaration.types : \A i \in DOMAIN TypeDef(id).items :
            Leaves(TypeDef(id).items[i]) \subseteq Range(TypeDef(id).items)
    /\ \A class \in DOMAIN Classes : \A i \in DOMAIN declaration.instances[class] :
            LET head == declaration.instances[class][i]
            IN  /\ \A leaf \in Leaves(head) : leaf.cs \subseteq {class}
                /\ \A j \in DOMAIN head.args : IsGeneric(head.args[j])

Found(claim) ==
    CheckInstance(Search(instances, resolver.cache, resolver.next), claim[1], claim[2]).ok

\* The stages end as they should, and a derived instance never loses a
\* parameter, whatever unifiers were applied: it is one for the type applied to
\* distinct variables.
TypeOK ==
    /\ stage \in {"declare", "conflicts", "derive", "items", "dependencies", "accepted", "rejected"}
    /\ stage = "accepted" => errors = {}
    /\ stage = "rejected" => errors # {}
    /\ stage # "declare" => \A key \in DerivedKeys :
        LET ty == instances[DerivedClass(key)][key]
        IN  /\ BaseType(ty) = <<"Named", key[1]>> /\ Len(ty.args) = Len(TypeDef(key[1]).params)
            /\ \A j \in DOMAIN ty.args : IsVar(ty.args[j])
            /\ IsInjective(ty.args)

\* Once a program is accepted, no ground type has two instances of a class:
\* has_instance takes the first that fits, and which one comes first must not
\* matter.  check_conflicts runs before the constraints of derived instances
\* are known, and they are found afterwards.
OneInstance ==
    stage = "accepted" =>
        \A class \in DOMAIN instances : \A key, other \in DOMAIN instances[class] :
            key # other =>
                ~\E r \in Readings(instances[class][key]), s \in Readings(instances[class][other]) :
                    r.ty = s.ty

\* A program is rejected only for a reason: two instances overlap, a class that
\* cannot be derived is, a derived class has no instance whatever the
\* parameters are, or an instance is for types none of which has an instance
\* of a class its class depends on.
RejectedForReason ==
    stage = "rejected" =>
        \/ Overlap
        \/ \E key \in DerivedKeys :
            DerivedClass(key) \notin AutoDerivable \/ NoneValid(DataType(key[1]), DerivedClass(key))
        \/ \E class \in DOMAIN Classes : \E dep \in Classes[class] :
                \E head \in Range(Declared(class)) : NoneValid(head, dep)

\* The loop over derived instances finds the constraints each of them needs:
\* once a program is accepted, a ground type that has an instance by its
\* declaration is found to have one.  A type without one is not found to, as
\* long as no constraint is lost.
DerivedExact ==
    stage = "accepted" =>
        LET valid == Valid
        IN  \A claim \in (DOMAIN Classes) \X GroundTypes :
                /\ claim \in valid => Found(claim)
                /\ NoConstraintLost /\ Found(claim) => claim \in valid

\* The interpreter dispatches by the cache.  Pairs are put in while constraints
\* are still being found and before the constraints of the instance itself are
\* checked: once a program is accepted, each of them has an instance.
CacheSound ==
    stage = "accepted" /\ NoConstraintLost =>
        resolver.cache \cap ((DOMAIN Classes) \X GroundTypes) \subseteq Valid

\* The loop over derived instances ends after its second pass at the latest,
\* though each pass applies unifiers that replace the variables of instances and
\* the constraints found in one pass are there for the next: an instance gets
\* all its constraints when it is processed first.
TwoPasses == pass <= 2

=============================================================================
