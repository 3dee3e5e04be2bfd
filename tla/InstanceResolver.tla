-------------------------- MODULE InstanceResolver --------------------------
(***************************************************************************)
(* has_instance and check_instance of siko_type_checker/                   *)
(* instance_resolver.rs: whether a type has an instance of a class, and    *)
(* the cache the interpreter later dispatches by.                          *)
(*                                                                         *)
(* The instances of a class are a function from keys to types.  A key is a *)
(* pair of numbers, and they come in the order of these.                   *)
(*                                                                         *)
(* A search is a record: ok, the instances (class -> its instances), the   *)
(* cache of <<class, type>> pairs that are resolved, next, the counter     *)
(* behind new type variables, unifiers, which replace variables by ones    *)
(* with a new constraint, and pending: for each call of check_instance at  *)
(* hand, the innermost first, the set of calls that it still has to make,  *)
(* which are pairs of a class and a type.                                  *)
(***************************************************************************)
EXTENDS Unifier

Search(instances, cache, next) ==
    [ok |-> TRUE, instances |-> instances, cache |-> cache, next |-> next,
     unifiers |-> <<>>, pending |-> <<>>]

ComesBefore(key, other) == key[1] < other[1] \/ (key[1] = other[1] /\ key[2] < other[2])

\* A list of instances, with keys.
Keyed(list) == [key \in {<<0, i>> : i \in DOMAIN list} |-> list[key[2]]]

\* has_instance: the first instance of the base type of ty that unifies with it.
HasInstance(search, class, ty) ==
    LET list == IF class \in DOMAIN search.instances THEN search.instances[class] ELSE Keyed(<<>>)
        candidates == {key \in DOMAIN list : BaseType(list[key]) = BaseType(ty)}
        First(unifiers, fitting) ==
            IF fitting = {} THEN Fail(NewUnifier(search.next))
            ELSE unifiers[CHOOSE key \in fitting : \A other \in fitting \ {key} : ComesBefore(key, other)]
        FirstFitting(unifiers) ==
            First(unifiers, {key \in candidates : unifiers[key].result = "ok"})
    IN  FirstFitting([key \in candidates |-> Unify(NewUnifier(search.next), ty, list[key])])

\* Mutant: the counter is not shared, the next variables get the same indices.
ConstrainAlone(search, class, var) ==
    IF class \in var.cs THEN search
    ELSE [search EXCEPT !.unifiers =
            Append(@, Unify(NewUnifier(search.next + 1), Var(search.next, var.cs \cup {class}), var))]

\* A variable that lacks the class is unified with a new one that has it; the
\* unifier is left to the caller.
Constrain(search, class, var) ==
    IF class \in var.cs THEN search
    ELSE LET Kept(u) == [search EXCEPT !.unifiers = Append(@, u), !.next = u.next]
         IN  Kept(Unify(NewUnifier(search.next + 1), Var(search.next, var.cs \cup {class}), var))

\* A type that is no variable needs an instance, and the constraints the
\* instance puts on the types it is unified with have to hold.  What the
\* unifier found out about the variables of the type is dropped: constraints
\* that were merged into them are not among those that are checked.
Resolve(search, class, ty, unifier) ==
    IF unifier.result # "ok" THEN [search EXCEPT !.ok = FALSE, !.pending = <<>>]
    ELSE [search EXCEPT
            !.cache = @ \cup (IF IsConcrete(ty) THEN {<<class, ty>>} ELSE {}),
            !.next = unifier.next,
            !.pending = <<unifier.constraints>> \o @]

\* check_instance, up to its calls for the constraints.
CheckClaim(search, class, ty) ==
    IF IsVar(ty) THEN Constrain(search, class, ty)
    ELSE Resolve(search, class, ty, HasInstance(search, class, ty))

\* The next of the pending calls, or the return from the call that has none left.
CheckNext(search) ==
    LET calls == Head(search.pending)
        rest == Tail(search.pending)
        claim == CHOOSE claim \in calls : TRUE
    IN  IF calls = {} THEN [search EXCEPT !.pending = rest]
        ELSE CheckClaim([search EXCEPT !.pending = <<calls \ {claim}>> \o rest], claim[1], claim[2])

\* Calls of check_instance with all the calls they make; none after a failure.
CheckConstraints(search, claims) ==
    LET more(s) == IF s.pending = <<>> THEN s ELSE CheckNext(s)
        after[n \in Nat] == IF n = 0 THEN [search EXCEPT !.pending = <<claims>>] ELSE more(after[n - 1])
    IN  IF search.ok THEN AtTheEnd(after) ELSE search

CheckInstance(search, class, ty) == CheckConstraints(search, {<<class, ty>>})

=============================================================================
