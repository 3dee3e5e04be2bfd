------------------------------- MODULE Unifier -------------------------------
(***************************************************************************)
(* Unifier::unify of siko_ir/unifier.rs and the substitution it builds.    *)
(*                                                                         *)
(* A unifier is a record: sub maps indices to types, constraints is the    *)
(* set of <<class, type>> a constrained variable was replaced by, next the *)
(* counter behind new type variables, pending the pairs of types that the  *)
(* calls of unify at hand have not come to yet, in their order, and result *)
(* how it went: "ok", "fail" or "panic" for an assertion of the code.  A   *)
(* unify that fails midway keeps what it had added.                        *)
(***************************************************************************)
EXTENDS Types

NewUnifier(next) ==
    [sub |-> [i \in {} |-> 0], constraints |-> {}, next |-> next, pending |-> <<>>, result |-> "ok"]

Ended(u, result) == [u EXCEPT !.result = result, !.pending = <<>>]
Fail(u) == Ended(u, "fail")
Panic(u) == Ended(u, "panic")

\* Substitution::add
Add(u, index, ty) ==
    IF u.result # "ok" THEN u
    ELSE IF Occurs(ty, index) \/ (index \in DOMAIN u.sub /\ u.sub[index] # ty) THEN Fail(u)
    ELSE [u EXCEPT !.sub = Insert(@, index, ty)]

\* Mutant: the second variable gets the constraints of both and keeps its index.
UnifyVarsInPlace(u, var1, var2) ==
    CASE var1.id = var2.id -> IF var1.cs = var2.cs THEN u ELSE Panic(u)
      [] var1.id # var2.id /\ var1.cs = var2.cs -> Add(u, var1.id, var2)
      [] OTHER -> Add(u, var1.id, Var(var2.id, var1.cs \cup var2.cs))

\* Two variables: one is bound to the other, or both to a new variable with
\* the constraints of both.
UnifyVars(u, var1, var2) ==
    CASE var1.id = var2.id -> IF var1.cs = var2.cs THEN u ELSE Panic(u)
      [] var1.id # var2.id /\ var1.cs = var2.cs -> Add(u, var1.id, var2)
      [] OTHER -> LET merged == Var(u.next, var1.cs \cup var2.cs)
                  IN  Add(Add([u EXCEPT !.next = @ + 1], var1.id, merged), var2.id, merged)

\* Mutant: the constraints have to be the same.
UnifyFixedSame(u, fixed, var) ==
    IF var.cs = fixed.cs THEN Add(u, var.id, fixed) ELSE Fail(u)

\* A fixed type argument only stands for a variable whose constraints it has.
UnifyFixed(u, fixed, var) ==
    IF var.cs \subseteq fixed.cs THEN Add(u, var.id, fixed) ELSE Fail(u)

\* Mutant: constraints of a variable are lost when it is bound to a type.
BindSilently(u, var, ty) == Add(u, var.id, ty)

\* A variable is bound to a composite type, which then has to satisfy the
\* constraints: they are recorded for the caller to check.
Bind(u, var, ty) ==
    Add([u EXCEPT !.constraints = @ \cup {<<c, ty>> : c \in var.cs}], var.id, ty)

\* Mutant: the types are not brought up to date first.
Current(u, ty) == ty

\* The type as far as it is known: what was unified before is applied first.
Applied(u, ty) == Apply(u.sub, ty)

\* Mutant: the items after the first are not unified.
UnifyFirstItems(u, items1, items2) ==
    IF items1 = <<>> THEN u ELSE [u EXCEPT !.pending = <<<<Head(items1), Head(items2)>>>> \o @]

\* Item by item, before anything else.
UnifyItems(u, items1, items2) ==
    [u EXCEPT !.pending = [i \in DOMAIN items1 |-> <<items1[i], items2[i]>>] \o @]

\* unify, up to its calls for the items.
UnifyTypes(u, a, b) ==
    CASE IsVar(a) /\ IsVar(b) -> UnifyVars(u, a, b)
      [] IsFixed(a) /\ IsFixed(b) -> IF a.id = b.id THEN u ELSE Fail(u)
      [] IsFixed(a) /\ IsVar(b) -> UnifyFixed(u, a, b)
      [] IsVar(a) /\ IsFixed(b) -> UnifyFixed(u, b, a)
      [] IsVar(a) /\ ~IsGeneric(b) -> Bind(u, a, b)
      [] ~IsGeneric(a) /\ IsVar(b) -> Bind(u, b, a)
      [] ~IsVar(a) /\ ~IsVar(b) /\ ~(IsFixed(a) /\ IsFixed(b)) ->
            IF BaseType(a) # BaseType(b) THEN Fail(u)
            ELSE IF Len(a.args) = Len(b.args) THEN UnifyItems(u, a.args, b.args)
            ELSE IF a.k = "Named" THEN Panic(u) ELSE Fail(u)

\* The next of the pending calls.
UnifyNext(u) ==
    LET rest == [u EXCEPT !.pending = Tail(@)]
        pair == Head(u.pending)
    IN  UnifyTypes(rest, Applied(u, pair[1]), Applied(u, pair[2]))

\* One more of the calls that are pending, if there is one.
GoOn(u) == IF u.pending = <<>> THEN u ELSE UnifyNext(u)

CallUnify(u, type1, type2) == [u EXCEPT !.pending = <<<<type1, type2>>>>]

\* The unifier that is left when no calls are, of those after each call.
AtTheEnd(after) ==
    LET last[n \in Nat] == IF after[n].pending = <<>> THEN after[n] ELSE last[n + 1]
    IN  last[0]

\* A call of unify with all the calls it makes; none after a failure.
Unify(u, type1, type2) ==
    LET after[n \in Nat] == IF n = 0 THEN CallUnify(u, type1, type2) ELSE GoOn(after[n - 1])
    IN  IF u.result = "ok" THEN AtTheEnd(after) ELSE u

=============================================================================
