-------------------------------- MODULE Types --------------------------------
(***************************************************************************)
(* The types of siko_ir/types.rs and substitutions on them.                *)
(*                                                                         *)
(* Every type is a record of one shape: the kind k, an index id (the type  *)
(* definition of a Named type, the index of a variable), the types it is   *)
(* made of, and the classes a variable is constrained to.  The code keeps  *)
(* these classes in a sorted list that it compares element by element:     *)
(* here they are a set.                                                    *)
(***************************************************************************)
EXTENDS Naturals, Sequences, FiniteSets, SequencesExt

Named(id, args) == [k |-> "Named", id |-> id, args |-> args, cs |-> {}]
Tuple(items) == [k |-> "Tuple", id |-> 0, args |-> items, cs |-> {}]
Fn(from, to) == [k |-> "Function", id |-> 0, args |-> <<from, to>>, cs |-> {}]
Var(index, cs) == [k |-> "Var", id |-> index, args |-> <<>>, cs |-> cs]
FixedTypeArg(index, cs) == [k |-> "FixedTypeArg", id |-> index, args |-> <<>>, cs |-> cs]

IsVar(ty) == ty.k = "Var"
IsFixed(ty) == ty.k = "FixedTypeArg"
IsGeneric(ty) == IsVar(ty) \/ IsFixed(ty)

\* The base types by which instances are looked up.
BaseType(ty) == IF IsGeneric(ty) THEN <<"Generic", 0>> ELSE <<ty.k, ty.id>>

Generic == [k : {"Var", "FixedTypeArg"}, id : Nat, args : {<<>>}, cs : SUBSET STRING]
MadeOf(types) == [k : {"Named", "Tuple", "Function"}, id : Nat, args : Seq(types), cs : {{}}]

\* The types by their depth.
Layer[n \in Nat] == Generic \cup MadeOf(IF n = 0 THEN {} ELSE Layer[n - 1])

\* A layer with the given types, and so with all that they are made of.
FirstWith(types, layers) ==
    LET depth[n \in Nat] == IF types \subseteq layers[n] THEN n ELSE depth[n + 1]
    IN  layers[depth[0]]

LayerOf(types) == FirstWith(types, Layer)

\* The variables and fixed type arguments of a type.
Leaves(ty) ==
    LET leaves[t \in LayerOf({ty})] ==
            IF IsGeneric(t) THEN {t}
            ELSE UNION {leaves[t.args[i]] : i \in DOMAIN t.args}
    IN  leaves[ty]

\* Those of pairs of types.
LeavesOfPairs(pairs) == UNION {Leaves(pair[1]) \cup Leaves(pair[2]) : pair \in pairs}

Indices(ty) == {leaf.id : leaf \in Leaves(ty)}

Occurs(ty, index) == index \in Indices(ty)

IsConcrete(ty) == Leaves(ty) = {}

\* Substitution::apply: var_map is followed to its end, and fixed type
\* arguments are replaced as well.
Apply(sub, ty) ==
    LET apply[t \in LayerOf({ty} \cup Range(sub))] ==
            IF IsGeneric(t)
            THEN IF t.id \in DOMAIN sub THEN apply[sub[t.id]] ELSE t
            ELSE [t EXCEPT !.args = [i \in DOMAIN t.args |-> apply[t.args[i]]]]
    IN  apply[ty]

\* var_map.insert
Insert(sub, index, ty) ==
    [i \in DOMAIN sub \cup {index} |-> IF i = index THEN ty ELSE sub[i]]

Rename(new, ty) ==
    LET rename[t \in LayerOf({ty})] ==
            IF IsGeneric(t) THEN [t EXCEPT !.id = new[t.id]]
            ELSE [t EXCEPT !.args = [i \in DOMAIN t.args |-> rename[t.args[i]]]]
    IN  rename[ty]

RemoveFixed(ty) ==
    LET remove[t \in LayerOf({ty})] ==
            IF IsGeneric(t) THEN Var(t.id, t.cs)
            ELSE [t EXCEPT !.args = [i \in DOMAIN t.args |-> remove[t.args[i]]]]
    IN  remove[ty]

\* duplicate: the types get fresh indices, the same index for the same leaf.
Numbered(old, next) == [i \in old |-> next + Cardinality({j \in old : j < i})]

Fresh(types, next) == Numbered(UNION {Indices(types[i]) : i \in DOMAIN types}, next)

Copies(types, new, next) ==
    [types |-> [i \in DOMAIN types |-> Rename(new, types[i])],
     next |-> next + Cardinality(DOMAIN new)]

Duplicate(types, next) == Copies(types, Fresh(types, next), next)

FunctionType(args, result) == FoldRight(Fn, args, result)

ArgCount(ty) ==
    LET count[t \in LayerOf({ty})] == IF t.k = "Function" THEN 1 + count[t.args[2]] ELSE 0
    IN  count[ty]

\* get_result_type: the type that is left after arg_count arguments.
ResultType(ty, count) ==
    LET result[n \in 0..count] ==
            IF n = 0 THEN ty
            ELSE LET before == result[n - 1] IN IF before.k = "Function" THEN before.args[2] ELSE before
    IN  result[count]

=============================================================================
