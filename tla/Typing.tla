-------------------------------- MODULE Typing --------------------------------
(***************************************************************************)
(* What the types of a program are supposed to be: the typings of an       *)
(* expression by rules on types without variables.  There is no            *)
(* unification here and no order in which things are found out.            *)
(*                                                                         *)
(* It is a reference for the inference, not a model of code.  An           *)
(* environment is [fn, args, self, vars]: the function, the types of its   *)
(* arguments, the typing assumed for the function itself, and the types of *)
(* the names that are bound.                                               *)
(***************************************************************************)
EXTENDS Program, TLC

CONSTANTS
    GroundTypes,    \* bound: the types without variables that are considered
    Instances       \* class -> the ground types that have an instance

Satisfies(ty, class) == IF IsFixed(ty) THEN class \in ty.cs ELSE ty \in Instances[class]

\* Ways to replace variables by some ground types that respect their constraints.
Groundings(leaves, types) ==
    {g \in [{v.id : v \in leaves} -> types] :
        \A v \in leaves : \A c \in v.cs : Satisfies(g[v.id], c)}

RECURSIVE Grounded(_, _)
Grounded(g, ty) ==
    IF IsGeneric(ty) THEN g[ty.id]
    ELSE [ty EXCEPT !.args = [i \in DOMAIN ty.args |-> Grounded(g, ty.args[i])]]

\* The ground types a type with variables stands for.
InstancesAmong(types, ty) == {Grounded(g, ty) : g \in Groundings(Leaves(ty), types)}
GroundInstances(ty) == InstancesAmong(GroundTypes, ty)

\* The typings of the fields or items of a type definition: <<type, parts>>.
TypeDefTypings(id, variant) ==
    LET def == TypeDefs[id]
    IN  {<<Named(id, [i \in DOMAIN def.params |-> g[def.params[i]]]),
           [i \in DOMAIN def.variants[variant] |-> Grounded(g, def.variants[variant][i])]>> :
            g \in [{def.params[i] : i \in DOMAIN def.params} -> GroundTypes]}

\* The ways to choose one member of each set.
Selections(sets) == {c \in [DOMAIN sets -> UNION {sets[i] : i \in DOMAIN sets}] :
                    \A i \in DOMAIN sets : c[i] \in sets[i]}

\* The types of a function's results, when it is given arguments one by one.
ResultsOf(types, args) ==
    {ResultType(ty, Len(args)) : ty \in {t \in types :
        /\ ArgCount(t) >= Len(args)
        /\ \A i \in DOMAIN args : ResultType(t, i - 1).args[1] = args[i]}}

-----------------------------------------------------------------------------

RECURSIVE Typings(_, _, _, _), BlockTypings(_, _, _, _), CaseTypings(_, _, _, _, _),
          PatternTypings(_, _, _, _, _), ItemTypings(_, _, _, _, _, _), LambdaTypings(_, _, _, _),
          BindGroupsFit(_, _, _, _, _)

\* The ways a pattern fits a type: the types of the names after it.
PatternTypings(p, functions, n, ty, env) ==
    LET node == p.nodes[n]
        items(types) == ItemTypings(p, functions, node.args, types, env, 1)
    IN  CASE node.k = "Binding" -> {(node.at :> ty) @@ env.vars}
          [] node.k = "Wildcard" -> {env.vars}
          [] node.k = "IntegerPattern" -> IF ty = IntType THEN {env.vars} ELSE {}
          [] node.k = "StringPattern" -> IF ty = StringType THEN {env.vars} ELSE {}
          [] node.k = "TuplePattern" ->
                IF ty.k = "Tuple" /\ Len(ty.args) = Len(node.args) THEN items(ty.args) ELSE {}
          [] node.k \in {"RecordPattern", "VariantPattern"} ->
                UNION {IF t[1] = ty /\ Len(t[2]) = Len(node.args) THEN items(t[2]) ELSE {} :
                        t \in TypeDefTypings(node.at, IF node.k = "RecordPattern" THEN 1 ELSE node.ix[1])}
          [] node.k = "Typed" ->
                IF ty = node.ty
                THEN PatternTypings(p, functions, node.args[1], ty, env) ELSE {}
          [] node.k = "Guarded" ->
                {vars \in PatternTypings(p, functions, node.args[1], ty, env) :
                    BoolType \in Typings(p, functions, node.args[2], [env EXCEPT !.vars = vars])}

ItemTypings(p, functions, patterns, types, env, i) ==
    IF i > Len(patterns) THEN {env.vars}
    ELSE UNION {ItemTypings(p, functions, patterns, types, [env EXCEPT !.vars = vars], i + 1) :
                vars \in PatternTypings(p, functions, patterns[i], types[i], env)}

\* The types of a block: those of its last expression, for some types of the
\* names its expressions bind.
BlockTypings(p, functions, nodes, env) ==
    LET first == p.nodes[nodes[1]]
        rest(vars) == BlockTypings(p, functions, Tail(nodes), [env EXCEPT !.vars = vars])
        after ==
            IF first.k = "Bind"
            THEN UNION {PatternTypings(p, functions, first.args[1], ty, env) :
                        ty \in Typings(p, functions, first.args[2], env)}
            ELSE IF Typings(p, functions, nodes[1], env) = {} THEN {} ELSE {env.vars}
    IN  IF Len(nodes) = 1
        THEN IF first.k = "Bind" THEN (IF after = {} THEN {} ELSE {UnitType})
             ELSE Typings(p, functions, nodes[1], env)
        ELSE UNION {rest(vars) : vars \in after}

\* Names that the alternatives of one pattern bind have the same type in each.
BindGroupsFit(p, functions, node, ty, env) ==
    LET named(name) ==
            {vars[name] : vars \in {v \in UNION {PatternTypings(p, functions, node.args[2 * i], ty, env) :
                                        i \in 1..((Len(node.args) - 1) \div 2)} : name \in DOMAIN v}}
    IN  \A i \in 1..(Len(node.ix) \div 2) : named(node.ix[2 * i - 1]) = named(node.ix[2 * i])

\* The types all cases have, when the scrutinee has type ty.
CaseTypings(p, functions, cases, ty, env) ==
    LET here == UNION {Typings(p, functions, cases[2], [env EXCEPT !.vars = vars]) :
                        vars \in PatternTypings(p, functions, cases[1], ty, env)}
    IN  IF Len(cases) = 2 THEN here
        ELSE here \cap CaseTypings(p, functions, SubSeq(cases, 3, Len(cases)), ty, env)

\* A lambda is written where it is used: its types with these captured arguments.
LambdaTypings(p, functions, f, captured) ==
    UNION {{FunctionType(args, ty) : ty \in
                Typings(p, functions, p.functions[f].body,
                        [fn |-> f, args |-> captured \o args, self |-> UnitType,
                         vars |-> [b \in {} |-> UnitType]])} :
            args \in [1..p.functions[f].arity -> GroundTypes]}

\* The types of an expression.  functions gives the types of the functions
\* that were checked before.
Typings(p, functions, n, env) ==
    LET node == p.nodes[n]
        types(i) == Typings(p, functions, node.args[i], env)
        all == [i \in DOMAIN node.args |-> types(i)]
    IN  CASE node.k = "IntegerLiteral" -> {IntType}
          [] node.k = "StringLiteral" -> {StringType}
          [] node.k = "ArgRef" -> {env.args[ArgIndex(p.functions, node)]}
          [] node.k = "ExprValue" -> {env.vars[node.at]}
          [] node.k = "Do" -> BlockTypings(p, functions, node.args, env)
          [] node.k = "If" ->
                IF BoolType \in types(1) THEN types(2) \cap types(3) ELSE {}
          [] node.k = "CaseOf" ->
                UNION {IF BindGroupsFit(p, functions, node, ty, env)
                       THEN CaseTypings(p, functions, Tail(node.args), ty, env) ELSE {} :
                        ty \in types(1)}
          [] node.k = "Tuple" -> {Tuple(c) : c \in Selections(all)}
          [] node.k = "List" ->
                IF node.args = <<>> THEN {ListType(ty) : ty \in GroundTypes}
                ELSE {ListType(ty) : ty \in {t \in types(1) : \A i \in DOMAIN node.args : t \in all[i]}}
          [] node.k = "StaticFunctionCall" ->
                UNION {CASE node.at = env.fn -> ResultsOf({env.self}, c)
                         [] node.at # env.fn /\ p.functions[node.at].kind = "lambda" ->
                                LambdaTypings(p, functions, node.at, c)
                         [] OTHER -> ResultsOf(functions[node.at], c) :
                        c \in Selections(all)}
          [] node.k = "ClassFunctionCall" ->
                UNION {ResultsOf(InstancesAmong({c[i] : i \in DOMAIN c}, RemoveFixed(Members[node.at].type)), c) :
                        c \in Selections(all)}
          [] node.k = "DynamicFunctionCall" ->
                UNION {ResultsOf({c[1]}, Tail(c)) : c \in Selections(all)}
          [] node.k = "Formatter" ->
                IF /\ node.ix[1] = Len(node.args)
                   /\ \A i \in DOMAIN node.args : \E ty \in all[i] : Satisfies(ty, "Show")
                THEN {StringType} ELSE {}
          [] node.k = "TupleFieldAccess" ->
                {ty.args[node.ix[1]] : ty \in {t \in types(1) :
                    t.k = "Tuple" /\ node.ix[1] <= Len(t.args)}}
          [] node.k = "FieldAccess" ->
                {t[2][FieldIndex(t[1].id, node.at)] : t \in
                    {t \in UNION {TypeDefTypings(id, 1) : id \in {i \in RecordIds : HasField(i, node.at)}} :
                        t[1] \in types(1)}}
          [] node.k = "RecordInitialization" ->
                {t[1] : t \in {t \in TypeDefTypings(node.at, 1) :
                    \A i \in DOMAIN node.args : t[2][node.ix[i]] \in all[i]}}
          [] node.k = "RecordUpdate" ->
                {t[1] : t \in {t \in UNION {TypeDefTypings(id, 1) :
                                    id \in {RecordsWith(node.ix)[i] : i \in DOMAIN RecordsWith(node.ix)}} :
                    /\ t[1] \in types(1)
                    /\ \A i \in DOMAIN node.ix : t[2][FieldIndex(t[1].id, node.ix[i])] \in all[i + 1]}}

\* The types of the body of f with arguments and a result assumed for f itself.
BodyTypings(p, functions, f, args, result) ==
    Typings(p, functions, p.functions[f].body,
            [fn |-> f, args |-> args, self |-> FunctionType(args, result),
             vars |-> [b \in {} |-> UnitType]])

CallsItself(p, f) ==
    LET walk == Walk(p.nodes, p.functions[f].body)
    IN  \E i \in DOMAIN walk : p.nodes[walk[i]].k = "StaticFunctionCall" /\ p.nodes[walk[i]].at = f

\* The ground types of a function: those its signature stands for if its body
\* keeps what the signature promises, and otherwise those its body has.
FunctionTypings(p, functions, f) ==
    LET fn == p.functions[f]
        arguments == [1..fn.arity -> GroundTypes]
        signature == fn.signature[1]
        declared == [i \in 1..fn.arity |-> ResultType(signature, i - 1).args[1]]
        result == ResultType(signature, fn.arity)
    IN  CASE fn.kind \in {"variant", "record"} ->
                {FunctionType(t[2], t[1]) : t \in TypeDefTypings(fn.typedef, fn.variant)}
          [] fn.kind = "named" /\ fn.signature # <<>> ->
                IF ArgCount(signature) < fn.arity THEN {}
                ELSE IF fn.body = 0 \/ result \in BodyTypings(p, functions, f, declared, result)
                THEN GroundInstances(RemoveFixed(signature))
                ELSE {}
          [] fn.kind = "named" /\ fn.signature = <<>> /\ ~CallsItself(p, f) ->
                UNION {{FunctionType(args, ty) : ty \in BodyTypings(p, functions, f, args, UnitType)} :
                        args \in arguments}
          [] fn.kind = "named" /\ fn.signature = <<>> /\ CallsItself(p, f) ->
                UNION {{FunctionType(args, ty) : ty \in
                            {t \in GroundTypes : t \in BodyTypings(p, functions, f, args, t)}} :
                        args \in arguments}

=============================================================================
