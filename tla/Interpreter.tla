----------------------------- MODULE Interpreter -----------------------------
(***************************************************************************)
(* The evaluation of a checked program in siko_interpreter/interpreter.rs, *)
(* with the types it computes as it runs and the assertions it makes about *)
(* them.                                                                   *)
(*                                                                         *)
(* A value is a record [k, id, index, items, ty, sub]: the variant of      *)
(* ValueCore, a type definition, function or literal, the index of an ADT  *)
(* variant, the parts, the type, and for a callable the substitution of    *)
(* its call unifier.  An environment is [fn, args, vars, sub].             *)
(*                                                                         *)
(* Evaluation gives [status, value, vars].  The status is "ok", "deep"     *)
(* when the bound on nested calls is reached, or how the code panics: a    *)
(* call's types do not unify ("mismatch"), a type is not concrete          *)
(* ("open"), an instance was not resolved ("unresolved"), a value is not   *)
(* of the expected variant ("value").  vars has the names that are bound.  *)
(*                                                                         *)
(* An executable is [functions, nodes, exprTypes, functionTypes, cache,    *)
(* next]: what the type checker leaves in siko_ir's Program.               *)
(***************************************************************************)
EXTENDS Program, Unifier

CONSTANT MaxCallDepth   \* bound: calls within calls

NoSub == [i \in {} |-> UnitType]

MakeValue(k, id, index, items, ty) ==
    [k |-> k, id |-> id, index |-> index, items |-> items, ty |-> ty, sub |-> NoSub]
Callable(f, items, ty, sub) ==
    [k |-> "Callable", id |-> f, index |-> 0, items |-> items, ty |-> ty, sub |-> sub]
Unit == MakeValue("Tuple", 0, 0, <<>>, UnitType)

Done(value, vars) == [status |-> "ok", value |-> value, vars |-> vars]
Stopped(status) == [status |-> status, value |-> Unit, vars |-> [b \in {} |-> Unit]]
Panics == {"mismatch", "open", "unresolved", "value", "unbound"}

\* A result that is used if there is one.
Then(result, Use(_)) == IF result.status = "ok" THEN Use(result) ELSE result

-----------------------------------------------------------------------------
(* Calls. *)

\* get_call_unifier: the types of the arguments are unified with those of the
\* function, one by one, and what is left with the expected result type.
CallUnifier(x, args, functionType, expected) ==
    LET Step(s, arg) ==
            LET Given(u) == [u |-> u, ty |-> ResultType(Apply(u.sub, s.ty), 1)]
            IN  IF s.u.result # "ok" THEN s
                ELSE IF s.ty.k # "Function" THEN [s EXCEPT !.u = Panic(s.u)]
                ELSE Given(Unify(s.u, arg.ty, s.ty.args[1]))
        Closed(s) == Unify(s.u, s.ty, expected)
    IN  Closed(FoldLeft(Step, [u |-> NewUnifier(x.next), ty |-> functionType], args))

AllConcrete(args) == \A i \in DOMAIN args : IsConcrete(args[i].ty)

\* What the functions of the standard library and the derived instances expect
\* of a value: as_int, as_string, as_list and the like.
CoreKind(ty) ==
    CASE ty = IntType -> "Int"
      [] ty = StringType -> "String"
      [] ty.k = "Named" /\ ty.id = ListType(UnitType).id -> "List"
      [] OTHER -> "Any"
Expects(ty, value) == CoreKind(ty) \in {"Any", value.k}

\* Show of a value: the instance is looked up by the value's type; lists,
\* variants and records show their parts.
RECURSIVE ShowStatus(_, _)
ShowStatus(x, value) ==
    LET items == {ShowStatus(x, value.items[i]) : i \in DOMAIN value.items} \ {"ok"}
    IN  CASE ~IsConcrete(value.ty) -> "open"
          [] IsConcrete(value.ty) /\ <<"Show", value.ty>> \notin x.cache -> "unresolved"
          [] IsConcrete(value.ty) /\ <<"Show", value.ty>> \in x.cache ->
                IF \/ ~Expects(value.ty, value)
                   \/ value.k \notin {"Int", "String", "List", "Variant", "Record"} THEN "value"
                ELSE IF items = {} THEN "ok" ELSE CHOOSE status \in items : TRUE

\* The first of the values that cannot be shown stops the rest.
ShowAll(x, values) ==
    LET failing == {i \in DOMAIN values : ShowStatus(x, values[i]) # "ok"}
    IN  IF failing = {} THEN "ok"
        ELSE ShowStatus(x, values[CHOOSE i \in failing : \A j \in failing : i <= j])

RECURSIVE Eval(_, _, _, _), EvalAll(_, _, _, _), Call(_, _, _, _), Execute(_, _, _, _),
          EvalBlock(_, _, _, _), EvalCases(_, _, _, _, _), Match(_, _, _, _, _),
          MatchItems(_, _, _, _, _)

\* The loop of Interpreter::call: a function that has all its arguments is
\* executed, what is left goes to its result.
Call(x, callable, args, depth) ==
    LET fn == x.functions[callable.id]
        needed == fn.arity + fn.captured
        values == callable.items \o args
        rest == SubSeq(values, needed + 1, Len(values))
        ty == ResultType(callable.ty, needed)
        env == [fn |-> callable.id, args |-> SubSeq(values, 1, needed),
                vars |-> [b \in {} |-> Unit], sub |-> callable.sub]
    IN  IF callable.k # "Callable" THEN Stopped("value")
        ELSE IF needed > Len(values)
        THEN Done([callable EXCEPT !.items = values], [b \in {} |-> Unit])
        ELSE Then(Execute(x, env, ty, depth),
                  LAMBDA r : IF rest = <<>> THEN r ELSE Call(x, r.value, rest, depth))

\* An extern function is one of the library's on integers.
Execute(x, env, ty, depth) ==
    LET fn == x.functions[env.fn]
    IN  CASE ~IsConcrete(ty) -> Stopped("open")
          [] IsConcrete(ty) /\ depth = MaxCallDepth -> Stopped("deep")
          [] IsConcrete(ty) /\ depth < MaxCallDepth /\ fn.kind = "variant" ->
                Done(MakeValue("Variant", fn.typedef, fn.variant, env.args, ty), env.vars)
          [] IsConcrete(ty) /\ depth < MaxCallDepth /\ fn.kind = "record" ->
                Done(MakeValue("Record", fn.typedef, 0, env.args, ty), env.vars)
          [] IsConcrete(ty) /\ depth < MaxCallDepth /\ fn.kind \in {"named", "lambda"} ->
                IF fn.body # 0 THEN Eval(x, fn.body, env, depth + 1)
                ELSE IF \A i \in DOMAIN env.args : env.args[i].k = "Int"
                THEN Done(MakeValue("Int", 0, 0, <<>>, ty), env.vars)
                ELSE Stopped("value")

StaticCall(x, f, args, expected, depth) ==
    LET functionType == RemoveFixed(x.functionTypes[f])
        u == CallUnifier(x, args, functionType, expected)
    IN  IF ~AllConcrete(args) THEN Stopped("open")
        ELSE IF u.result # "ok" THEN Stopped("mismatch")
        ELSE Call(x, Callable(f, <<>>, Apply(u.sub, functionType), u.sub), args, depth)

\* call_class_member, for a class whose only member takes one argument and
\* gives a string.  A member that is not called yet is a callable without
\* arguments: it is left out.
ClassCall(x, member, args, expected) ==
    LET u == CallUnifier(x, args, RemoveFixed(Members[member].type), expected)
        argument == Apply(u.sub, RemoveFixed(Members[member].argument))
        status == ShowAll(x, args)
    IN  CASE ~AllConcrete(args) -> Stopped("open")
          [] AllConcrete(args) /\ u.result # "ok" -> Stopped("mismatch")
          [] AllConcrete(args) /\ u.result = "ok" ->
                IF ~IsConcrete(argument) THEN Stopped("open")
                ELSE IF <<Members[member].class, argument>> \notin x.cache THEN Stopped("unresolved")
                ELSE IF status # "ok" THEN Stopped(status)
                ELSE Done(MakeValue("String", 0, 0, <<>>, StringType), [b \in {} |-> Unit])

-----------------------------------------------------------------------------
(* Expressions. *)

\* From left to right; the values are the items of the result.
EvalAll(x, nodes, env, depth) ==
    FoldLeft(
        LAMBDA r, n :
            Then(r, LAMBDA before :
                Then(Eval(x, n, [env EXCEPT !.vars = before.vars], depth), LAMBDA one :
                    [one EXCEPT !.value = [before.value EXCEPT !.items = Append(@, one.value)]])),
        Done(Unit, env.vars), nodes)

\* The value of a block is that of its last expression.
EvalBlock(x, nodes, env, depth) ==
    FoldLeft(
        LAMBDA r, n :
            Then(r, LAMBDA before : Eval(x, n, [env EXCEPT !.vars = before.vars], depth)),
        Done(Unit, env.vars), nodes)

\* The first case whose pattern matches; none is unreachable!().
EvalCases(x, args, value, env, depth) ==
    IF args = <<>> THEN Stopped("value")
    ELSE LET match == Match(x, args[1], value, env, depth)
         IN  Then(match, LAMBDA m :
                IF m.value.index = 0
                THEN Eval(x, args[2], [env EXCEPT !.vars = m.vars], depth)
                ELSE EvalCases(x, SubSeq(args, 3, Len(args)), value, env, depth))

\* Names bound in a block or a case are gone after it; those bound in the
\* operands of other expressions stay.
Scoped(result, env) == [result EXCEPT !.vars = env.vars]

Eval(x, n, env, depth) ==
    LET node == x.nodes[n]
        ty == Apply(env.sub, x.exprTypes[n])
        eval(i) == Eval(x, node.args[i], env, depth)
        all(nodes, Use(_, _)) ==
            Then(EvalAll(x, nodes, env, depth), LAMBDA r : Use(r.value.items, r.vars))
        made(k, id, items, vars) == Done(MakeValue(k, id, 0, items, ty), vars)
        calls(result, vars) == Then(result, LAMBDA r : Done(r.value, vars))
    IN  CASE node.k = "IntegerLiteral" -> made("Int", node.at, <<>>, env.vars)
          [] node.k = "StringLiteral" -> made("String", node.at, <<>>, env.vars)
          [] node.k = "ArgRef" ->
                IF node.at # env.fn THEN Stopped("value")
                ELSE Done(env.args[ArgIndex(x.functions, node)], env.vars)
          [] node.k = "ExprValue" ->
                IF node.at \in DOMAIN env.vars THEN Done(env.vars[node.at], env.vars) ELSE Stopped("unbound")
          [] node.k = "StaticFunctionCall" ->
                all(node.args, LAMBDA vs, vars : calls(StaticCall(x, node.at, vs, ty, depth), vars))
          [] node.k = "ClassFunctionCall" ->
                all(node.args, LAMBDA vs, vars : calls(ClassCall(x, node.at, vs, ty), vars))
          [] node.k = "DynamicFunctionCall" ->
                all(node.args, LAMBDA vs, vars : calls(Call(x, vs[1], Tail(vs), depth), vars))
          [] node.k = "Do" -> Scoped(EvalBlock(x, node.args, env, depth), env)
          [] node.k = "Bind" ->
                Then(eval(2), LAMBDA r :
                    Then(Match(x, node.args[1], r.value, [env EXCEPT !.vars = r.vars], depth), LAMBDA m :
                        IF m.value.index = 0 THEN made("Tuple", 0, <<>>, m.vars) ELSE Stopped("value")))
          [] node.k = "If" ->
                Then(eval(1), LAMBDA c :
                    IF c.value.k # "Variant" THEN Stopped("value")
                    ELSE Eval(x, node.args[IF c.value.index = 1 THEN 2 ELSE 3],
                              [env EXCEPT !.vars = c.vars], depth))
          [] node.k = "CaseOf" ->
                Then(eval(1), LAMBDA r :
                    Scoped(EvalCases(x, Tail(node.args), r.value, [env EXCEPT !.vars = r.vars], depth), r))
          [] node.k \in {"Tuple", "List"} ->
                all(node.args, LAMBDA vs, vars : made(node.k, 0, vs, vars))
          [] node.k = "TupleFieldAccess" ->
                Then(eval(1), LAMBDA r :
                    IF r.value.k # "Tuple" \/ node.ix[1] > Len(r.value.items) THEN Stopped("value")
                    ELSE Done(r.value.items[node.ix[1]], r.vars))
          [] node.k = "FieldAccess" ->
                Then(eval(1), LAMBDA r :
                    IF r.value.k # "Record" \/ ~HasField(r.value.id, node.at) THEN Stopped("value")
                    ELSE Done(r.value.items[FieldIndex(r.value.id, node.at)], r.vars))
          [] node.k = "Formatter" ->
                all(node.args, LAMBDA vs, vars :
                    IF ShowAll(x, vs) # "ok" THEN Stopped(ShowAll(x, vs))
                    ELSE made("String", 0, <<>>, vars))
          [] node.k = "RecordInitialization" ->
                all(node.args, LAMBDA vs, vars :
                    made("Record", node.at,
                         [i \in DOMAIN vs |-> vs[CHOOSE j \in DOMAIN vs : node.ix[j] = i]], vars))
          [] node.k = "RecordUpdate" ->
                all(node.args, LAMBDA vs, vars :
                    IF vs[1].k # "Record" \/ \E i \in DOMAIN node.ix : ~HasField(vs[1].id, node.ix[i])
                    THEN Stopped("value")
                    ELSE made("Record", vs[1].id,
                              FoldLeft(LAMBDA items, i :
                                        [items EXCEPT ![FieldIndex(vs[1].id, node.ix[i])] = vs[i + 1]],
                                       vs[1].items, [i \in DOMAIN node.ix |-> i]), vars))

-----------------------------------------------------------------------------
(* Patterns: the index of the value tells whether it matched, 0 if it did. *)

MatchIs(yes, vars) == Done(MakeValue("Variant", 0, IF yes THEN 0 ELSE 1, <<>>, BoolType), vars)

MatchItems(x, patterns, values, env, depth) ==
    FoldLeft(
        LAMBDA r, i :
            Then(r, LAMBDA before :
                IF before.value.index # 0 THEN before
                ELSE IF i > Len(values) THEN Stopped("value")
                ELSE Match(x, patterns[i], values[i], [env EXCEPT !.vars = before.vars], depth)),
        MatchIs(TRUE, env.vars), [i \in DOMAIN patterns |-> i])

Match(x, n, value, env, depth) ==
    LET node == x.nodes[n]
        items == MatchItems(x, node.args, value.items, env, depth)
    IN  CASE node.k = "Binding" -> MatchIs(TRUE, (node.at :> value) @@ env.vars)
          [] node.k = "Wildcard" -> MatchIs(TRUE, env.vars)
          [] node.k = "IntegerPattern" -> MatchIs(value.k = "Int" /\ value.id = node.at, env.vars)
          [] node.k = "StringPattern" -> MatchIs(value.k = "String" /\ value.id = node.at, env.vars)
          [] node.k = "TuplePattern" -> IF value.k = "Tuple" THEN items ELSE MatchIs(FALSE, env.vars)
          [] node.k = "RecordPattern" ->
                IF value.k = "Record" /\ value.id = node.at THEN items ELSE MatchIs(FALSE, env.vars)
          [] node.k = "VariantPattern" ->
                IF value.k = "Variant" /\ value.id = node.at /\ value.index = node.ix[1]
                THEN items ELSE MatchIs(FALSE, env.vars)
          [] node.k = "Typed" -> Match(x, node.args[1], value, env, depth)
          [] node.k = "Guarded" ->
                Then(Match(x, node.args[1], value, env, depth), LAMBDA m :
                    IF m.value.index # 0 THEN m
                    ELSE Then(Eval(x, node.args[2], [env EXCEPT !.vars = m.vars], depth), LAMBDA g :
                        IF g.value.k # "Variant" THEN Stopped("value")
                        ELSE MatchIs(g.value.index = 1, g.vars)))

-----------------------------------------------------------------------------

\* execute_main
ExecuteMain(x, f) ==
    Execute(x, [fn |-> f, args |-> <<>>, vars |-> [b \in {} |-> Unit], sub |-> NoSub], UnitType, 0)

=============================================================================
