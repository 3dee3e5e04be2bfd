------------------------------- MODULE Scoping -------------------------------
(***************************************************************************)
(* What the names of an expression mean: the reference for the resolver's  *)
(* expressions.  A name belongs to the innermost binder around it: an      *)
(* argument of a lambda or function, a pattern of a case, which reaches    *)
(* over its guard and its body, or a binding of a block, which reaches to  *)
(* the end of the block.                                                   *)
(*                                                                         *)
(* Agrees compares a syntax tree with the node it became.  p is a program  *)
(* [nodes, functions]; env has what the names in scope are bound by, a     *)
(* record [ref, fn] of a reference and the function that the binder is in; *)
(* chain has the functions around the expression, the innermost last, as   *)
(* records [fn, by], by being the call that makes it a value.              *)
(***************************************************************************)
EXTENDS ExprProcessor

Binder(ref, fn) == [ref |-> ref, fn |-> fn]

\* A node stands for a binder.  One of another function is captured: the call
\* that makes the function a value passes what it sees itself.
RECURSIVE Sees(_, _, _, _)
Sees(p, n, b, chain) ==
    LET node == p.nodes[n]
        here == Last(chain)
        captured == p.nodes[here.by].args
    IN  IF b.fn = here.fn THEN [k |-> node.k, at |-> node.at, ix |-> node.ix] = b.ref
        ELSE /\ Len(chain) > 1
             /\ node.k = "ArgRef" /\ node.at = here.fn /\ node.ix[2] = 1
             /\ node.ix[1] \in DOMAIN captured
             /\ Sees(p, captured[node.ix[1]], b, Front(chain))

\* A node calls what a global name stands for.
StandsFor(node, item) ==
    CASE item.kind \in {"function", "record", "variant"} -> node.k = "StaticFunctionCall" /\ node.at = item.id
      [] item.kind = "member" -> node.k = "ClassFunctionCall" /\ node.at = item.id
      [] item.kind \notin {"function", "record", "variant", "member"} -> FALSE

-----------------------------------------------------------------------------
(* The names that patterns bind. *)

RECURSIVE BoundNames(_), Binders(_, _, _, _)

BoundNames(pattern) ==
    CASE pattern.op = "PBinding" -> {pattern.name}
      [] pattern.op = "PGuarded" -> BoundNames(pattern.subs[1])
      [] pattern.op \notin {"PBinding", "PGuarded"} -> UNION {BoundNames(pattern.subs[i]) : i \in DOMAIN pattern.subs}

\* The node of a part: the patterns of fields are in the order of the record.
PartNode(node, pattern, i) ==
    IF pattern.op = "PRecord" THEN node.args[FieldIndex(node.at, pattern.subs[i].name)] ELSE node.args[i]
PartPattern(pattern, i) == IF pattern.op = "PRecord" THEN pattern.subs[i].subs[1] ELSE pattern.subs[i]

Binders(p, pattern, n, fn) ==
    IF pattern.op = "PBinding" THEN pattern.name :> Binder(BindingRef(p.nodes[n].at), fn)
    ELSE LET parts == IF pattern.op = "PGuarded" THEN {1} ELSE DOMAIN pattern.subs
             ofPart == [i \in parts |-> Binders(p, PartPattern(pattern, i), PartNode(p.nodes[n], pattern, i), fn)]
             owner(name) == CHOOSE i \in parts : name \in DOMAIN ofPart[i]
         IN  [name \in BoundNames(pattern) |-> ofPart[owner(name)][name]]

-----------------------------------------------------------------------------
(* Expressions and patterns. *)

RECURSIVE Agrees(_, _, _, _, _), AgreesPattern(_, _, _, _, _), AgreesBlock(_, _, _, _, _, _)

AgreesAll(p, exprs, ns, env, chain) ==
    Len(exprs) = Len(ns) /\ \A i \in DOMAIN exprs : Agrees(p, exprs[i], ns[i], env, chain)

PatternKindOf(op) ==
    CASE op = "PBinding" -> "Binding" [] op = "PWildcard" -> "Wildcard" [] op = "PInt" -> "IntegerPattern"
      [] op = "PString" -> "StringPattern" [] op = "PTuple" -> "TuplePattern"
      [] op = "PRecord" -> "RecordPattern" [] op = "PGuarded" -> "Guarded"

AgreesConstructor(p, item, node) ==
    /\ node.at = item.typedef
    /\ \/ item.kind = "record" /\ node.k = "RecordPattern"
       \/ item.kind = "variant" /\ node.k = "VariantPattern" /\ node.ix = <<item.index>>

AgreesPattern(p, pattern, n, env, chain) ==
    LET node == p.nodes[n]
        parts == IF pattern.op = "PGuarded" THEN {1} ELSE DOMAIN pattern.subs
    IN  /\ IF pattern.op = "PConstructor" THEN AgreesConstructor(p, p.globals[pattern.name], node)
           ELSE node.k = PatternKindOf(pattern.op)
        /\ pattern.op \in {"PInt", "PString"} => node.at = LiteralIds[pattern.name]
        /\ Len(node.args) = Len(pattern.subs)
        /\ \A i \in parts : AgreesPattern(p, PartPattern(pattern, i), PartNode(node, pattern, i), env, chain)
        /\ pattern.op = "PGuarded" =>
            Agrees(p, pattern.subs[2], node.args[2], Binders(p, pattern, n, Last(chain).fn) @@ env, chain)

\* The statements of a block from the i-th on.
AgreesBlock(p, exprs, ns, i, env, chain) ==
    IF i > Len(exprs) THEN Len(ns) = Len(exprs)
    ELSE LET node == p.nodes[ns[i]]
         IN  IF exprs[i].op = "Bind"
             THEN /\ node.k = "Bind"
                  /\ Agrees(p, exprs[i].subs[2], node.args[2], env, chain)
                  /\ AgreesPattern(p, exprs[i].subs[1], node.args[1], env, chain)
                  /\ AgreesBlock(p, exprs, ns, i + 1,
                                 Binders(p, exprs[i].subs[1], node.args[1], Last(chain).fn) @@ env, chain)
             ELSE /\ Agrees(p, exprs[i], ns[i], env, chain)
                  /\ AgreesBlock(p, exprs, ns, i + 1, env, chain)

\* Every alternative of a case has the body for itself.
CasePatterns(e) ==
    FlattenSeq([k \in 1..(Len(e.subs) - 1) |->
        LET case == e.subs[k + 1]
            patterns == IF case.subs[1].op = "POr" THEN case.subs[1].subs ELSE <<case.subs[1]>>
        IN  [j \in DOMAIN patterns |-> [pattern |-> patterns[j], body |-> case.subs[2]]]])

AgreesCases(p, cases, ns, env, chain) ==
    /\ Len(ns) = 2 * Len(cases)
    /\ \A k \in DOMAIN cases :
        /\ AgreesPattern(p, cases[k].pattern, ns[2 * k - 1], env, chain)
        /\ Agrees(p, cases[k].body, ns[2 * k],
                  Binders(p, cases[k].pattern, ns[2 * k - 1], Last(chain).fn) @@ env, chain)

ArgumentBinders(tree, fn) ==
    LET names == FieldNames(tree.subs[1].subs)
    IN  [name \in ToSet(names) |-> Binder(ArgumentRef(fn, CHOOSE i \in DOMAIN names : names[i] = name), fn)]

AgreesLambda(p, e, n, env, chain) ==
    LET fn == p.nodes[n].at
    IN  /\ p.nodes[n].k = "StaticFunctionCall" /\ p.functions[fn].kind = "lambda"
        /\ Agrees(p, e.subs[2], p.functions[fn].body, ArgumentBinders(e, fn) @@ env,
                  Append(chain, [fn |-> fn, by |-> n]))

\* What is called is a global, or a value.
CallsGlobal(e, env) ==
    \/ e.subs[1].op = "Builtin" /\ e.subs[1].name # "|>"
    \/ e.subs[1].op = "Path" /\ e.subs[1].name \notin DOMAIN env

AgreesCall(p, e, node, env, chain) ==
    IF CallsGlobal(e, env)
    THEN StandsFor(node, p.globals[e.subs[1].name]) /\ AgreesAll(p, Tail(e.subs), node.args, env, chain)
    ELSE /\ node.k = "DynamicFunctionCall"
         /\ AgreesAll(p, IF e.subs[1].op = "Builtin" THEN <<e.subs[3], e.subs[2]>> ELSE e.subs, node.args, env, chain)

Agrees(p, e, n, env, chain) ==
    LET node == p.nodes[n]
    IN  CASE e.op = "Path" ->
                IF e.name \in DOMAIN env THEN Sees(p, n, env[e.name], chain)
                ELSE StandsFor(node, p.globals[e.name]) /\ node.args = <<>>
          [] e.op = "FunctionCall" -> AgreesCall(p, e, node, env, chain)
          [] e.op = "Lambda" -> AgreesLambda(p, e, n, env, chain)
          [] e.op = "Do" -> node.k = "Do" /\ AgreesBlock(p, e.subs, node.args, 1, env, chain)
          [] e.op = "CaseOf" ->
                /\ node.k = "CaseOf" /\ Agrees(p, e.subs[1], node.args[1], env, chain)
                /\ AgreesCases(p, CasePatterns(e), Tail(node.args), env, chain)
          [] e.op \in {"If", "Tuple", "List", "FieldAccess", "TupleFieldAccess", "Formatter"} ->
                node.k = e.op /\ AgreesAll(p, e.subs, node.args, env, chain)
          [] e.op = "RecordInitialization" ->
                /\ node.k = e.op /\ node.at = p.globals[e.name].typedef
                /\ node.ix = [i \in DOMAIN e.subs |-> FieldIndex(node.at, e.subs[i].name)]
                /\ AgreesAll(p, Values(e.subs), node.args, env, chain)
          [] e.op = "RecordUpdate" ->
                /\ node.k = e.op /\ node.ix = FieldNames(e.subs)
                /\ AgreesAll(p, <<[e EXCEPT !.op = "Path", !.subs = <<>>]>> \o Values(e.subs), node.args, env, chain)
          [] e.op = "Int" -> node.k = "IntegerLiteral" /\ node.at = Signed(e)
          [] e.op = "String" -> node.k = "StringLiteral" /\ node.at = LiteralIds[e.name]

\* A function and the node of its body.
AgreesFunction(p, item, fn) ==
    item.subs[2].op = "Extern"
    \/ Agrees(p, item.subs[2], p.functions[fn].body, ArgumentBinders(item, fn), <<[fn |-> fn, by |-> 1]>>)

-----------------------------------------------------------------------------
(* The names an expression uses that nothing in it binds. *)

RECURSIVE FreeNames(_, _), FreeInBlock(_, _, _)

FreeInAll(exprs, bound) == UNION {FreeNames(exprs[i], bound) : i \in DOMAIN exprs}

FreeInBlock(exprs, i, bound) ==
    IF i > Len(exprs) THEN {}
    ELSE IF exprs[i].op = "Bind"
    THEN FreeNames(exprs[i].subs[2], bound) \cup FreeInBlock(exprs, i + 1, bound \cup BoundNames(exprs[i].subs[1]))
    ELSE FreeNames(exprs[i], bound) \cup FreeInBlock(exprs, i + 1, bound)

FreeInCase(case, bound) ==
    LET inside == bound \cup BoundNames(case.pattern)
    IN  FreeNames(case.body, inside)
        \cup (IF case.pattern.op = "PGuarded" THEN FreeNames(case.pattern.subs[2], inside) ELSE {})

FreeNames(e, bound) ==
    CASE e.op = "Path" -> {e.name} \ bound
      [] e.op = "Builtin" -> {e.name} \ {"|>"}
      [] e.op \in {"Lambda", "Function"} -> FreeNames(e.subs[2], bound \cup ToSet(FieldNames(e.subs[1].subs)))
      [] e.op = "Do" -> FreeInBlock(e.subs, 1, bound)
      [] e.op = "CaseOf" ->
            FreeNames(e.subs[1], bound)
            \cup UNION {FreeInCase(CasePatterns(e)[k], bound) : k \in DOMAIN CasePatterns(e)}
      [] e.op = "RecordUpdate" -> ({e.name} \ bound) \cup FreeInAll(e.subs, bound)
      [] e.op \notin {"Path", "Builtin", "Lambda", "Function", "Do", "CaseOf", "RecordUpdate"} ->
            FreeInAll(e.subs, bound)

=============================================================================
